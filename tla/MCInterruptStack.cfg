\* Three stacks, two interrupt numbers, nesting of two and up to three entries.
CONSTANTS
  Stacks = {k1, k2, k3}
  IntNums = {14, 32}
  MaxDepth = 2
  MaxEntries = 3
  Absent = Absent
SYMMETRY Interchangeable
SPECIFICATION Spec
INVARIANTS NoEmptyStack OpenInterruptsOnTop
CHECK_DEADLOCK FALSE
