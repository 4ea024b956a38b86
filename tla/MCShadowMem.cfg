\* Three pages of two bytes, and host memory for four secondary maps, so that
\* a range can cover a whole page and parts of two others, and malloc can fail.
CONSTANTS
  PageNum = 3
  PageSize = 2
  Maps = {m1, m2, m3, m4}
  Distinguished = Distinguished
  Values = {0, 1}
  Untainted = 0
  Lengths = {0, 1, 4}
  NoJob = NoJob
SYMMETRY Interchangeable
SPECIFICATION Spec
INVARIANTS RangeExact
PROPERTIES ImplementsFlatMem
CHECK_DEADLOCK FALSE
