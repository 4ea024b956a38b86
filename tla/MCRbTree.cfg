\* Nine nodes hold every disjoint object; overlapping objects never keep more
\* than five start addresses.  The run may end in an abort of the tree.
CONSTANTS
  AddrSpace = 10
  Types = {ty}
  NoNode = NoNode
  Workloads <- Families
  MaxNodes = 9
SPECIFICATION Spec
INVARIANTS WellLinked Balanced FindWithinContract
PROPERTIES ImplementsIndex
CHECK_DEADLOCK FALSE
