SPECIFICATION FairSpec
CONSTANTS
  j = j
  g1 = g1
  g2 = g2
  Job = j
  Co = {j, g1, g2}
  Scenes <- MCScenes
  Allocations <- MCAllocations
  NClusters = 2
  SectorsPerCluster = 2
  MaxErrors = 1
  MaxCommands = 1
  MaxSections = 5
INVARIANTS PointInTime FlushedBeforeFree OneCopier NotSpurious LinkedOnce WakeupsKept
PROPERTIES LocksExclude RequestsEnd JobEnds
CHECK_DEADLOCK FALSE
