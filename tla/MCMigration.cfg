SPECIFICATION FairSpec
CONSTANTS
  BlockLen <- MCBlockLen
  Content = {0, 1}
  Zero = 0
  MaxIov = 2
  MaxSizes = {2}
  MaxOps = 3
INVARIANTS NothingForgotten DestMatches DirtyPagesCounted OneSideRuns GuestFate CleanupSound
CHECK_DEADLOCK FALSE
PROPERTIES MigrationEnds
