SPECIFICATION Spec
CONSTANTS
  BlockLen <- MCBlockLen
  Content = {0, 1}
  Zero = 0
  MaxIov = 2
  MaxSizes = {2}
  MaxOps = 2
INVARIANT ZeroMeansNoDirtyPages
CHECK_DEADLOCK FALSE
