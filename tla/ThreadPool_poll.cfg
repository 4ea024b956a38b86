\* One callback that polls until no request is left.
CONSTANTS
  Reqs = {r1, r2}
  Silent = {}
  Draining = {r1}
  Workers = {w1, w2}
  max_threads = 2
  NoReq = NoReq
SPECIFICATION FairSpec
PROPERTIES NestedPollReturns
CHECK_DEADLOCK FALSE
