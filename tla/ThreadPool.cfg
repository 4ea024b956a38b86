\* Two threads at most, three requests: one whose callback polls until no
\* request is left, one whose callback does not, and one without a callback.
CONSTANTS
  Reqs = {r1, r2, r3}
  Silent = {r3}
  Draining = {r1}
  Workers = {w1, w2}
  max_threads = 2
  NoReq = NoReq
SPECIFICATION FairSpec
INVARIANTS OneWorkerPerRequest TokensMatchRequests
  ThreadsCounted FinishedIsSeen ScanPointersValid
PROPERTIES RequestsComplete CancelReturns FreeReturns
CHECK_DEADLOCK FALSE
