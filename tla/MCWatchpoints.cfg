SPECIFICATION Spec
CONSTANTS
  AddrTop = 3
  Callbacks = {f, g, h}
  Requests <- MCRequests
  WatchAddrs = {1, 2, 3}
  WatchRanges <- MCWatchRanges
  AllocModes = {"rw", "wo"}
  NodeBound = 4
  StepBound = 5
SYMMETRY CallbackSymmetry
INVARIANTS TypeOK DispatchExact ParentsLeadBack AllFreed
CHECK_DEADLOCK FALSE
