SPECIFICATION Spec
CONSTANTS
  Clients = {c1}
  Cpu = cpu
  Free = free
  AddrTop = 3
  DmaRanges <- MCOneRange
  CallBound = 2
  InstrCycles <- MCInstrCycles
  StaleStages = {"next_cycle", "end"}
INVARIANT LaunchReleasesLock
CHECK_DEADLOCK FALSE
