SPECIFICATION Spec
CONSTANTS
  Clients = {c1}
  Cpu = cpu
  Free = free
  AddrTop = 2
  DmaRanges <- MCOneRange
  CallBound = 2
  InstrCycles <- MCInstrCycles
  StaleStages = {"next_cycle", "end"}
INVARIANTS TypeOK AllOrNothing
PROPERTIES CacheRestored
CHECK_DEADLOCK FALSE
