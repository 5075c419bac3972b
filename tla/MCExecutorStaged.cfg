SPECIFICATION FairSpec
CONSTANTS
  Clients = {c1}
  Cpu = cpu
  Free = free
  AddrTop = 3
  DmaRanges <- MCDmaRanges
  CallBound = 3
  InstrCycles <- MCInstrCycles
  StaleStages = {"next_cycle", "end"}
INVARIANTS TypeOK SignalsHeld AllOrNothing DmaFaithful
PROPERTIES DmaWhole CacheRestored StopEndsRun NmiTaken DmaDrains ServesSignals ServesTransfers
CHECK_DEADLOCK FALSE
