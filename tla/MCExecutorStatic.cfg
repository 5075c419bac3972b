SPECIFICATION FairSpec
CONSTANTS
  Clients = {c1}
  Cpu = cpu
  Free = free
  AddrTop = 3
  DmaRanges <- MCDmaRanges
  CallBound = 3
INVARIANTS TypeOK SignalsHeld StoresInRange
PROPERTIES CacheRestored StopEndsRun NmiTaken ServesSignals
CHECK_DEADLOCK FALSE
