SPECIFICATION Spec
CONSTANTS
  Radix = 6
  ROM <- MCROM
  Ops <- MCIrqOps
  Start <- MCSameStart
  MaxInstr = 2
PROPERTY EntersHandler
CHECK_DEADLOCK FALSE
