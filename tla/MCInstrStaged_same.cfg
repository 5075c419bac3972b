SPECIFICATION Spec
CONSTANTS
  Radix = 6
  ROM <- MCROM
  Ops <- MCSameOps
  Start <- MCSameStart
  MaxInstr = 2
PROPERTY StaticAgrees
CHECK_DEADLOCK FALSE
