SPECIFICATION FairSpec
CONSTANTS
  Radix = 6
  ROM <- MCROM
  Ops <- MCStackOps
  Start <- MCStackStart
  MaxInstr = 6
INVARIANT TypeOK
INVARIANT StackMirrors
INVARIANT NoMarksInSR
PROPERTY ReturnsExact
PROPERTY InstructionsEnd
CHECK_DEADLOCK FALSE
