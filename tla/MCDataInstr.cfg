CONSTANTS
  Image <- MCImage
  Opcodes <- MCOpcodes
  Start <- MCStart
  LeftOver <- MCLeftOver
  Junk <- MCJunk
SPECIFICATION Spec
INVARIANTS TypeOK BehavesAsCpu SameBothWays CyclesAsCpu
CHECK_DEADLOCK FALSE
