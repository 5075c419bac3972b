CONSTANTS
  Image <- MCImage
  Opcodes <- MCOpcodes
  Start <- MCStart
  LeftOver <- MCLeftOver
  Junk <- MCJunk
SPECIFICATION Spec
INVARIANT EveryCombination
CHECK_DEADLOCK FALSE
