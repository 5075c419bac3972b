SPECIFICATION Spec
CONSTANTS
  AddrTop = 11
  PageSize = 2
  Module <- MCModule
  Decl <- MCDecl
  PreOp <- MCPreOp
  PostOp <- MCPostOp
  Registrations <- MCRegistrations
  Accessed <- MCAccessed
  Written <- MCWritten
  Words <- MCWords
  Held <- MCHeld
  FillRanges <- MCFillRanges
  Contents <- MCContents
  CacheLen = 2
  IdxTop = 3
  FirstIdx = {3}
  StepBound = 4
CHECK_DEADLOCK FALSE
INVARIANT TiersKept
