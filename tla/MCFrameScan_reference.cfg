CONSTANTS
  Bytes <- MCBytes
  MemSize <- MCMemSize
  MinLen = 1
SPECIFICATION Spec
INVARIANTS ExtentMatchesReference
CHECK_DEADLOCK FALSE
