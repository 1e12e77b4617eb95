CONSTANTS
  NumRawBlocks <- MCNumRawBlocks
  MaxBlocks <- MCMaxBlocks
  MaxFileErrors <- MCMaxFileErrors
  Feeders <- MCFileFeeders
SPECIFICATION Spec
INVARIANTS WakeupPending
CHECK_DEADLOCK FALSE
