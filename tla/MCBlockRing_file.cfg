CONSTANTS
  NumRawBlocks <- MCNumRawBlocks
  MaxBlocks <- MCMaxBlocks
  MaxFileErrors <- MCMaxFileErrors
  Feeders <- MCFileFeeders
SPECIFICATION Spec
INVARIANTS PassThroughExact
CHECK_DEADLOCK FALSE
