CONSTANTS
  NumRawBlocks <- MCNumRawBlocks
  MaxBlocks <- MCMaxBlocks
  MaxFileErrors <- MCMaxFileErrors
  Feeders <- MCFileFeeders
SPECIFICATION Spec
INVARIANTS EofDeliversAll
CHECK_DEADLOCK FALSE
