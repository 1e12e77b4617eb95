CONSTANTS
  NumRawBlocks <- MCNumRawBlocks
  MaxBlocks <- MCMaxBlocks
  MaxFileErrors <- MCMaxFileErrors
  Feeders <- MCFileFeeders
SPECIFICATION Spec
INVARIANTS NoNegativeSend
CHECK_DEADLOCK FALSE
