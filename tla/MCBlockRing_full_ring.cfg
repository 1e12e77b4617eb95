CONSTANTS
  NumRawBlocks <- MCNumRawBlocks
  MaxBlocks <- MCMaxBlocks
  MaxFileErrors <- MCMaxFileErrors
  Feeders <- MCSerialFeeders
SPECIFICATION Spec
PROPERTIES BlocksEventuallySent
CHECK_DEADLOCK FALSE
