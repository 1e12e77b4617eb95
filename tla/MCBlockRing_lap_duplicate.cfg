CONSTANTS
  NumRawBlocks <- MCNumRawBlocks
  MaxBlocks <- MCMaxBlocks
  MaxFileErrors <- MCMaxFileErrors
  Feeders <- MCDeviceFeeders
SPECIFICATION Spec
INVARIANTS NoDuplicateDelivery
CHECK_DEADLOCK FALSE
