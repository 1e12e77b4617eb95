CONSTANTS
  NumRawBlocks <- MCNumRawBlocks
  MaxBlocks <- MCMaxBlocks
  MaxFileErrors <- MCMaxFileErrors
  Feeders <- MCDeviceFeeders
SPECIFICATION Spec
INVARIANTS TypeOK WakeupPending PassThroughExact DeviceSendsNonNegative
PROPERTIES ConsumerWakes ConsumerBehindFeeder
CHECK_DEADLOCK FALSE
