CONSTANTS
  HandlerChannels <- MCHandlerChannels
  Streams <- MCStreams
  TransferSize <- MCTransferSize
  MaxItemsPerBlock <- MCMaxItemsPerBlock
  MaxBlocks <- MCMaxBlocks
SPECIFICATION Spec
INVARIANTS PurgeFlushesAll
CHECK_DEADLOCK FALSE
