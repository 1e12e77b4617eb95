CONSTANTS
  HandlerChannels <- MCHandlerChannels
  Streams <- MCStreams
  TransferSize <- MCTransferSize
  MaxItemsPerBlock <- MCMaxItemsPerBlock
  MaxBlocks <- MCMaxBlocks
SPECIFICATION Spec
PROPERTIES DemuxRefinement
CHECK_DEADLOCK FALSE
