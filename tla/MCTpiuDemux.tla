---------------------------- MODULE MCTpiuDemux ----------------------------
(* Model-checking instance of TpiuDemux: -t 1,2,1 (two channels, one of    *)
(* them given twice), a decoder that may also emit stream 3, which has no  *)
(* handler, and strippedBlock buffers of three bytes.                      *)
EXTENDS TpiuDemux

MCHandlerChannels == <<1, 2, 1>>
MCStreams == {1, 2, 3}
MCTransferSize == 3
MCMaxItemsPerBlock == 3
MCMaxBlocks == 3
=============================================================================
