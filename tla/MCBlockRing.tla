---------------------------- MODULE MCBlockRing ----------------------------
(* Model-checking instance of BlockRing: a ring of two slots, so that      *)
(* three blocks are enough for the feeder to lap the consumer.             *)
EXTENDS BlockRing

MCNumRawBlocks == 2
MCMaxBlocks == 3
MCMaxFileErrors == 1
MCDeviceFeeders == {"usbFeeder", "serialFeeder"}
MCFileFeeders == {"fileFeeder"}
MCSerialFeeders == {"serialFeeder"}

=============================================================================
