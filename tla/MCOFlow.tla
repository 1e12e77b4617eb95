------------------------------ MODULE MCOFlow ------------------------------
(* Model-checking instance of OFlow: two channels, payloads of up to two   *)
(* bytes drawn from values that make the 8-bit sum wrap (1 + 255) and that *)
(* include SYNC, so COBS has zeros to stuff, and the code byte 2.          *)
EXTENDS OFlow

MCChannels == {1, 255}
MCBytes == {0, 1, 2, 255}
MCMaxPayload == 2
MCMaxFrames == 2
MCMaxBlock == 3
MCMaxFrameLen == 4

=============================================================================
