---------------------------- MODULE MCFrameScan ----------------------------
(* Model-checking instance of FrameScan: memory of four bytes, SYNC or     *)
(* not, and every buffer length up to four.                                *)
EXTENDS FrameScan

MCBytes == {0, 1}
MCMemSize == 4

=============================================================================
