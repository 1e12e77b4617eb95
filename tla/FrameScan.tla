----------------------------- MODULE FrameScan -----------------------------
(***************************************************************************)
(* OFLOWgetFrameExtent of oflow.c: scan a buffer of len bytes for the next *)
(* end-of-frame marker.  The loop                                          *)
(*     while ( !OFLOWisEOFRAME( inputEnc ) && --len ) inputEnc++;          *)
(* stops at the first SYNC or at the last byte of the buffer.  The model   *)
(* gives it the memory from the start of the buffer on: the len bytes of   *)
(* the buffer followed by whatever lies after it, so that a scan that does *)
(* not stop within the buffer is seen to run past it.  A scan that runs    *)
(* past the end of memory returns Len(mem).                                *)
(***************************************************************************)
EXTENDS Integers, Sequences

CONSTANTS
  Bytes,     \* byte values in memory
  MemSize,   \* bytes of memory from the start of the buffer
  MinLen     \* smallest len the caller passes

SYNC == 0

ASSUME FrameScanAssumption ==
  /\ SYNC \in Bytes
  /\ MemSize \in Nat
  /\ MinLen \in 0 .. MemSize

VARIABLES
  mem,      \* memory from inputEnc on
  len,      \* the len argument
  result    \* offset of the returned pointer from inputEnc; -1 before the call

vars == <<mem, len, result>>

(* OFLOWisEOFRAME: COBS_SYNC_CHAR == *inputEnc.                            *)
IsEOFrame(b) == b = SYNC

(* Mutant: a post-decrement, len-- in place of --len.                     *)
FrameExtentPostDecrement(m, n) ==
  LET scan[k \in 0 .. Len(m)] ==
        IF k = Len(m) THEN k
        ELSE IF IsEOFrame(m[k + 1]) \/ n - k = 0 THEN k
        ELSE scan[k + 1]
  IN  scan[0]

(* The loop: at offset k the byte is tested, then len is decremented to    *)
(* n - k - 1 and the scan stops when that is 0.  With n = 0 the decrement  *)
(* gives -1 and the scan goes on until it meets a SYNC.                    *)
FrameExtent(m, n) ==
  LET scan[k \in 0 .. Len(m)] ==
        IF k = Len(m) THEN k
        ELSE IF IsEOFrame(m[k + 1]) \/ n - k - 1 = 0 THEN k
        ELSE scan[k + 1]
  IN  scan[0]

(* The caller holds a buffer of len bytes, len <= MemSize.                 *)
Init ==
  /\ mem \in [1 .. MemSize -> Bytes]
  /\ len \in MinLen .. MemSize
  /\ result = -1

(* One call of OFLOWgetFrameExtent( inputEnc, len ).                       *)
Scan ==
  /\ result = -1
  /\ result' = FrameExtent(mem, len)
  /\ UNCHANGED <<mem, len>>

Next == Scan

Spec == Init /\ [][Next]_vars

-----------------------------------------------------------------------------
(* What the comment of OFLOWgetFrameExtent promises: the first end of      *)
(* frame marker within the buffer, or its last byte when there is none.    *)
ReferenceExtent(m, n) ==
  IF \E k \in 0 .. n - 1 : IsEOFrame(m[k + 1])
    THEN CHOOSE k \in 0 .. n - 1 :
           IsEOFrame(m[k + 1]) /\ \A j \in 0 .. k - 1 : ~IsEOFrame(m[j + 1])
    ELSE n - 1

(* The scan returns the first SYNC in the buffer, or the buffer's last     *)
(* byte: it never stops early and never reads past the len bytes.          *)
ExtentMatchesReference ==
  result # -1 => result = ReferenceExtent(mem, len)

=============================================================================
