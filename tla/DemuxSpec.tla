----------------------------- MODULE DemuxSpec -----------------------------
(***************************************************************************)
(* What the TPIU distribution promises (spec 4.5 and 5): the bytes the     *)
(* decoder produces are handed, per channel and in decoder order, to the   *)
(* port of that channel; a channel named twice in -t is served by its      *)
(* first handler only; bytes of other streams are dropped.  delivered[h]   *)
(* is everything handler h has taken on, whether already sent or still    *)
(* buffered.                                                               *)
(***************************************************************************)
EXTENDS Naturals, Sequences

CONSTANTS HandlerChannels, Streams

VARIABLES decoded, delivered

Handlers == 0 .. Len(HandlerChannels) - 1
Channel(h) == HandlerChannels[h + 1]
Item == [s : Streams, n : Nat]

(* h is the first handler of its channel.                                  *)
FirstOfChannel(h) == \A g \in 0 .. h - 1 : Channel(g) # Channel(h)

Init ==
  /\ decoded = << >>
  /\ delivered = [h \in Handlers |-> << >>]

(* The decoder yields more bytes, and each reaches its channel's handler.  *)
Decode ==
  /\ Len(decoded') > Len(decoded)
  /\ SubSeq(decoded', 1, Len(decoded)) = decoded
  /\ LET new == SubSeq(decoded', Len(decoded) + 1, Len(decoded'))
     IN  /\ \A i \in 1 .. Len(new) : new[i] \in Item
         /\ delivered' =
              [h \in Handlers |->
                 IF FirstOfChannel(h)
                   THEN delivered[h] \o SelectSeq(new, LAMBDA it : it.s = Channel(h))
                   ELSE delivered[h]]

Spec == Init /\ [][Decode]_<<decoded, delivered>>

=============================================================================
