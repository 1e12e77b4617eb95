------------------------------- MODULE OFlow -------------------------------
(***************************************************************************)
(* The ORBFLOW codec of oflow.c.  OFLOWEncode frames a payload as          *)
(* [channel] \o payload \o [checksum], the checksum chosen so that the     *)
(* 8-bit wrapping sum of the frame is 0, and COBS-encodes it.  OFLOWPump   *)
(* feeds one incoming block of bytes to the COBS decoder, which calls      *)
(* _pumpcb for every completed frame: a frame shorter than 2 bytes counts  *)
(* as an error, any other is split into tag, payload and sum, checked,     *)
(* counted as an error when the sum is not 0, and delivered.               *)
(*                                                                         *)
(* cobs.c is not part of this source: the COBS encoder and the byte-wise   *)
(* decoder are modelled from its contract (spec 4.1).  The encoder and the *)
(* decoder are joined by a wire: the whole history of bytes written, and   *)
(* the index of the last byte pumped into the decoder.  One fault is       *)
(* modelled: a byte of the decoded region changed before encoding (spec 8, *)
(* scenario 5), the change the checksum is there to detect.                *)
(***************************************************************************)
EXTENDS Naturals, FiniteSets, Sequences, SequencesExt

CONSTANTS
  Channels,       \* channel numbers given to OFLOWEncode
  Bytes,          \* byte values payloads and faults are drawn from
  MaxPayload,     \* longest payload encoded
  MaxFrames,      \* bound on the number of frames encoded
  MaxBlock,       \* longest block given to one OFLOWPump call
  MaxFrameLen,    \* reassembly capacity of the COBS decoder
  MaxFlips        \* bound on frames changed before encoding

(* COBS_SYNC_CHAR *)
SYNC == 0

ASSUME BytesAssumption ==
  /\ Channels \subseteq 0 .. 255
  /\ Bytes \subseteq 0 .. 255
  /\ SYNC \in Bytes
(* Every frame fits the reassembly buffer and one COBS group.              *)
ASSUME SizesAssumption ==
  /\ MaxPayload \in Nat
  /\ MaxFrameLen \in (MaxPayload + 2) .. 253
  /\ MaxFrames \in Nat
  /\ MaxBlock \in Nat \ {0}
  /\ MaxFlips \in Nat

VARIABLES
  wire,       \* every byte written by the encoder
  pumped,     \* number of wire bytes already given to OFLOWPump
  sent,       \* history: the frames encoded, with their place on the wire
  cobs,       \* the COBS decoder state inside struct OFLOW (t->c)
  perror,     \* t->perror
  rx          \* frames handed to the packetRxed callback, in order

vars == <<wire, pumped, sent, cobs, perror, rx>>

-----------------------------------------------------------------------------
(* uint8_t arithmetic: sum += x.                                           *)
Add8(a, b) == (a + b) % 256

(* The loop for ( i = 0; i < len; i++ ) sum += inputMsg[i], from start.    *)
Sum8(start, seq) == FoldLeft(Add8, start, seq)

(* Mutant: the checksum byte as the ones' complement 255 - sum.           *)
CheckByteOnes(channel, payload) == 255 - Sum8(channel, payload)

(* Mutant: 256 - sum kept as an int, not truncated to a byte.            *)
CheckByteNoTruncate(channel, payload) == 256 - Sum8(channel, payload)

(* backMatter = 256 - sum, truncated to uint8_t (0 when sum is 0).         *)
CheckByte(channel, payload) == (256 - Sum8(channel, payload)) % 256

(* COBS encoding of a frame (spec 4.1): the frame is cut at its zero       *)
(* bytes, each piece is sent after a code byte equal to its length plus    *)
(* one, and the frame ends with SYNC.                                      *)
CobsPieces(content) ==
  FoldLeft(LAMBDA ps, b : IF b = SYNC THEN Append(ps, << >>)
                          ELSE [ps EXCEPT ![Len(ps)] = Append(@, b)],
           << << >> >>, content)

CobsFrame(content) ==
  LET ps == CobsPieces(content)
  IN  FlattenSeq([i \in DOMAIN ps |-> <<Len(ps[i]) + 1>> \o ps[i]])
        \o <<SYNC>>

(* COBSEncode( frontMatter, 1, backMatter, 1, inputMsg, len, o ).          *)
CobsEncode(front, back, body) == CobsFrame(front \o body \o back)

(* The decoded region of OFLOWEncode( channel, ..., payload, ... ).        *)
OFlowContent(channel, payload) ==
  <<channel>> \o payload \o <<CheckByte(channel, payload)>>

(* COBSInit: no frame in progress.  owed: the group just finished was      *)
(* shorter than 254 bytes, so a zero follows unless the frame ends.        *)
CobsIdle == [buf |-> << >>, rem |-> 0, owed |-> FALSE, drop |-> FALSE]

(* One byte into the COBS decoder (spec 4.1): SYNC ends the frame and      *)
(* resynchronises; a frame longer than the buffer is dropped until the     *)
(* next SYNC.                                                              *)
CobsStep(c, b) ==
  LET next == IF c.rem = 0
                THEN [c EXCEPT !.buf = IF c.owed THEN Append(@, SYNC) ELSE @,
                               !.rem = b - 1, !.owed = b < 255]
                ELSE [c EXCEPT !.buf = Append(@, b), !.rem = @ - 1]
  IN  CASE b = SYNC                   -> CobsIdle
        [] c.drop                     -> c
        [] Len(next.buf) > MaxFrameLen -> [CobsIdle EXCEPT !.drop = TRUE]
        [] OTHER                      -> next

(* The SYNC b completes a frame: whole groups and not empty.               *)
CobsCompletes(c, b) == b = SYNC /\ ~c.drop /\ c.rem = 0 /\ c.buf # << >>

(* _pumpcb: a frame p of the COBS decoder.  tag is p->d[0], the payload    *)
(* the bytes between, and the received sum is added to the sum of tag and  *)
(* payload; good is a zero total.  The frame goes to the callback whether  *)
(* good or not.                                                            *)
PumpCb(st, p) ==
  IF Len(p) < 2
    THEN [st EXCEPT !.perror = @ + 1]
    ELSE LET payload == SubSeq(p, 2, Len(p) - 1)
             good    == Add8(Sum8(p[1], payload), p[Len(p)]) = 0
         IN  [st EXCEPT !.perror = @ + (IF good THEN 0 ELSE 1),
                        !.rx = Append(@, [tag |-> p[1], payload |-> payload,
                                          good |-> good])]

(* COBSPump on one byte, calling _pumpcb when a frame completes.           *)
PumpByte(st, b) ==
  LET st2 == [st EXCEPT !.cobs = CobsStep(st.cobs, b)]
  IN  IF CobsCompletes(st.cobs, b) THEN PumpCb(st2, st.cobs.buf) ELSE st2

(* OFLOWPump( t, incoming, len, ... ) on the bytes of one block.           *)
OFlowPump(block) ==
  FoldLeft(PumpByte, [cobs |-> cobs, perror |-> perror, rx |-> rx], block)

-----------------------------------------------------------------------------
(* OFLOWInit: a zeroed struct OFLOW and COBSInit.                          *)
Init ==
  /\ wire = << >>
  /\ pumped = 0
  /\ sent = << >>
  /\ cobs = CobsIdle
  /\ perror = 0
  /\ rx = << >>

(* Put a COBS frame on the wire and record what was meant to be sent.      *)
Transmit(frame, channel, payload, flipped) ==
  /\ wire' = wire \o frame
  /\ sent' = Append(sent, [tag |-> channel, payload |-> payload,
                           flipped |-> flipped,
                           first |-> Len(wire) + 1,
                           last |-> Len(wire) + Len(frame)])

(* OFLOWEncode( channel, tstamp, payload, len, o ), and o is written out.  *)
Encode ==
  /\ Len(sent) < MaxFrames
  /\ \E channel \in Channels, payload \in BoundedSeq(Bytes, MaxPayload) :
       Transmit(CobsEncode(<<channel>>, <<CheckByte(channel, payload)>>,
                           payload),
                channel, payload, FALSE)
  /\ UNCHANGED <<pumped, cobs, perror, rx>>

(* OFLOWEncode, with one byte of the decoded region changed before the     *)
(* COBS encoding (spec 8, scenario 5).                                     *)
EncodeFlipped ==
  /\ Len(sent) < MaxFrames
  /\ Cardinality({i \in DOMAIN sent : sent[i].flipped}) < MaxFlips
  /\ \E channel \in Channels, payload \in BoundedSeq(Bytes, MaxPayload) :
       LET content == OFlowContent(channel, payload)
       IN  \E i \in DOMAIN content : \E v \in Bytes \ {content[i]} :
             Transmit(CobsFrame(ReplaceAt(content, i, v)),
                      channel, payload, TRUE)
  /\ UNCHANGED <<pumped, cobs, perror, rx>>

(* OFLOWPump on the next block of 1 .. MaxBlock bytes read from the wire;  *)
(* a frame may span blocks.                                                *)
Pump ==
  \E k \in 1 .. MaxBlock :
    /\ pumped + k <= Len(wire)
    /\ LET st == OFlowPump(SubSeq(wire, pumped + 1, pumped + k))
       IN  /\ cobs' = st.cobs
           /\ perror' = st.perror
           /\ rx' = st.rx
    /\ pumped' = pumped + k
    /\ UNCHANGED <<wire, sent>>

Next == Encode \/ EncodeFlipped \/ Pump

Spec == Init /\ [][Next]_vars

-----------------------------------------------------------------------------
(* Type invariant.                                                         *)
TypeOK ==
  /\ wire \in Seq(0 .. 255)
  /\ pumped \in 0 .. Len(wire)
  /\ cobs \in [buf : Seq(0 .. 255), rem : Int, owed : BOOLEAN,
               drop : BOOLEAN]
  /\ perror \in Nat
  /\ rx \in Seq([tag : 0 .. 255, payload : Seq(0 .. 255), good : BOOLEAN])

(* What a frame carries, as encoded and as delivered.                      *)
Meant(f) == [tag |-> f.tag, payload |-> f.payload]
Got(r) == [tag |-> r.tag, payload |-> r.payload]

(* The frames whose last byte has been pumped.                             *)
Complete == {k \in DOMAIN sent : sent[k].last <= pumped}

(* The codec is exact (spec 8): every frame whose                          *)
(* bytes have all been pumped, across any split into blocks, is delivered  *)
(* once and in order; it is good, with the channel as tag and the payload  *)
(* unchanged, exactly when its decoded region was not changed; and perror  *)
(* counts the frames that are not good.  This is about the 8-bit          *)
(* checksum of OFLOWEncode and _pumpcb and the reassembly in OFLOWPump.    *)
RoundTripExact ==
  /\ Len(rx) = Cardinality(Complete)
  /\ \A i \in DOMAIN rx :
       /\ rx[i].good = ~sent[i].flipped
       /\ rx[i].good => Got(rx[i]) = Meant(sent[i])
  /\ perror = Cardinality({i \in DOMAIN rx : ~rx[i].good})

=============================================================================
