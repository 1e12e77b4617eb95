------------------------- MODULE PassThroughProofs -------------------------
(***************************************************************************)
(* PassThroughExact for every ring size and every bound: until the feeder  *)
(* laps the consumer, the data blocks _processBlocks hands to the sink are *)
(* the blocks read, in the order read, each once, none skipped.            *)
(*                                                                         *)
(* The property is not inductive: it says nothing of the blocks still in   *)
(* the ring.  The strengthening describes the ring as the code keeps it    *)
(* while no lap has happened:                                              *)
(*  - the published slots rp has not passed (fresh) are the ones from rp   *)
(*    up to wp, and all of them when wp has come round to rp again;        *)
(*  - while the consumer is past its while ( wp == rp ) test, slot rp is   *)
(*    one of them, and while the feeder is between its read and its        *)
(*    advance, slot wp is not;                                             *)
(*  - the data blocks in those slots that are still owed to the sink carry *)
(*    the ids after the last one sent, up to the last one read, in ring    *)
(*    order from rp.                                                       *)
(*                                                                         *)
(* The last part proves ConsumerBehindFeeder, laps included, from a        *)
(* weaker invariant that holds whether or not the feeder laps.             *)
(***************************************************************************)
EXTENDS BlockRingProofs

(* Distance of slot s from slot r along the ring, and from rp.            *)
DistFrom(r, s) == (s + NumRawBlocks - r) % NumRawBlocks
Dist(s) == DistFrom(rp, s)

FreshContiguous ==
  IF fresh[wp]
    THEN wp = rp /\ \A s \in Slots : fresh[s]
    ELSE \A s \in Slots : fresh[s] <=> Dist(s) < Dist(wp)

(* The feeder has read a data block into rawBlock[wp] and not yet advanced *)
(* wp past it.                                                             *)
PendingData == ppc = "advance" /\ rawBlock[wp].fill > 0

NumPending == IF PendingData THEN 1 ELSE 0

(* The published data slots whose block has not been handed to the sink.  *)
Owed ==
  {s \in Slots : /\ fresh[s]
                 /\ rawBlock[s].fill > 0
                 /\ ~(s = rp /\ cpc = "advance")}

(* Those blocks carry the ids after the last one sent, up to the last one  *)
(* read (or the one before, while that one is still being published) ...   *)
IdsInterval ==
  {rawBlock[s].id : s \in Owed} = Len(dataSent) + 1 .. produced - NumPending

(* ... in ring order from rp.                                              *)
IdsOrdered ==
  \A s, t \in Owed : Dist(s) < Dist(t) => rawBlock[s].id < rawBlock[t].id

PendingId == PendingData => rawBlock[wp].id = produced

SentBound == Len(dataSent) + NumPending <= produced

(* While the consumer is past while ( wp == rp ), rp is published.         *)
InFlight == cpc \in {"take", "send", "advance"} => fresh[rp]

(* Between its read and its advance the feeder holds an unpublished slot.  *)
WriteNotFresh == ppc = "advance" => ~fresh[wp]

RingInv ==
  /\ FreshContiguous
  /\ InFlight
  /\ WriteNotFresh
  /\ IdsInterval
  /\ IdsOrdered
  /\ PendingId
  /\ SentBound

PassThroughInv ==
  /\ TypeOK
  /\ ~lapped => RingInv /\ PassThroughExact

-----------------------------------------------------------------------------
(* The modulo of the ring's index arithmetic, on the values it meets.      *)
LEMMA ModOnce ==
  ASSUME NEW x \in 0 .. 2 * NumRawBlocks - 1
  PROVE  x % NumRawBlocks = IF x < NumRawBlocks THEN x ELSE x - NumRawBlocks
BY NumRawBlocksAssumption

(* (x + 1) % NUM_RAW_BLOCKS wraps only at the last slot.                   *)
LEMMA NextSlotValue ==
  ASSUME NEW x \in Slots
  PROVE  NextSlot(x) = IF x = NumRawBlocks - 1 THEN 0 ELSE x + 1
BY NumRawBlocksAssumption, ModOnce DEF NextSlot, Slots

(* The distance along the ring without the modulo.                         *)
LEMMA DistValue ==
  ASSUME NEW r \in Slots, NEW s \in Slots
  PROVE  /\ DistFrom(r, s) = IF s >= r THEN s - r ELSE s + NumRawBlocks - r
         /\ DistFrom(r, s) \in Slots
         /\ DistFrom(r, s) = 0 <=> s = r
<1>1. s + NumRawBlocks - r \in 0 .. 2 * NumRawBlocks - 1
  BY NumRawBlocksAssumption DEF Slots
<1>2. DistFrom(r, s) = IF s >= r THEN s - r ELSE s + NumRawBlocks - r
  BY <1>1, ModOnce, NumRawBlocksAssumption DEF DistFrom, Slots
<1>3. QED
  BY <1>2, NumRawBlocksAssumption DEF Slots

(* Advancing wp moves it one further from rp, or onto rp after the last   *)
(* slot before rp.                                                        *)
LEMMA DistNextSlot ==
  ASSUME NEW r \in Slots, NEW w \in Slots
  PROVE  /\ NextSlot(w) = r <=> DistFrom(r, w) = NumRawBlocks - 1
         /\ NextSlot(w) # r => DistFrom(r, NextSlot(w)) = DistFrom(r, w) + 1
<1>1. NextSlot(w) \in Slots
  BY NextSlotType
<1>2. NextSlot(w) = IF w = NumRawBlocks - 1 THEN 0 ELSE w + 1
  BY NextSlotValue
<1>3. DistFrom(r, w) = IF w >= r THEN w - r ELSE w + NumRawBlocks - r
  BY DistValue
<1>4. DistFrom(r, NextSlot(w)) = IF NextSlot(w) >= r THEN NextSlot(w) - r
                                 ELSE NextSlot(w) + NumRawBlocks - r
  BY <1>1, DistValue
<1>5. QED
  BY <1>2, <1>3, <1>4, NumRawBlocksAssumption DEF Slots

(* Advancing rp brings every other slot one closer, and rp itself to the  *)
(* far end.                                                               *)
LEMMA DistFromNext ==
  ASSUME NEW r \in Slots, NEW s \in Slots
  PROVE  DistFrom(NextSlot(r), s) = IF s = r THEN NumRawBlocks - 1
                                            ELSE DistFrom(r, s) - 1
<1>1. NextSlot(r) \in Slots
  BY NextSlotType
<1>2. NextSlot(r) = IF r = NumRawBlocks - 1 THEN 0 ELSE r + 1
  BY NextSlotValue
<1>3. DistFrom(r, s) = IF s >= r THEN s - r ELSE s + NumRawBlocks - r
  BY DistValue
<1>4. DistFrom(NextSlot(r), s) = IF s >= NextSlot(r) THEN s - NextSlot(r)
                                 ELSE s + NumRawBlocks - NextSlot(r)
  BY <1>1, DistValue
<1>5. QED
  BY <1>2, <1>3, <1>4, NumRawBlocksAssumption DEF Slots

(* Two slots at the same distance from r are the same slot.               *)
LEMMA DistInjective ==
  ASSUME NEW r \in Slots, NEW s \in Slots, NEW t \in Slots,
         DistFrom(r, s) = DistFrom(r, t)
  PROVE  s = t
<1>1. DistFrom(r, s) = IF s >= r THEN s - r ELSE s + NumRawBlocks - r
  BY DistValue
<1>2. DistFrom(r, t) = IF t >= r THEN t - r ELSE t + NumRawBlocks - r
  BY DistValue
<1>3. (IF s >= r THEN s - r ELSE s + NumRawBlocks - r)
        = (IF t >= r THEN t - r ELSE t + NumRawBlocks - r)
  BY <1>1, <1>2
<1>4. QED
  BY <1>3, NumRawBlocksAssumption DEF Slots

-----------------------------------------------------------------------------
(* A step that leaves the ring, the indices, the count of blocks read and  *)
(* the blocks sent as they are, and the set of owed slots and the pending  *)
(* block too, keeps the invariant if it keeps its two control conjuncts.   *)
LEMMA QuietStep ==
  ASSUME TypeOK, ~lapped, ~lapped', RingInv, PassThroughExact,
         wp' = wp, rp' = rp, rawBlock' = rawBlock, fresh' = fresh,
         produced' = produced, dataSent' = dataSent,
         Owed' = Owed, PendingData' = PendingData,
         InFlight', WriteNotFresh'
  PROVE  RingInv' /\ PassThroughExact'
<1>1. FreshContiguous'
  BY DEF RingInv, FreshContiguous, Dist
<1>2. NumPending' = NumPending
  BY DEF NumPending
<1>3. IdsInterval' /\ IdsOrdered' /\ PendingId' /\ SentBound'
  BY <1>2 DEF RingInv, IdsInterval, IdsOrdered, PendingId, SentBound, Dist
<1>4. PassThroughExact'
  BY Zenon DEF PassThroughExact
<1>5. QED
  BY <1>1, <1>3, <1>4 DEF RingInv

(* The feeder's connect, fatal exit and unlock, and the consumer's test of *)
(* wp == rp, its lock and its look at fillLevel, leave the ring alone.     *)
LEMMA QuietActions ==
  ASSUME TypeOK, ~lapped, ~lapped', RingInv, PassThroughExact,
         \/ FeederConnect \/ FeederFatal \/ FeederUnlock
         \/ ConsumerWait \/ ConsumerLock \/ ConsumerTake
  PROVE  RingInv' /\ PassThroughExact'
<1>1. CASE FeederConnect \/ FeederFatal \/ FeederUnlock
  <2>1. /\ wp' = wp /\ rp' = rp /\ rawBlock' = rawBlock /\ fresh' = fresh
        /\ produced' = produced /\ dataSent' = dataSent /\ cpc' = cpc
        /\ ppc' # "advance" /\ ppc # "advance"
    BY <1>1 DEF FeederConnect, FeederFatal, FeederUnlock
  <2>2. Owed' = Owed /\ PendingData' = PendingData
    BY <2>1 DEF Owed, PendingData
  <2>3. InFlight' /\ WriteNotFresh'
    BY <2>1 DEF RingInv, InFlight, WriteNotFresh
  <2>4. QED
    BY <2>1, <2>2, <2>3, QuietStep
<1>2. CASE ConsumerWait \/ ConsumerLock \/ ConsumerTake
  <2>1. /\ wp' = wp /\ rp' = rp /\ rawBlock' = rawBlock /\ fresh' = fresh
        /\ produced' = produced /\ dataSent' = dataSent /\ ppc' = ppc
    BY <1>2 DEF ConsumerWait, ConsumerLock, ConsumerTake
  <2>2. PendingData' = PendingData /\ WriteNotFresh'
    BY <2>1 DEF PendingData, RingInv, WriteNotFresh
  <2>3. Owed' = Owed
    <3>1. cpc' = "advance" => cpc = "advance" \/ rawBlock[rp].fill = 0
      BY <1>2 DEF ConsumerWait, ConsumerLock, ConsumerTake
    <3>2. cpc = "advance" => cpc' = "advance"
      BY <1>2 DEF ConsumerWait, ConsumerLock, ConsumerTake
    <3>3. QED
      BY <2>1, <3>1, <3>2 DEF Owed
  <2>4. InFlight'
    <3>1. CASE ConsumerWait
      <4>1. CASE wp = rp
        BY <3>1, <4>1, <2>1 DEF ConsumerWait, InFlight
      <4>2. CASE wp # rp
        <5>1. wp \in Slots /\ rp \in Slots
          BY DEF TypeOK
        <5>2. Dist(rp) < Dist(wp)
          <6>1. Dist(rp) = 0 /\ Dist(wp) # 0 /\ Dist(wp) \in Slots
            BY <4>2, <5>1, DistValue DEF Dist
          <6>2. QED
            BY <6>1 DEF Slots
        <5>3. fresh[rp]
          <6>1. CASE fresh[wp]
            BY <5>1, <6>1 DEF RingInv, FreshContiguous
          <6>2. CASE ~fresh[wp]
            <7>1. fresh[rp] <=> Dist(rp) < Dist(wp)
              BY <5>1, <6>2 DEF RingInv, FreshContiguous
            <7>2. QED
              BY <5>2, <7>1
          <6>3. QED
            BY <6>1, <6>2
        <5>4. QED
          BY <2>1, <5>3 DEF InFlight
      <4>3. QED
        BY <4>1, <4>2
    <3>2. CASE ConsumerLock \/ ConsumerTake
      BY <3>2, <2>1 DEF ConsumerLock, ConsumerTake, RingInv, InFlight
    <3>3. QED
      BY <1>2, <3>1, <3>2
  <2>5. QED
    BY <2>1, <2>2, <2>3, <2>4, QuietStep
<1>3. QED
  BY <1>1, <1>2

(* Writing the slot at wp while it is not published changes no owed block  *)
(* and no published slot.                                                  *)
LEMMA WriteFrame ==
  ASSUME TypeOK, RingInv, NEW b, ~fresh[wp],
         rawBlock' = [rawBlock EXCEPT ![wp] = b],
         wp' = wp, rp' = rp, fresh' = fresh, cpc' = cpc
  PROVE  /\ Owed' = Owed
         /\ \A s \in Owed : rawBlock'[s] = rawBlock[s]
         /\ FreshContiguous' /\ InFlight'
<1>1. \A s \in Slots : s # wp => rawBlock'[s] = rawBlock[s]
  BY DEF TypeOK
<1>2. Owed' = Owed
  BY <1>1 DEF Owed
<1>3. \A s \in Owed : rawBlock'[s] = rawBlock[s]
  BY <1>1 DEF Owed
<1>4. FreshContiguous' /\ InFlight'
  BY DEF RingInv, FreshContiguous, InFlight, Dist
<1>5. QED
  BY <1>2, <1>3, <1>4

(* A USB timeout, a failed read, end of file and a file error write a      *)
(* block of no data into the unpublished slot and publish nothing.         *)
LEMMA WriteNoData ==
  ASSUME TypeOK, ~lapped, ~lapped', RingInv, PassThroughExact,
         UsbTimeout \/ ReadFail \/ FileEof \/ FileError
  PROVE  RingInv' /\ PassThroughExact'
<1>1. WriteSlot([rawBlock[wp] EXCEPT !.fill = 0])
      \/ WriteSlot([rawBlock[wp] EXCEPT !.fill = -1])
  BY DEF UsbTimeout, ReadFail, FileEof, FileError
<1>2. PICK b : /\ rawBlock' = [rawBlock EXCEPT ![wp] = b]
               /\ lapped' = (lapped \/ fresh[wp])
               /\ b.fill \in {0, -1}
  <2>1. rawBlock[wp] \in Block
    BY DEF TypeOK
  <2>2. /\ [rawBlock[wp] EXCEPT !.fill = 0].fill = 0
        /\ [rawBlock[wp] EXCEPT !.fill = -1].fill = -1
    BY <2>1 DEF Block
  <2>3. QED
    BY <1>1, <2>2 DEF WriteSlot
<1>3. ~fresh[wp]
  BY <1>2, Zenon
<1>4. /\ wp' = wp /\ rp' = rp /\ fresh' = fresh /\ cpc' = cpc
      /\ produced' = produced /\ dataSent' = dataSent
      /\ ppc = "read"
  BY DEF UsbTimeout, ReadFail, FileEof, FileError
<1>5. /\ Owed' = Owed
      /\ \A s \in Owed : rawBlock'[s] = rawBlock[s]
      /\ FreshContiguous' /\ InFlight'
  BY <1>2, <1>3, <1>4, WriteFrame
<1>6. ~PendingData /\ ~PendingData'
  BY <1>2, <1>4 DEF PendingData, TypeOK
<1>7. NumPending' = NumPending
  BY <1>6 DEF NumPending
<1>8. IdsInterval' /\ IdsOrdered' /\ SentBound'
  BY <1>4, <1>5, <1>7 DEF RingInv, IdsInterval, IdsOrdered, SentBound, Dist
<1>9. PendingId' /\ WriteNotFresh'
  BY <1>3, <1>4, <1>6 DEF PendingId, WriteNotFresh
<1>10. PassThroughExact'
  BY <1>4, Zenon DEF PassThroughExact
<1>11. QED
  BY <1>5, <1>8, <1>9, <1>10 DEF RingInv

(* A read of data writes block produced + 1 into the unpublished slot: it  *)
(* is the pending block, and the owed blocks are as they were.             *)
LEMMA ReadDataStep ==
  ASSUME TypeOK, ~lapped, ~lapped', RingInv, PassThroughExact, ReadData
  PROVE  RingInv' /\ PassThroughExact'
<1> DEFINE b == [id |-> produced + 1, fill |-> 1]
<1>1. /\ rawBlock' = [rawBlock EXCEPT ![wp] = b]
      /\ lapped' = (lapped \/ fresh[wp])
  BY DEF ReadData, WriteSlot
<1>2. ~fresh[wp]
  BY <1>1, Zenon
<1>3. /\ wp' = wp /\ rp' = rp /\ fresh' = fresh /\ cpc' = cpc
      /\ produced' = produced + 1 /\ dataSent' = dataSent
      /\ ppc = "read" /\ ppc' = "advance"
  BY DEF ReadData
<1>4. /\ Owed' = Owed
      /\ \A s \in Owed : rawBlock'[s] = rawBlock[s]
      /\ FreshContiguous' /\ InFlight'
  BY <1>1, <1>2, <1>3, WriteFrame
<1>5. rawBlock'[wp] = b
  BY <1>1 DEF TypeOK
<1>6. ~PendingData /\ PendingData'
  BY <1>3, <1>5 DEF PendingData
<1>7. NumPending = 0 /\ NumPending' = 1
  BY <1>6 DEF NumPending
<1>8. produced \in Nat /\ Len(dataSent) \in Nat
  BY DEF TypeOK
<1>9. IdsInterval'
  BY <1>3, <1>4, <1>7, <1>8 DEF RingInv, IdsInterval
<1>10. IdsOrdered'
  BY <1>3, <1>4 DEF RingInv, IdsOrdered, Dist
<1>11. PendingId' /\ SentBound'
  BY <1>3, <1>5, <1>7, <1>8 DEF RingInv, PendingId, SentBound
<1>12. WriteNotFresh'
  BY <1>2, <1>3 DEF WriteNotFresh
<1>13. PassThroughExact'
  BY <1>3, Zenon DEF PassThroughExact
<1>14. QED
  BY <1>4, <1>9, <1>10, <1>11, <1>12, <1>13 DEF RingInv

(* Publishing wp extends the fresh slots by the one furthest from rp, and  *)
(* a data block read there joins the owed ones with the largest id.        *)
LEMMA FeederAdvanceStep ==
  ASSUME TypeOK, ~lapped, ~lapped', RingInv, PassThroughExact, FeederAdvance
  PROVE  RingInv' /\ PassThroughExact'
<1>1. /\ ppc = "advance" /\ ppc' # "advance"
      /\ wp' = NextSlot(wp) /\ fresh' = [fresh EXCEPT ![wp] = TRUE]
      /\ rp' = rp /\ rawBlock' = rawBlock /\ cpc' = cpc
      /\ produced' = produced /\ dataSent' = dataSent
  BY DEF FeederAdvance
<1>2. ~fresh[wp]
  BY <1>1 DEF RingInv, WriteNotFresh
<1>3. /\ wp \in Slots /\ rp \in Slots /\ NextSlot(wp) \in Slots
      /\ fresh \in [Slots -> BOOLEAN]
  BY NextSlotType DEF TypeOK
<1>4. \A s \in Slots : fresh[s] <=> Dist(s) < Dist(wp)
  BY <1>2 DEF RingInv, FreshContiguous
<1>5. \A s \in Slots : fresh'[s] = (s = wp \/ fresh[s])
  BY <1>1, <1>3
<1>6. \A s \in Slots : Dist(s) \in Slots /\ (s # wp => Dist(s) # Dist(wp))
  BY <1>3, DistValue, DistInjective DEF Dist
<1>7. FreshContiguous'
  <2>1. CASE NextSlot(wp) = rp
    <3>1. Dist(wp) = NumRawBlocks - 1
      BY <1>3, <2>1, DistNextSlot DEF Dist
    <3>2. \A s \in Slots : fresh'[s]
      <4> SUFFICES ASSUME NEW s \in Slots PROVE fresh'[s]
        OBVIOUS
      <4>1. CASE s = wp
        BY <1>5, <4>1
      <4>2. CASE s # wp
        <5>0. Dist(s) \in Slots /\ Dist(s) # Dist(wp)
          BY <1>6, <4>2
        <5>1. Dist(s) < Dist(wp)
          BY <3>1, <5>0, NumRawBlocksAssumption DEF Slots
        <5>2. fresh[s]
          BY <1>4, <5>1
        <5>3. QED
          BY <1>5, <5>2
      <4>3. QED
        BY <4>1, <4>2
    <3>3. QED
      BY <1>1, <1>3, <2>1, <3>2 DEF FreshContiguous
  <2>2. CASE NextSlot(wp) # rp
    <3>1. Dist(NextSlot(wp)) = Dist(wp) + 1
      BY <1>3, <2>2, DistNextSlot DEF Dist
    <3>2. \A s \in Slots : fresh'[s] <=> Dist(s) < Dist(NextSlot(wp))
      <4> SUFFICES ASSUME NEW s \in Slots
                   PROVE  fresh'[s] <=> Dist(s) < Dist(NextSlot(wp))
        OBVIOUS
      <4>1. CASE s = wp
        <5>1. Dist(s) < Dist(NextSlot(wp))
          BY <1>6, <3>1, <4>1 DEF Slots
        <5>2. fresh'[s]
          BY <1>5, <4>1
        <5>3. QED
          BY <5>1, <5>2
      <4>2. CASE s # wp
        <5>0. Dist(s) \in Slots /\ Dist(s) # Dist(wp) /\ Dist(wp) \in Slots
          BY <1>3, <1>6, <4>2
        <5>1. Dist(s) < Dist(wp) <=> Dist(s) < Dist(NextSlot(wp))
          BY <3>1, <5>0, NumRawBlocksAssumption DEF Slots
        <5>2. fresh'[s] <=> fresh[s]
          BY <1>5, <4>2, Zenon
        <5>3. QED
          BY <1>4, <5>1, <5>2
      <4>3. QED
        BY <4>1, <4>2
    <3>3. ~fresh'[NextSlot(wp)]
      <4>1. Dist(NextSlot(wp)) \in Nat
        BY <1>3, <1>6 DEF Slots
      <4>2. ~(Dist(NextSlot(wp)) < Dist(NextSlot(wp)))
        BY <4>1
      <4>3. QED
        BY <1>3, <3>2, <4>2
    <3>4. QED
      BY <1>1, <3>2, <3>3 DEF FreshContiguous, Dist
  <2>3. QED
    BY <2>1, <2>2
<1>8. InFlight' /\ WriteNotFresh'
  BY <1>1, <1>3, <1>5 DEF RingInv, InFlight, WriteNotFresh
<1>9. cpc = "advance" => wp # rp
  BY <1>2 DEF RingInv, InFlight
<1>10. ~PendingData' /\ NumPending' = 0
  BY <1>1 DEF PendingData, NumPending
<1>11. PassThroughExact'
  BY <1>1, Zenon DEF PassThroughExact
<1>12. CASE ~PendingData
  <2>1. Owed' = Owed
    BY <1>1, <1>2, <1>5, <1>12 DEF Owed, PendingData
  <2>2. NumPending = 0
    BY <1>12 DEF NumPending
  <2>3. IdsInterval' /\ IdsOrdered' /\ SentBound'
    BY <1>1, <1>10, <2>1, <2>2 DEF RingInv, IdsInterval, IdsOrdered, SentBound,
                                   Dist
  <2>4. QED
    BY <1>7, <1>8, <1>10, <1>11, <2>3 DEF RingInv, PendingId
<1>13. CASE PendingData
  <2>1. Owed' = Owed \cup {wp}
    <3>1. rawBlock[wp].fill > 0 /\ ~(wp = rp /\ cpc = "advance")
      BY <1>9, <1>13 DEF PendingData
    <3>2. ASSUME NEW s \in Slots
          PROVE  s \in Owed' <=> s \in Owed \/ s = wp
      <4>1. CASE s = wp
        BY <1>1, <1>5, <3>1, <4>1 DEF Owed
      <4>2. CASE s # wp
        <5>1. fresh'[s] <=> fresh[s]
          BY <1>5, <4>2, Zenon
        <5>2. QED
          BY <1>1, <4>2, <5>1, Zenon DEF Owed
      <4>3. QED
        BY <4>1, <4>2
    <3>3. Owed' \subseteq Slots /\ Owed \subseteq Slots
      BY DEF Owed
    <3>4. QED
      BY <1>3, <3>2, <3>3
  <2>2. /\ NumPending = 1 /\ rawBlock[wp].id = produced
        /\ Len(dataSent) + 1 <= produced
        /\ {rawBlock[s].id : s \in Owed} = Len(dataSent) + 1 .. produced - 1
    BY <1>13 DEF NumPending, RingInv, PendingId, SentBound, IdsInterval
  <2>3. produced \in Nat /\ Len(dataSent) \in Nat
    BY DEF TypeOK
  <2>4. IdsInterval'
    <3>1. {rawBlock[s].id : s \in Owed \cup {wp}}
          = {rawBlock[s].id : s \in Owed} \cup {rawBlock[wp].id}
      OBVIOUS
    <3>2. QED
      BY <1>1, <1>10, <2>1, <2>2, <2>3, <3>1 DEF IdsInterval
  <2>5. IdsOrdered'
    <3>0. Owed \subseteq Slots
      BY DEF Owed
    <3>1. \A s \in Owed : rawBlock[s].id < produced /\ Dist(s) < Dist(wp)
      <4> SUFFICES ASSUME NEW s \in Owed
                   PROVE  rawBlock[s].id < produced /\ Dist(s) < Dist(wp)
        OBVIOUS
      <4>1. rawBlock[s].id \in Len(dataSent) + 1 .. produced - 1
        BY <2>2
      <4>2. fresh[s]
        BY DEF Owed
      <4>3. QED
        BY <1>4, <2>3, <3>0, <4>1, <4>2
    <3>2. \A s, t \in Owed \cup {wp} :
            Dist(s) < Dist(t) => rawBlock[s].id < rawBlock[t].id
      <4> SUFFICES ASSUME NEW s \in Owed \cup {wp}, NEW t \in Owed \cup {wp},
                          Dist(s) < Dist(t)
                   PROVE  rawBlock[s].id < rawBlock[t].id
        OBVIOUS
      <4>1. Dist(s) \in Nat /\ Dist(t) \in Nat /\ Dist(wp) \in Nat
        <5>1. Dist(s) \in Slots /\ Dist(t) \in Slots /\ Dist(wp) \in Slots
          BY <1>3, <1>6, <3>0
        <5>2. QED
          BY <5>1, NumRawBlocksAssumption DEF Slots
      <4>2. CASE s \in Owed /\ t \in Owed
        BY <4>2 DEF RingInv, IdsOrdered
      <4>3. CASE s \in Owed /\ t = wp
        BY <2>2, <3>1, <4>3
      <4>4. CASE s = wp
        BY <3>1, <4>1, <4>4
      <4>5. QED
        BY <4>2, <4>3, <4>4
    <3>3. QED
      BY <1>1, <2>1, <3>2 DEF IdsOrdered, Dist
  <2>6. SentBound'
    BY <1>1, <1>10, <2>2, <2>3 DEF SentBound
  <2>7. QED
    BY <1>7, <1>8, <1>10, <1>11, <2>4, <2>5, <2>6 DEF RingInv, PendingId
<1>14. QED
  BY <1>12, <1>13

(* The consumer hands rawBlock[rp] to the sink.  A data block there is the *)
(* owed block nearest rp, so it carries the least owed id, the one after   *)
(* the last id sent.                                                       *)
LEMMA ConsumerSendStep ==
  ASSUME TypeOK, ~lapped, ~lapped', RingInv, PassThroughExact, ConsumerSend
  PROVE  RingInv' /\ PassThroughExact'
<1>1. /\ cpc = "send" /\ cpc' = "advance"
      /\ wp' = wp /\ rp' = rp /\ rawBlock' = rawBlock /\ fresh' = fresh
      /\ produced' = produced /\ ppc' = ppc
      /\ dataSent' = IF rawBlock[rp].fill > 0
                       THEN Append(dataSent, rawBlock[rp]) ELSE dataSent
  BY DEF ConsumerSend
<1>2. fresh[rp]
  BY <1>1 DEF RingInv, InFlight
<1>3. FreshContiguous' /\ InFlight' /\ WriteNotFresh'
  BY <1>1, <1>2 DEF RingInv, FreshContiguous, InFlight, WriteNotFresh, Dist
<1>4. PendingData' = PendingData /\ NumPending' = NumPending
  BY <1>1 DEF PendingData, NumPending
<1>5. Owed' = Owed \ {rp}
  BY <1>1 DEF Owed
<1>6. /\ rp \in Slots /\ produced \in Nat /\ dataSent \in Seq(Block)
      /\ rawBlock \in [Slots -> Block]
  BY DEF TypeOK
<1>7. PendingId' /\ NumPending \in {0, 1} /\ Len(dataSent) \in Nat
  BY <1>1, <1>4, <1>6 DEF RingInv, PendingId, NumPending
<1>8. CASE ~(rawBlock[rp].fill > 0)
  <2>1. Owed' = Owed /\ dataSent' = dataSent
    BY <1>1, <1>5, <1>8 DEF Owed
  <2>2. IdsInterval' /\ IdsOrdered' /\ SentBound' /\ PassThroughExact'
    BY <1>1, <1>4, <2>1 DEF RingInv, IdsInterval, IdsOrdered, SentBound,
                            PassThroughExact, Dist
  <2>3. QED
    BY <1>3, <1>7, <2>2 DEF RingInv
<1>9. CASE rawBlock[rp].fill > 0
  <2> DEFINE L == Len(dataSent)
             P == produced - NumPending
             id(s) == rawBlock[s].id
  <2>1. rp \in Owed
    BY <1>1, <1>2, <1>6, <1>9 DEF Owed
  <2>2. {id(s) : s \in Owed} = L + 1 .. P
    BY DEF RingInv, IdsInterval
  <2>3. \A t \in Owed : t # rp => id(rp) < id(t)
    <3> SUFFICES ASSUME NEW t \in Owed, t # rp PROVE id(rp) < id(t)
      OBVIOUS
    <3>1. t \in Slots
      BY DEF Owed
    <3>2. Dist(rp) = 0 /\ Dist(t) # 0 /\ Dist(t) \in Slots
      BY <1>6, <3>1, DistValue DEF Dist
    <3>3. Dist(rp) < Dist(t)
      BY <3>2, NumRawBlocksAssumption DEF Slots
    <3>4. QED
      BY <2>1, <3>3 DEF RingInv, IdsOrdered
  <2>4. id(rp) \in L + 1 .. P
    BY <2>1, <2>2
  <2>5. id(rp) = L + 1
    <3>0. L + 1 \in L + 1 .. P
      BY <1>6, <1>7, <2>4
    <3>1. L + 1 \in {id(s) : s \in Owed}
      BY <2>2, <3>0
    <3>2. PICK t \in Owed : id(t) = L + 1
      BY <3>1
    <3>3. t = rp
      BY <2>3, <2>4, <3>2
    <3>4. QED
      BY <3>2, <3>3
  <2>6. {id(s) : s \in Owed \ {rp}} = L + 2 .. P
    <3>1. \A s \in Owed \ {rp} : id(s) \in L + 2 .. P
      BY <2>2, <2>3, <2>5
    <3>2. \A x \in L + 2 .. P : \E s \in Owed \ {rp} : id(s) = x
      <4> SUFFICES ASSUME NEW x \in L + 2 .. P
                   PROVE  \E s \in Owed \ {rp} : id(s) = x
        OBVIOUS
      <4>1. PICK s \in Owed : id(s) = x
        BY <2>2
      <4>2. s # rp
        BY <2>5, <4>1
      <4>3. QED
        BY <4>1, <4>2
    <3>3. QED
      BY <3>1, <3>2
  <2>7. dataSent' = Append(dataSent, rawBlock[rp]) /\ Len(dataSent') = L + 1
    BY <1>1, <1>6, <1>9
  <2>8. IdsInterval'
    BY <1>1, <1>4, <1>5, <2>6, <2>7 DEF IdsInterval
  <2>9. IdsOrdered'
    BY <1>1, <1>5 DEF RingInv, IdsOrdered, Dist
  <2>10. SentBound'
    BY <1>1, <1>4, <1>6, <1>7, <2>4, <2>7 DEF SentBound
  <2>11. PassThroughExact'
    <3>1. \A i \in 1 .. L + 1 : dataSent'[i].id = i
      BY <1>6, <2>5, <2>7 DEF RingInv, PassThroughExact
    <3>2. QED
      BY <2>7, <3>1 DEF PassThroughExact
  <2>12. QED
    BY <1>3, <1>7, <2>8, <2>9, <2>10, <2>11 DEF RingInv
<1>10. QED
  BY <1>8, <1>9

(* Advancing rp unpublishes the slot just sent; every other slot comes one *)
(* closer to rp, so the fresh ones still run up to wp, in the same order.  *)
LEMMA ConsumerAdvanceStep ==
  ASSUME TypeOK, ~lapped, ~lapped', RingInv, PassThroughExact,
         ConsumerAdvance
  PROVE  RingInv' /\ PassThroughExact'
<1>1. /\ cpc = "advance" /\ cpc' = "wait"
      /\ rp' = NextSlot(rp) /\ fresh' = [fresh EXCEPT ![rp] = FALSE]
      /\ wp' = wp /\ rawBlock' = rawBlock /\ ppc' = ppc
      /\ produced' = produced /\ dataSent' = dataSent
  BY DEF ConsumerAdvance
<1>2. fresh[rp]
  BY <1>1 DEF RingInv, InFlight
<1>3. /\ wp \in Slots /\ rp \in Slots /\ NextSlot(rp) \in Slots
      /\ fresh \in [Slots -> BOOLEAN]
  BY NextSlotType DEF TypeOK
<1>4. \A s \in Slots : fresh'[s] <=> s # rp /\ fresh[s]
  BY <1>1, <1>3, Zenon
<1>5. \A s \in Slots :
        /\ Dist(s) \in Slots
        /\ Dist(s) = 0 <=> s = rp
        /\ Dist(s)' = IF s = rp THEN NumRawBlocks - 1 ELSE Dist(s) - 1
  BY <1>1, <1>3, DistValue, DistFromNext DEF Dist
<1>6. FreshContiguous'
  <2> DEFINE NewOrder == \A s \in Slots : fresh'[s] <=> Dist(s)' < Dist(wp)'
  <2>1. ~fresh'[wp] /\ NewOrder => FreshContiguous'
    BY <1>1 DEF FreshContiguous
  <2>2. CASE fresh[wp]
    <3>1. wp = rp /\ \A s \in Slots : fresh[s]
      BY <2>2 DEF RingInv, FreshContiguous
    <3>2. ~fresh'[wp]
      BY <1>3, <1>4, <3>1
    <3>3. NewOrder
      <4> SUFFICES ASSUME NEW s \in Slots
                   PROVE  fresh'[s] <=> Dist(s)' < Dist(wp)'
        OBVIOUS
      <4>1. Dist(wp)' = NumRawBlocks - 1
        BY <1>1, <1>3, <1>5, <3>1
      <4>2. CASE s = rp
        <5>1. ~(Dist(s)' < Dist(wp)')
          BY <1>1, <1>5, <4>1, <4>2, NumRawBlocksAssumption
        <5>2. QED
          BY <1>4, <4>2, <5>1
      <4>3. CASE s # rp
        <5>1. Dist(s)' < Dist(wp)'
          BY <1>1, <1>5, <4>1, <4>3, NumRawBlocksAssumption DEF Slots
        <5>2. fresh'[s]
          BY <1>4, <3>1, <4>3
        <5>3. QED
          BY <5>1, <5>2
      <4>4. QED
        BY <4>2, <4>3
    <3>4. QED
      BY <2>1, <3>2, <3>3
  <2>3. CASE ~fresh[wp]
    <3>1. \A s \in Slots : fresh[s] <=> Dist(s) < Dist(wp)
      BY <2>3 DEF RingInv, FreshContiguous
    <3>2. wp # rp
      BY <1>2, <2>3
    <3>3. ~fresh'[wp]
      BY <1>3, <1>4, <2>3
    <3>4. NewOrder
      <4> SUFFICES ASSUME NEW s \in Slots
                   PROVE  fresh'[s] <=> Dist(s)' < Dist(wp)'
        OBVIOUS
      <4>1. Dist(wp)' = Dist(wp) - 1 /\ Dist(wp) \in 1 .. NumRawBlocks - 1
        BY <1>1, <1>3, <1>5, <3>2 DEF Slots
      <4>2. CASE s = rp
        <5>1. ~(Dist(s)' < Dist(wp)')
          BY <1>1, <1>5, <4>1, <4>2, NumRawBlocksAssumption
        <5>2. QED
          BY <1>4, <4>2, <5>1
      <4>3. CASE s # rp
        <5>1. Dist(s)' < Dist(wp)' <=> Dist(s) < Dist(wp)
          BY <1>1, <1>5, <4>1, <4>3, NumRawBlocksAssumption DEF Slots
        <5>2. fresh'[s] <=> fresh[s]
          BY <1>4, <4>3
        <5>3. QED
          BY <3>1, <5>1, <5>2
      <4>4. QED
        BY <4>2, <4>3
    <3>5. QED
      BY <2>1, <3>3, <3>4
  <2>4. QED
    BY <2>2, <2>3
<1>7. InFlight' /\ WriteNotFresh'
  BY <1>1, <1>3, <1>4 DEF RingInv, InFlight, WriteNotFresh
<1>8. Owed' = Owed
  <2>1. ASSUME NEW s \in Slots PROVE s \in Owed' <=> s \in Owed
    BY <1>1, <1>4, Zenon DEF Owed
  <2>2. QED
    BY <2>1 DEF Owed
<1>9. PendingData' = PendingData /\ NumPending' = NumPending
  BY <1>1 DEF PendingData, NumPending
<1>10. IdsInterval' /\ PendingId' /\ SentBound'
  BY <1>1, <1>8, <1>9 DEF RingInv, IdsInterval, PendingId, SentBound
<1>11. IdsOrdered'
  <2> SUFFICES ASSUME NEW s \in Owed, NEW t \in Owed, Dist(s)' < Dist(t)'
               PROVE  rawBlock[s].id < rawBlock[t].id
    BY <1>1, <1>8 DEF IdsOrdered
  <2>1. s \in Slots /\ t \in Slots /\ s # rp /\ t # rp
    BY <1>1 DEF Owed
  <2>2. Dist(s) < Dist(t)
    BY <1>5, <2>1, NumRawBlocksAssumption DEF Slots
  <2>3. QED
    BY <2>2 DEF RingInv, IdsOrdered
<1>12. PassThroughExact'
  BY <1>1, Zenon DEF PassThroughExact
<1>13. QED
  BY <1>6, <1>7, <1>10, <1>11, <1>12 DEF RingInv

-----------------------------------------------------------------------------
(* Once the feeder has rewritten a published slot, no step undoes it.      *)
LEMMA LappedStays ==
  ASSUME [Next]_vars, lapped
  PROVE  lapped'
BY Zenon DEF Next, Feeder, Consumer, vars, WriteSlot,
             FeederConnect, FeederFatal, ReadData, UsbTimeout, ReadFail,
             FileEof, FileError, FeederAdvance, FeederUnlock,
             ConsumerWait, ConsumerLock, ConsumerTake, ConsumerSend,
             ConsumerAdvance

(* The state _r starts in satisfies the ring invariant.                   *)
LEMMA PassThroughInit == Init => PassThroughInv
<1> SUFFICES ASSUME Init PROVE PassThroughInv
  OBVIOUS
<1>1. TypeOK
  BY TypeInit
<1>2. /\ ~lapped /\ wp = 0 /\ rp = 0 /\ cpc = "wait" /\ ppc = "connect"
      /\ fresh = [s \in Slots |-> FALSE] /\ dataSent = << >> /\ produced = 0
  BY DEF Init
<1>3. FreshContiguous
  <2>1. 0 \in Slots /\ Dist(0) = 0
    BY <1>2, DistValue, NumRawBlocksAssumption DEF Slots, Dist
  <2>2. \A s \in Slots : Dist(s) \in Nat
    <3> SUFFICES ASSUME NEW s \in Slots PROVE Dist(s) \in Nat
      OBVIOUS
    <3>1. Dist(s) \in Slots
      BY <1>2, <2>1, DistValue DEF Dist
    <3>2. QED
      BY <3>1, NumRawBlocksAssumption DEF Slots
  <2>3. QED
    BY <1>2, <2>1, <2>2 DEF FreshContiguous
<1>4. Owed = {} /\ ~PendingData
  BY <1>2 DEF Owed, PendingData
<1>5. RingInv
  BY <1>2, <1>3, <1>4 DEF RingInv, InFlight, WriteNotFresh, IdsInterval,
                          IdsOrdered, PendingId, SentBound, NumPending
<1>6. PassThroughExact
  BY <1>2 DEF PassThroughExact
<1>7. QED
  BY <1>1, <1>5, <1>6 DEF PassThroughInv

(* Every step of the feeder and of _processBlocks preserves it.            *)
LEMMA PassThroughStep == PassThroughInv /\ [Next]_vars => PassThroughInv'
<1> SUFFICES ASSUME PassThroughInv, [Next]_vars PROVE PassThroughInv'
  OBVIOUS
<1>1. TypeOK'
  BY TypeStep DEF PassThroughInv
<1>2. ASSUME ~lapped' PROVE RingInv' /\ PassThroughExact'
  <2>1. ~lapped /\ TypeOK /\ RingInv /\ PassThroughExact
    BY <1>2, LappedStays DEF PassThroughInv
  <2>2. CASE UNCHANGED vars
    <3>1. /\ wp' = wp /\ rp' = rp /\ rawBlock' = rawBlock /\ fresh' = fresh
          /\ produced' = produced /\ dataSent' = dataSent
          /\ cpc' = cpc /\ ppc' = ppc
      BY <2>2 DEF vars
    <3>2. /\ Owed' = Owed /\ PendingData' = PendingData
          /\ InFlight' /\ WriteNotFresh'
      BY <2>1, <3>1 DEF Owed, PendingData, RingInv, InFlight, WriteNotFresh
    <3>3. QED
      BY <1>2, <2>1, <3>1, <3>2, QuietStep
  <2>3. CASE Next
    BY <1>2, <2>1, <2>3, QuietActions, WriteNoData, ReadDataStep,
       FeederAdvanceStep, ConsumerSendStep, ConsumerAdvanceStep
    DEF Next, Feeder, Consumer
  <2>4. QED
    BY <2>2, <2>3
<1>3. QED
  BY <1>1, <1>2 DEF PassThroughInv

(* Until the feeder overwrites a block _processBlocks has not passed, the  *)
(* data blocks handed to nwclientSend carry ids 1, 2, 3, ... in order: for *)
(* every ring size NUM_RAW_BLOCKS, every number of blocks read and every   *)
(* feeder, the ring loses, repeats and reorders no block.                  *)
THEOREM PassThroughCorrect == Spec => []PassThroughExact
<1>1. Init => PassThroughInv
  BY PassThroughInit
<1>2. PassThroughInv /\ [Next]_vars => PassThroughInv'
  BY PassThroughStep
<1>3. PassThroughInv => PassThroughExact
  BY DEF PassThroughInv, PassThroughExact
<1>4. QED
  BY <1>1, <1>2, <1>3, PTL DEF Spec

(* Only a lap can make the sink see a block twice: the duplicate the      *)
(* ring_lap_duplicate run finds needs the feeder to overwrite a slot       *)
(* _processBlocks has not passed.                                          *)
THEOREM NoDuplicateUntilLap == Spec => [](~lapped => NoDuplicateDelivery)
<1>1. PassThroughExact => (~lapped => NoDuplicateDelivery)
  BY DEF PassThroughExact, NoDuplicateDelivery
<1>2. QED
  BY <1>1, PassThroughCorrect, PTL

-----------------------------------------------------------------------------
(* ConsumerBehindFeeder, laps included.  The slots from rp up to wp are    *)
(* published; so is rp while the consumer is past its test of wp == rp;    *)
(* and if wp has come round to rp since that test, every slot is.          *)
PublishedUpToWp == \A s \in Slots : Dist(s) < Dist(wp) => fresh[s]

FullWhenCaughtUp ==
  cpc \in {"take", "send", "advance"} /\ wp = rp => \A s \in Slots : fresh[s]

BehindInv == TypeOK /\ PublishedUpToWp /\ InFlight /\ FullWhenCaughtUp

(* Publishing wp keeps the slots up to the new wp published, and fills the *)
(* ring when wp comes round to rp.                                         *)
LEMMA BehindFeederAdvance ==
  ASSUME BehindInv, FeederAdvance
  PROVE  PublishedUpToWp' /\ InFlight' /\ FullWhenCaughtUp'
<1>1. /\ wp' = NextSlot(wp) /\ fresh' = [fresh EXCEPT ![wp] = TRUE]
      /\ rp' = rp /\ cpc' = cpc
  BY DEF FeederAdvance
<1>2. /\ wp \in Slots /\ rp \in Slots /\ NextSlot(wp) \in Slots
      /\ fresh \in [Slots -> BOOLEAN]
  BY NextSlotType DEF BehindInv, TypeOK
<1>3. \A s \in Slots : fresh'[s] <=> s = wp \/ fresh[s]
  BY <1>1, <1>2, Zenon
<1>4. \A s \in Slots : Dist(s) \in Slots /\ (s # wp => Dist(s) # Dist(wp))
  BY <1>2, DistValue, DistInjective DEF Dist
<1>5. InFlight'
  BY <1>1, <1>2, <1>3 DEF BehindInv, InFlight
<1>6. CASE NextSlot(wp) = rp
  <2>1. Dist(wp) = NumRawBlocks - 1
    BY <1>2, <1>6, DistNextSlot DEF Dist
  <2>2. \A s \in Slots : fresh'[s]
    <3> SUFFICES ASSUME NEW s \in Slots PROVE fresh'[s]
      OBVIOUS
    <3>1. CASE s = wp
      BY <1>3, <3>1
    <3>2. CASE s # wp
      <4>1. Dist(s) < Dist(wp)
        BY <1>4, <2>1, <3>2, NumRawBlocksAssumption DEF Slots
      <4>2. QED
        BY <1>3, <4>1 DEF BehindInv, PublishedUpToWp
    <3>3. QED
      BY <3>1, <3>2
  <2>3. Dist(wp)' = 0
    BY <1>1, <1>2, <1>6, DistValue DEF Dist
  <2>4. PublishedUpToWp'
    <3> SUFFICES ASSUME NEW s \in Slots, Dist(s)' < Dist(wp)' PROVE fresh'[s]
      BY DEF PublishedUpToWp
    <3>1. QED
      BY <2>2
  <2>5. QED
    BY <1>5, <2>2, <2>4 DEF FullWhenCaughtUp
<1>7. CASE NextSlot(wp) # rp
  <2>1. Dist(wp)' = Dist(wp) + 1
    BY <1>1, <1>2, <1>7, DistNextSlot DEF Dist
  <2>2. PublishedUpToWp'
    <3> SUFFICES ASSUME NEW s \in Slots, Dist(s)' < Dist(wp)' PROVE fresh'[s]
      BY DEF PublishedUpToWp
    <3>1. CASE s = wp
      BY <1>3, <3>1
    <3>2. CASE s # wp
      <4>0. /\ Dist(s) \in Slots /\ Dist(s) # Dist(wp) /\ Dist(wp) \in Slots
            /\ Dist(s)' = Dist(s)
        BY <1>1, <1>2, <1>4, <3>2 DEF Dist
      <4>1. Dist(s) < Dist(wp)
        BY <2>1, <4>0, NumRawBlocksAssumption DEF Slots
      <4>2. QED
        BY <1>3, <4>1 DEF BehindInv, PublishedUpToWp
    <3>3. QED
      BY <3>1, <3>2
  <2>3. FullWhenCaughtUp'
    BY <1>1, <1>7 DEF FullWhenCaughtUp
  <2>4. QED
    BY <1>5, <2>2, <2>3
<1>8. QED
  BY <1>6, <1>7

(* Passing rp unpublishes it; the slots before wp stay published, and if   *)
(* wp was at rp the ring was full, so all the others are.                  *)
LEMMA BehindConsumerAdvance ==
  ASSUME BehindInv, ConsumerAdvance
  PROVE  PublishedUpToWp' /\ InFlight' /\ FullWhenCaughtUp'
<1>1. /\ cpc = "advance" /\ cpc' = "wait"
      /\ rp' = NextSlot(rp) /\ fresh' = [fresh EXCEPT ![rp] = FALSE]
      /\ wp' = wp
  BY DEF ConsumerAdvance
<1>2. /\ wp \in Slots /\ rp \in Slots /\ NextSlot(rp) \in Slots
      /\ fresh \in [Slots -> BOOLEAN]
  BY NextSlotType DEF BehindInv, TypeOK
<1>3. \A s \in Slots : fresh'[s] <=> s # rp /\ fresh[s]
  BY <1>1, <1>2, Zenon
<1>4. \A s \in Slots :
        /\ Dist(s) \in Slots
        /\ Dist(s) = 0 <=> s = rp
        /\ Dist(s)' = IF s = rp THEN NumRawBlocks - 1 ELSE Dist(s) - 1
  BY <1>1, <1>2, DistValue, DistFromNext DEF Dist
<1>5. InFlight' /\ FullWhenCaughtUp'
  BY <1>1 DEF InFlight, FullWhenCaughtUp
<1>6. PublishedUpToWp'
  <2> SUFFICES ASSUME NEW s \in Slots, Dist(s)' < Dist(wp)' PROVE fresh'[s]
    BY DEF PublishedUpToWp
  <2>0. /\ Dist(wp)' = IF wp = rp THEN NumRawBlocks - 1 ELSE Dist(wp) - 1
        /\ Dist(wp) \in Slots /\ (Dist(wp) = 0 <=> wp = rp)
        /\ Dist(s)' = IF s = rp THEN NumRawBlocks - 1 ELSE Dist(s) - 1
        /\ Dist(s) \in Slots
    BY <1>1, <1>2, <1>4
  <2>1. s # rp
    <3>1. Dist(wp)' \in 0 .. NumRawBlocks - 1
      BY <2>0, NumRawBlocksAssumption DEF Slots
    <3>2. s = rp => Dist(s)' = NumRawBlocks - 1
      BY <2>0
    <3>3. QED
      BY <3>1, <3>2, NumRawBlocksAssumption
  <2>2. fresh[s]
    <3>1. CASE wp = rp
      BY <1>1, <3>1 DEF BehindInv, FullWhenCaughtUp
    <3>2. CASE wp # rp
      <4>1. Dist(s) < Dist(wp)
        BY <2>0, <2>1, <3>2, NumRawBlocksAssumption DEF Slots
      <4>2. QED
        BY <4>1 DEF BehindInv, PublishedUpToWp
    <3>3. QED
      BY <3>1, <3>2
  <2>3. QED
    BY <1>3, <2>1, <2>2
<1>7. QED
  BY <1>5, <1>6

LEMMA BehindStep ==
  ASSUME BehindInv, [Next]_vars
  PROVE  BehindInv'
<1>1. TypeOK'
  BY TypeStep DEF BehindInv
<1>2. CASE FeederAdvance
  BY <1>1, <1>2, BehindFeederAdvance DEF BehindInv
<1>3. CASE ConsumerAdvance
  BY <1>1, <1>3, BehindConsumerAdvance DEF BehindInv
<1>4. CASE ConsumerWait
  <2>1. /\ wp' = wp /\ rp' = rp /\ fresh' = fresh
        /\ cpc' = IF wp = rp THEN "lock" ELSE "take"
    BY <1>4 DEF ConsumerWait
  <2>2. PublishedUpToWp'
    BY <2>1 DEF BehindInv, PublishedUpToWp, Dist
  <2>3. FullWhenCaughtUp'
    BY <2>1 DEF FullWhenCaughtUp
  <2>4. InFlight'
    <3>1. CASE wp = rp
      BY <2>1, <3>1 DEF InFlight
    <3>2. CASE wp # rp
      <4>1. wp \in Slots /\ rp \in Slots
        BY DEF BehindInv, TypeOK
      <4>2. Dist(rp) < Dist(wp)
        <5>1. Dist(rp) = 0 /\ Dist(wp) # 0 /\ Dist(wp) \in Slots
          BY <3>2, <4>1, DistValue DEF Dist
        <5>2. QED
          BY <5>1 DEF Slots
      <4>3. fresh[rp]
        BY <4>1, <4>2 DEF BehindInv, PublishedUpToWp
      <4>4. QED
        BY <2>1, <4>3 DEF InFlight
    <3>3. QED
      BY <3>1, <3>2
  <2>5. QED
    BY <1>1, <2>2, <2>3, <2>4 DEF BehindInv
<1>5. CASE \/ FeederConnect \/ FeederFatal \/ FeederUnlock
           \/ ReadData \/ UsbTimeout \/ ReadFail \/ FileEof \/ FileError
           \/ ConsumerLock \/ ConsumerTake \/ ConsumerSend \/ UNCHANGED vars
  <2>1. /\ wp' = wp /\ rp' = rp /\ fresh' = fresh
        /\ cpc' \in {"take", "send", "advance"} => cpc \in {"take", "send", "advance"}
    BY <1>5 DEF FeederConnect, FeederFatal, FeederUnlock, ReadData,
                UsbTimeout, ReadFail, FileEof, FileError, ConsumerLock,
                ConsumerTake, ConsumerSend, vars
  <2>2. QED
    BY <1>1, <2>1 DEF BehindInv, PublishedUpToWp, InFlight, FullWhenCaughtUp,
                      Dist
<1>6. QED
  BY <1>2, <1>3, <1>4, <1>5 DEF Next, Feeder, Consumer

(* The distribution thread never reads a slot ahead of the feeder: in      *)
(* every behaviour, for every ring size and with or without laps,          *)
(* _processBlocks advances rp only past a slot the feeder has published,   *)
(* because it re-tests wp == rp after each wake-up.                        *)
THEOREM ConsumerStaysBehind == Spec => ConsumerBehindFeeder
<1>1. Init => BehindInv
  <2> SUFFICES ASSUME Init PROVE BehindInv
    OBVIOUS
  <2>1. TypeOK
    BY TypeInit
  <2>2. wp = 0 /\ rp = 0 /\ cpc = "wait" /\ 0 \in Slots
    BY NumRawBlocksAssumption DEF Init, Slots
  <2>3. PublishedUpToWp
    <3> SUFFICES ASSUME NEW s \in Slots, Dist(s) < Dist(wp) PROVE fresh[s]
      BY DEF PublishedUpToWp
    <3>1. Dist(s) \in Slots /\ Dist(wp) = 0
      BY <2>2, DistValue DEF Dist
    <3>2. QED
      BY <3>1, NumRawBlocksAssumption DEF Slots
  <2>4. QED
    BY <2>1, <2>2, <2>3 DEF BehindInv, InFlight, FullWhenCaughtUp
<1>2. BehindInv /\ [Next]_vars => BehindInv'
  BY BehindStep
<1>3. BehindInv /\ [Next]_vars => [rp' # rp => fresh[rp]]_vars
  <2> SUFFICES ASSUME BehindInv, [Next]_vars, rp' # rp PROVE fresh[rp]
    OBVIOUS
  <2>1. cpc = "advance"
    BY Zenon DEF Next, Feeder, Consumer, vars, FeederConnect, FeederFatal,
                 ReadData, UsbTimeout, ReadFail, FileEof, FileError,
                 FeederAdvance, FeederUnlock, ConsumerWait, ConsumerLock,
                 ConsumerTake, ConsumerSend, ConsumerAdvance
  <2>2. QED
    BY <2>1 DEF BehindInv, InFlight
<1>4. QED
  BY <1>1, <1>2, <1>3, PTL DEF Spec, ConsumerBehindFeeder

=============================================================================
