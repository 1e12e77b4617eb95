----------------------------- MODULE TpiuDemux -----------------------------
(***************************************************************************)
(* The TPIU path of _processBlocks in orbuculum.c: for each raw block,     *)
(* _stripTPIU pumps the bytes through the TPIU decoder and appends every   *)
(* decoded (stream, byte) pair to the strippedBlock of the handler whose   *)
(* channel is the stream, using a one-entry cache (cachedChannel,          *)
(* chIndex, h) of the last lookup; then _purgeBlock hands the non-empty    *)
(* strippedBlocks to their network sinks and empties them.                 *)
(*                                                                         *)
(* The TPIU decoder itself (tpiuDecoder.c) is not part of this source:     *)
(* what it yields for one raw block is the input of the step, a sequence   *)
(* of stream ids (the packets of the block laid end to end; the cache is   *)
(* kept across the packets of a block).  A decoded byte is identified by   *)
(* its position in the whole decoded stream.                               *)
(***************************************************************************)
EXTENDS Naturals, Sequences, SequencesExt

CONSTANTS
  HandlerChannels,   \* the -t channel list, in order (duplicates allowed)
  Streams,           \* stream ids the decoder may produce
  TransferSize,      \* TRANSFER_SIZE, capacity of a strippedBlock buffer
  MaxItemsPerBlock,  \* most decoded bytes one raw block can yield
  MaxBlocks          \* bound on the number of raw blocks processed

NumHandlers == Len(HandlerChannels)
Handlers == 0 .. NumHandlers - 1
(* _r.handler[h].channel; handlers are numbered from 0 as in the code.     *)
Channel(h) == HandlerChannels[h + 1]

(* main accepts channel numbers 1 .. NUM_TPIU_CHANNELS - 1 (0 is skipped). *)
ASSUME HandlerChannelsAssumption ==
  HandlerChannels \in Seq(1 .. 127)
ASSUME StreamsAssumption == Streams \subseteq 0 .. 127
(* A raw block of TRANSFER_SIZE bytes completes at most                    *)
(* TRANSFER_SIZE / 16 + 1 frames of at most 15 bytes each, which is less   *)
(* than TRANSFER_SIZE for the real TRANSFER_SIZE: one block alone never    *)
(* fills a strippedBlock.                                                  *)
ASSUME SizesAssumption ==
  /\ TransferSize \in Nat \ {0}
  /\ MaxItemsPerBlock \in 1 .. TransferSize
  /\ MaxBlocks \in Nat

VARIABLES
  strippedBlock,  \* handler -> bytes accumulated in h->strippedBlock
  clientData,     \* handler -> bytes handed to nwclientSend( h->n, ... )
  decoded,        \* history: every pair the decoder has produced, in order
  blocks          \* number of raw blocks processed

vars == <<strippedBlock, clientData, decoded, blocks>>

Item == [s : Streams, n : Nat]

Init ==
  /\ strippedBlock = [h \in Handlers |-> << >>]
  /\ clientData = [h \in Handlers |-> << >>]
  /\ decoded = << >>
  /\ blocks = 0

(***************************************************************************)
(* _stripTPIU, the loop over the decoded pairs of one block.               *)
(***************************************************************************)

(* Mutant: the search loop starts at the second handler.                  *)
FindHandlerFromOne(s) ==
  IF \E h \in 1 .. NumHandlers - 1 : Channel(h) = s
    THEN CHOOSE h \in 1 .. NumHandlers - 1 :
           Channel(h) = s /\ \A g \in 1 .. h - 1 : Channel(g) # s
    ELSE NumHandlers

(* The search loop: the first handler whose channel is s, or NumHandlers   *)
(* when there is none (chIndex == r->numHandlers).                         *)
FindHandler(s) ==
  IF \E h \in Handlers : Channel(h) = s
    THEN CHOOSE h \in Handlers :
           Channel(h) = s /\ \A g \in 0 .. h - 1 : Channel(g) # s
    ELSE NumHandlers

(* One pair: search again only when the stream differs from               *)
(* cachedChannel; append to the handler found, if any.                     *)
StripStep(st, item) ==
  LET ci == IF st.cachedChannel # item.s THEN FindHandler(item.s)
                                          ELSE st.chIndex
  IN  [cachedChannel |-> item.s,
       chIndex       |-> ci,
       bufs          |-> IF ci # NumHandlers
                           THEN [st.bufs EXCEPT ![ci] = Append(@, item)]
                           ELSE st.bufs]

(* cachedChannel = -1 and chIndex = 0 at entry of every call.              *)
StripTPIU(bufs, items) ==
  FoldLeft(StripStep, [cachedChannel |-> -1, chIndex |-> 0, bufs |-> bufs],
           items).bufs

(***************************************************************************)
(* _purgeBlock: numHandlers iterations; h is advanced only past a handler  *)
(* that was flushed.                                                       *)
(***************************************************************************)
PurgeStep(st, iteration) ==
  IF st.bufs[st.h] # << >>
    THEN [h    |-> st.h + 1,
          bufs |-> [st.bufs EXCEPT ![st.h] = << >>],
          out  |-> [st.out EXCEPT ![st.h] = @ \o st.bufs[st.h]]]
    ELSE st

PurgeBlock(bufs, out) ==
  FoldLeft(PurgeStep, [h |-> 0, bufs |-> bufs, out |-> out],
           [i \in 1 .. NumHandlers |-> i])

(* The pairs the decoder may produce from one raw block, numbered after    *)
(* the ones produced before.                                               *)
BlockItems(streams) ==
  [i \in 1 .. Len(streams) |-> [s |-> streams[i], n |-> Len(decoded) + i]]

(* One iteration of _processBlocks with useTPIU set and a non-empty raw    *)
(* block: _stripTPIU then _purgeBlock.                                     *)
ProcessBlock ==
  /\ blocks < MaxBlocks
  /\ \E streams \in BoundedSeq(Streams, MaxItemsPerBlock) :
       LET items    == BlockItems(streams)
           stripped == StripTPIU(strippedBlock, items)
           purged   == PurgeBlock(stripped, clientData)
       IN  /\ strippedBlock' = purged.bufs
           /\ clientData' = purged.out
           /\ decoded' = decoded \o items
  /\ blocks' = blocks + 1

Next == ProcessBlock

Spec == Init /\ [][Next]_vars

-----------------------------------------------------------------------------
TypeOK ==
  /\ strippedBlock \in [Handlers -> Seq(Item)]
  /\ clientData \in [Handlers -> Seq(Item)]
  /\ decoded \in Seq(Item)
  /\ blocks \in 0 .. MaxBlocks

(* The demultiplexer implements the per-channel promise of DemuxSpec:     *)
(* what a handler has sent, followed by what it still holds, grows by      *)
(* exactly the decoded bytes of its channel at every block, in decoder     *)
(* order, when it is the first handler of that channel, and stays empty    *)
(* for a later handler of a repeated channel.  This is about the lookup    *)
(* cache of _stripTPIU and the hand-over of _purgeBlock.                   *)
Abstract == INSTANCE DemuxSpec
              WITH delivered <- [h \in Handlers |->
                                   clientData[h] \o strippedBlock[h]]

DemuxRefinement == Abstract!Spec

(* After _purgeBlock every strippedBlock is empty (spec 4.5: flush every   *)
(* handler whose buffer is non-empty and reset its fill level).            *)
PurgeFlushesAll ==
  \A h \in Handlers : strippedBlock[h] = << >>

=============================================================================
