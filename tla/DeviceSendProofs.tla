-------------------------- MODULE DeviceSendProofs --------------------------
(***************************************************************************)
(* DeviceSendsNonNegative for every ring size and every bound: with        *)
(* usbFeeder, seggerFeeder or serialFeeder, a failed read() stores its -1  *)
(* (or 0) in the fillLevel of slot wp but does not advance wp, so until    *)
(* the feeder laps the consumer no negative length reaches nwclientSend.   *)
(* The proof reuses the ring invariant of PassThroughCorrect: InFlight     *)
(* says the slot ConsumerSend reads is published.                          *)
(***************************************************************************)
EXTENDS PassThroughProofs

(* The writes of a block without data: the slot's old id, fill 0 or -1.   *)
LEMMA WriteNoDataSlot ==
  ASSUME TypeOK, UsbTimeout \/ ReadFail \/ FileEof \/ FileError
  PROVE  \E b : /\ rawBlock' = [rawBlock EXCEPT ![wp] = b]
                /\ lapped' = (lapped \/ fresh[wp])
                /\ b.fill \in {0, -1}
<1>1. WriteSlot([rawBlock[wp] EXCEPT !.fill = 0])
      \/ WriteSlot([rawBlock[wp] EXCEPT !.fill = -1])
  BY DEF UsbTimeout, ReadFail, FileEof, FileError
<1>2. rawBlock[wp] \in Block
  BY DEF TypeOK
<1>3. /\ [rawBlock[wp] EXCEPT !.fill = 0].fill = 0
      /\ [rawBlock[wp] EXCEPT !.fill = -1].fill = -1
  BY <1>2 DEF Block
<1>4. QED
  BY <1>1, <1>3 DEF WriteSlot

-----------------------------------------------------------------------------
(* With a device feeder, the only writes of a non-positive fillLevel are   *)
(* the USB timeout (0, then published) and the failed read (0 or -1, never *)
(* published); before a lap, every slot the consumer can reach holds       *)
(* fillLevel >= 0.                                                         *)
DevPending == ppc = "advance" => rawBlock[wp].fill >= 0

DevFresh == ~lapped => \A s \in Slots : fresh[s] => rawBlock[s].fill >= 0

DevFill == feeder # "fileFeeder" => DevPending /\ DevFresh

DevInv == PassThroughInv /\ DevFill /\ DeviceSendsNonNegative

(* A write into slot wp keeps the published slots non-negative: either the *)
(* slot was not published, or the write is a lap.                          *)
LEMMA DevFreshWrite ==
  ASSUME TypeOK, DevFresh, NEW b,
         rawBlock' = [rawBlock EXCEPT ![wp] = b],
         lapped' = (lapped \/ fresh[wp]), fresh' = fresh
  PROVE  DevFresh'
<1> SUFFICES ASSUME ~lapped', NEW s \in Slots, fresh'[s]
             PROVE  rawBlock'[s].fill >= 0
  BY DEF DevFresh
<1>1. ~lapped /\ ~fresh[wp] /\ fresh[s]
  BY Zenon
<1>2. s # wp
  BY <1>1, Zenon
<1>3. rawBlock'[s] = rawBlock[s]
  BY <1>2 DEF TypeOK
<1>4. rawBlock[s].fill >= 0
  BY <1>1, Zenon DEF DevFresh
<1>5. QED
  BY <1>3, <1>4

LEMMA DevStep ==
  ASSUME TypeOK, PassThroughInv, DevFill, DeviceSendsNonNegative, [Next]_vars
  PROVE  DevFill' /\ DeviceSendsNonNegative'
<1>1. feeder' = feeder
  BY DEF Next, Feeder, Consumer, vars, FeederConnect, FeederFatal, ReadData,
         UsbTimeout, ReadFail, FileEof, FileError, FeederAdvance,
         FeederUnlock, ConsumerWait, ConsumerLock, ConsumerTake,
         ConsumerSend, ConsumerAdvance
<1> SUFFICES ASSUME feeder # "fileFeeder"
             PROVE  DevPending' /\ DevFresh' /\ (~lapped' => NoNegativeSend')
  <2>1. CASE feeder = "fileFeeder"
    BY <1>1, <2>1 DEF DevFill, DeviceSendsNonNegative
  <2>2. QED
    BY <1>1, <2>1 DEF DevFill, DeviceSendsNonNegative
<1>2. DevPending /\ DevFresh /\ (~lapped => NoNegativeSend)
  BY DEF DevFill, DeviceSendsNonNegative
<1>3. /\ wp \in Slots /\ rp \in Slots /\ rawBlock \in [Slots -> Block]
      /\ sent \in Seq(Block)
  BY DEF TypeOK
<1>4. CASE ReadData
  <2>1. /\ rawBlock' = [rawBlock EXCEPT ![wp] = [id |-> produced + 1,
                                                  fill |-> 1]]
        /\ lapped' = (lapped \/ fresh[wp])
        /\ wp' = wp /\ fresh' = fresh /\ sent' = sent
    BY <1>4 DEF ReadData, WriteSlot
  <2>2. DevPending'
    BY <1>3, <2>1 DEF DevPending
  <2>3. DevFresh'
    BY <1>2, <2>1, DevFreshWrite
  <2>4. ~lapped' => ~lapped
    BY <2>1, Zenon
  <2>5. QED
    BY <1>2, <2>1, <2>2, <2>3, <2>4 DEF NoNegativeSend
<1>5. CASE UsbTimeout \/ ReadFail
  <2>1. PICK b : /\ rawBlock' = [rawBlock EXCEPT ![wp] = b]
                 /\ lapped' = (lapped \/ fresh[wp])
    BY <1>5, WriteNoDataSlot
  <2>2. wp' = wp /\ fresh' = fresh /\ sent' = sent
    BY <1>5 DEF UsbTimeout, ReadFail
  <2>3. DevPending'
    <3>1. CASE UsbTimeout
      <4>1. rawBlock' = [rawBlock EXCEPT ![wp] = [rawBlock[wp] EXCEPT !.fill = 0]]
        BY <3>1 DEF UsbTimeout, WriteSlot
      <4>2. rawBlock[wp] \in Block
        BY <1>3
      <4>3. QED
        BY <1>3, <2>2, <4>1, <4>2 DEF DevPending, Block
    <3>2. CASE ReadFail
      BY <3>2 DEF ReadFail, DevPending
    <3>3. QED
      BY <1>5, <3>1, <3>2
  <2>4. DevFresh'
    BY <1>2, <2>1, <2>2, DevFreshWrite
  <2>5. ~lapped' => ~lapped
    BY <2>1, Zenon
  <2>6. QED
    BY <1>2, <2>2, <2>3, <2>4, <2>5 DEF NoNegativeSend
<1>6. CASE FileEof \/ FileError
  BY <1>6 DEF FileEof, FileError
<1>7. CASE FeederAdvance
  <2>1. /\ rawBlock' = rawBlock /\ lapped' = lapped /\ sent' = sent
        /\ fresh' = [fresh EXCEPT ![wp] = TRUE] /\ ppc = "advance"
        /\ ppc' # "advance"
    BY <1>7 DEF FeederAdvance
  <2>2. DevPending'
    BY <2>1 DEF DevPending
  <2>3. DevFresh'
    <3> SUFFICES ASSUME ~lapped', NEW s \in Slots, fresh'[s]
                 PROVE  rawBlock'[s].fill >= 0
      BY DEF DevFresh
    <3>1. CASE s = wp
      BY <1>2, <2>1, <3>1 DEF DevPending
    <3>2. CASE s # wp
      <4>1. fresh[s] /\ ~lapped
        BY <1>3, <2>1, <3>2
      <4>2. QED
        BY <1>2, <2>1, <4>1, Zenon DEF DevFresh
    <3>3. QED
      BY <3>1, <3>2
  <2>4. QED
    BY <1>2, <2>1, <2>2, <2>3 DEF NoNegativeSend
<1>8. CASE ConsumerAdvance
  <2>1. /\ rawBlock' = rawBlock /\ lapped' = lapped /\ sent' = sent
        /\ fresh' = [fresh EXCEPT ![rp] = FALSE] /\ ppc' = ppc /\ wp' = wp
    BY <1>8 DEF ConsumerAdvance
  <2>2. DevPending'
    BY <1>2, <2>1 DEF DevPending
  <2>3. DevFresh'
    <3> SUFFICES ASSUME ~lapped', NEW s \in Slots, fresh'[s]
                 PROVE  rawBlock'[s].fill >= 0
      BY DEF DevFresh
    <3>1. fresh[s] /\ ~lapped
      BY <1>3, <2>1
    <3>2. QED
      BY <1>2, <2>1, <3>1, Zenon DEF DevFresh
  <2>4. QED
    BY <1>2, <2>1, <2>2, <2>3 DEF NoNegativeSend
<1>9. CASE ConsumerSend
  <2>1. /\ rawBlock' = rawBlock /\ lapped' = lapped /\ fresh' = fresh
        /\ ppc' = ppc /\ wp' = wp /\ cpc = "send"
        /\ sent' = Append(sent, rawBlock[rp])
    BY <1>9 DEF ConsumerSend
  <2>2. DevPending' /\ DevFresh'
    BY <1>2, <2>1 DEF DevPending, DevFresh
  <2>3. ASSUME ~lapped' PROVE NoNegativeSend'
    <3>1. ~lapped /\ fresh[rp]
      BY <2>1, <2>3 DEF PassThroughInv, RingInv, InFlight
    <3>2. rawBlock[rp].fill >= 0
      BY <1>2, <1>3, <3>1, Zenon DEF DevFresh
    <3>3. NoNegativeSend
      BY <1>2, <3>1
    <3>4. QED
      BY <1>3, <2>1, <3>2, <3>3 DEF NoNegativeSend
  <2>4. QED
    BY <2>2, <2>3
<1>10. CASE \/ FeederConnect \/ FeederFatal \/ FeederUnlock
            \/ ConsumerWait \/ ConsumerLock \/ ConsumerTake \/ UNCHANGED vars
  <2>1. /\ rawBlock' = rawBlock /\ lapped' = lapped /\ sent' = sent
        /\ fresh' = fresh /\ wp' = wp
        /\ (ppc' = "advance" => ppc = "advance")
    BY <1>10 DEF FeederConnect, FeederFatal, FeederUnlock, ConsumerWait,
                 ConsumerLock, ConsumerTake, vars
  <2>2. QED
    BY <1>2, <2>1 DEF DevPending, DevFresh, NoNegativeSend
<1>11. QED
  BY <1>4, <1>5, <1>6, <1>7, <1>8, <1>9, <1>10 DEF Next, Feeder, Consumer

(* With usbFeeder, seggerFeeder or serialFeeder, for every NUM_RAW_BLOCKS: *)
(* until the feeder laps the consumer, nwclientSend is never given the -1  *)
(* that a failed read() leaves in fillLevel.                               *)
THEOREM DeviceNonNegative == Spec => []DeviceSendsNonNegative
<1>1. Init => DevInv
  <2> SUFFICES ASSUME Init PROVE DevInv
    OBVIOUS
  <2>1. PassThroughInv
    BY PassThroughInit
  <2>2. ppc = "connect" /\ fresh = [s \in Slots |-> FALSE] /\ sent = << >>
    BY DEF Init
  <2>3. QED
    BY <2>1, <2>2 DEF DevInv, DevFill, DevPending, DevFresh,
                      DeviceSendsNonNegative, NoNegativeSend
<1>2. DevInv /\ [Next]_vars => DevInv'
  BY PassThroughStep, DevStep DEF DevInv, PassThroughInv
<1>3. QED
  BY <1>1, <1>2, PTL DEF Spec, DevInv


=============================================================================
