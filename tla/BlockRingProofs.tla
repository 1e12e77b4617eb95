-------------------------- MODULE BlockRingProofs --------------------------
(***************************************************************************)
(* Proofs about BlockRing for every ring size and every bound.             *)
(***************************************************************************)
EXTENDS BlockRing, TLAPS

(* The slot arithmetic of the ring stays within the ring.                  *)
LEMMA NextSlotType ==
  ASSUME NEW x \in Slots
  PROVE  NextSlot(x) \in Slots
BY NumRawBlocksAssumption DEF NextSlot, Slots

(* The initial state is well typed.                                        *)
LEMMA TypeInit == Init => TypeOK
BY NumRawBlocksAssumption, MaxBlocksAssumption, MaxFileErrorsAssumption
DEF Init, TypeOK, Slots, Block, Fills

(* Every step keeps all variables within their types.                      *)
LEMMA TypeStep == TypeOK /\ [Next]_vars => TypeOK'
<1> SUFFICES ASSUME TypeOK, [Next]_vars PROVE TypeOK'
  OBVIOUS
<1>1. CASE FeederConnect
  BY <1>1 DEF FeederConnect, TypeOK
<1>2. CASE FeederFatal
  BY <1>2 DEF FeederFatal, TypeOK
<1>3. CASE ReadData
  <2>0. produced \in 0 .. MaxBlocks
    BY DEF TypeOK
  <2>1. produced + 1 \in 1 .. MaxBlocks
    BY <1>3, <2>0, MaxBlocksAssumption DEF ReadData
  <2>2. [id |-> produced + 1, fill |-> 1] \in Block
    BY <2>1 DEF Block, Fills
  <2>3. QED
    BY <1>3, <2>1, <2>2 DEF ReadData, WriteSlot, TypeOK
<1>4. CASE UsbTimeout
  BY <1>4 DEF UsbTimeout, WriteSlot, Block, Fills, TypeOK
<1>5. CASE ReadFail
  BY <1>5 DEF ReadFail, WriteSlot, Block, Fills, TypeOK
<1>6. CASE FileEof
  BY <1>6 DEF FileEof, WriteSlot, Block, Fills, TypeOK
<1>7. CASE FileError
  <2>1. fileErrors + 1 \in 0 .. MaxFileErrors
    BY <1>7, MaxFileErrorsAssumption DEF FileError, TypeOK
  <2>2. QED
    BY <1>7, <2>1 DEF FileError, WriteSlot, Block, Fills, TypeOK
<1>8. CASE FeederAdvance
  BY <1>8, NextSlotType DEF FeederAdvance, TypeOK
<1>9. CASE FeederUnlock
  BY <1>9 DEF FeederUnlock, TypeOK
<1>10. CASE ConsumerWait
  BY <1>10 DEF ConsumerWait, TypeOK
<1>11. CASE ConsumerLock
  BY <1>11 DEF ConsumerLock, TypeOK
<1>12. CASE ConsumerTake
  BY <1>12 DEF ConsumerTake, TypeOK
<1>13. CASE ConsumerSend
  BY <1>13 DEF ConsumerSend, TypeOK
<1>14. CASE ConsumerAdvance
  BY <1>14, NextSlotType DEF ConsumerAdvance, TypeOK
<1>15. CASE UNCHANGED vars
  BY <1>15 DEF vars, TypeOK
<1>16. QED
  BY <1>1, <1>2, <1>3, <1>4, <1>5, <1>6, <1>7, <1>8, <1>9, <1>10, <1>11,
     <1>12, <1>13, <1>14, <1>15 DEF Next, Feeder, Consumer

(* Every reachable state is well typed; in particular wp and rp stay       *)
(* within the ring.                                                        *)
THEOREM TypeCorrect == Spec => []TypeOK
BY TypeInit, TypeStep, PTL DEF Spec

-----------------------------------------------------------------------------
(* No lost wake-up: when main runs a device feeder (usbFeeder,             *)
(* seggerFeeder or serialFeeder, each of which unlocks dataForClients      *)
(* after advancing wp), the distribution thread is never blocked on the    *)
(* mutex while the ring holds a block unless the feeder is about to        *)
(* unlock it.  WakeupPending is inductive together with TypeOK: the only   *)
(* step that makes wp # rp while the consumer is blocked is FeederAdvance, *)
(* and a device feeder always goes from there to FeederUnlock.             *)
THEOREM DeviceWakeupPending ==
  ASSUME "fileFeeder" \notin Feeders
  PROVE  Spec => []WakeupPending
<1>1. Init => WakeupPending
  BY DEF Init, WakeupPending
<1>2. TypeOK /\ WakeupPending /\ [Next]_vars => WakeupPending'
  <2> SUFFICES ASSUME TypeOK, WakeupPending, [Next]_vars
               PROVE  WakeupPending'
    OBVIOUS
  <2> USE DEF WakeupPending
  <2>1. CASE FeederAdvance
    <3>1. feeder # "fileFeeder"
      BY DEF TypeOK
    <3>2. ppc' = "unlock"
      BY <2>1, <3>1 DEF FeederAdvance
    <3>3. QED
      BY <3>2
  <2>2. CASE ConsumerWait
    BY <2>2 DEF ConsumerWait
  <2>3. CASE FeederUnlock
    BY <2>3 DEF FeederUnlock
  <2>4. CASE ConsumerLock
    BY <2>4 DEF ConsumerLock
  <2>5. CASE ConsumerTake \/ ConsumerSend \/ ConsumerAdvance
    BY <2>5 DEF ConsumerTake, ConsumerSend, ConsumerAdvance
  <2>6. CASE FeederConnect \/ FeederFatal
    BY <2>6 DEF FeederConnect, FeederFatal
  <2>7. CASE ReadData \/ UsbTimeout \/ ReadFail \/ FileEof \/ FileError
    BY <2>7 DEF ReadData, UsbTimeout, ReadFail, FileEof, FileError, WriteSlot
  <2>8. CASE UNCHANGED vars
    BY <2>8 DEF vars
  <2>9. QED
    BY <2>1, <2>2, <2>3, <2>4, <2>5, <2>6, <2>7, <2>8 DEF Next, Feeder, Consumer
<1>3. QED
  BY <1>1, <1>2, TypeCorrect, PTL DEF Spec

=============================================================================
