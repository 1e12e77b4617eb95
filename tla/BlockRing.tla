----------------------------- MODULE BlockRing -----------------------------
(***************************************************************************)
(* The ingest ring of orbuculum.c: one feeder thread (usbFeeder,           *)
(* seggerFeeder, serialFeeder or fileFeeder, run by main) fills            *)
(* _r.rawBlock[_r.wp] and advances wp; the distribution thread             *)
(* _processBlocks waits until wp # rp, hands rawBlock[rp] to the network   *)
(* sink (the pass-through path, without TPIU) and advances rp.  The        *)
(* mutex _r.dataForClients is used as a one-shot signal: the consumer      *)
(* locks it while the ring looks empty, the feeder unlocks it after each   *)
(* advance.                                                                *)
(*                                                                         *)
(* A block's bytes are abstracted to the number of the read that filled    *)
(* it (id) and the sign of its fillLevel: 1 stands for "n > 0 bytes",      *)
(* 0 for an empty read, -1 for a failed read().  A read that fails leaves  *)
(* the old buffer (id) in place and only overwrites fillLevel.             *)
(***************************************************************************)
EXTENDS Naturals, Integers, Sequences

CONSTANTS
  NumRawBlocks,   \* NUM_RAW_BLOCKS, the number of slots of the ring
  MaxBlocks,      \* bound on the number of data blocks the source delivers
  MaxFileErrors,  \* bound on the number of failed reads of the input file
  Feeders         \* the feeders main may run (chosen by the options)

(* The feeders of orbuculum.c; seggerFeeder and serialFeeder share one     *)
(* control structure (blocking read() on a file descriptor).               *)
FeederKinds == {"usbFeeder", "seggerFeeder", "serialFeeder", "fileFeeder"}
StreamFeeders == {"seggerFeeder", "serialFeeder"}

ASSUME NumRawBlocksAssumption == NumRawBlocks \in Nat \ {0}
ASSUME MaxBlocksAssumption == MaxBlocks \in Nat
ASSUME MaxFileErrorsAssumption == MaxFileErrors \in Nat
ASSUME FeedersAssumption == Feeders \subseteq FeederKinds /\ Feeders # {}

VARIABLES
  feeder,          \* which feeder main started (fixed by the options)
  fileTerminate,   \* option -e: fileFeeder stops at end of file
  wp, rp,          \* _r.wp and _r.rp
  rawBlock,        \* _r.rawBlock: [id, fill] per slot
  dataForClients,  \* _r.dataForClients, "locked" or "unlocked"
  ppc,             \* feeder thread program counter
  cpc,             \* _processBlocks program counter
  produced,        \* number of data blocks read so far (ids 1..produced)
  fileErrors,      \* number of failed reads of the input file so far
  sent,            \* history: blocks handed to nwclientSend, in order
  dataSent,        \* history: those of them with fillLevel > 0, in order
  fresh,           \* history: slot published by the feeder, not yet passed by rp
  lapped,          \* history: the feeder has rewritten a fresh slot
  status           \* "running", or why the process called exit()

vars == <<feeder, fileTerminate, wp, rp, rawBlock, dataForClients, ppc, cpc,
          produced, fileErrors, sent, dataSent, fresh, lapped, status>>

Slots == 0 .. NumRawBlocks - 1
Fills == {-1, 0, 1}
Block == [id : 0 .. MaxBlocks, fill : Fills]

(* Mutant: the index advanced without the modulo.                         *)
NextSlotNoWrap(x) == x + 1

(* Next slot index, (x + 1) % NUM_RAW_BLOCKS in the code.                  *)
NextSlot(x) == (x + 1) % NumRawBlocks

Running == status = "running"

-----------------------------------------------------------------------------
(* _r is a zero-initialised static: every fillLevel is 0, wp = rp = 0,     *)
(* and the all-zero mutex is an unlocked default mutex.                    *)
Init ==
  /\ feeder \in Feeders
  /\ fileTerminate \in BOOLEAN
  /\ wp = 0
  /\ rp = 0
  /\ rawBlock = [s \in Slots |-> [id |-> 0, fill |-> 0]]
  /\ dataForClients = "unlocked"
  /\ ppc = "connect"
  /\ cpc = "wait"
  /\ produced = 0
  /\ fileErrors = 0
  /\ sent = << >>
  /\ dataSent = << >>
  /\ fresh = [s \in Slots |-> FALSE]
  /\ lapped = FALSE
  /\ status = "running"

(* The read writes into rawBlock[wp]; writing a slot still holding a       *)
(* published block that rp has not passed is a lap.                        *)
WriteSlot(blk) ==
  /\ rawBlock' = [rawBlock EXCEPT ![wp] = blk]
  /\ lapped' = (lapped \/ fresh[wp])

(***************************************************************************)
(* Feeder thread.                                                          *)
(***************************************************************************)

(* Acquire the source: libusb_init, find and claim the device (usbFeeder); *)
(* socket and connect, retrying (seggerFeeder); open and configure the     *)
(* port, retrying (serialFeeder); open the file (fileFeeder).  Retries     *)
(* leave the state unchanged and are stuttering steps.                     *)
FeederConnect ==
  /\ Running
  /\ ppc = "connect"
  /\ ppc' = "read"
  /\ UNCHANGED <<fileErrors, feeder, fileTerminate, wp, rp, rawBlock,
                 dataForClients, cpc, produced, sent, dataSent, fresh, lapped,
                 status>>

(* A fatal start-up failure: libusb_init fails, socket() fails,            *)
(* _setSerialConfig fails, or the file cannot be opened.  The feeder       *)
(* returns (or genericsExit runs) and the process exits.                   *)
FeederFatal ==
  /\ Running
  /\ ppc = "connect"
  /\ status' = "fatalExit"
  /\ UNCHANGED <<fileErrors, feeder, fileTerminate, wp, rp, rawBlock,
                 dataForClients, ppc, cpc, produced, sent, dataSent, fresh,
                 lapped>>

(* A read that returns n > 0 bytes (a bulk transfer that moves data, with  *)
(* or without timing out).                                                 *)
ReadData ==
  /\ Running
  /\ ppc = "read"
  /\ produced < MaxBlocks
  /\ WriteSlot([id |-> produced + 1, fill |-> 1])
  /\ produced' = produced + 1
  /\ ppc' = "advance"
  /\ UNCHANGED <<fileErrors, feeder, fileTerminate, wp, rp, dataForClients,
                 cpc, sent, dataSent, fresh, status>>

(* usbFeeder: libusb_bulk_transfer times out after 10 ms with nothing      *)
(* transferred; the code still publishes the (empty) block.                *)
UsbTimeout ==
  /\ Running
  /\ feeder = "usbFeeder"
  /\ ppc = "read"
  /\ WriteSlot([rawBlock[wp] EXCEPT !.fill = 0])
  /\ ppc' = "advance"
  /\ UNCHANGED <<fileErrors, feeder, fileTerminate, wp, rp, dataForClients,
                 cpc, produced, sent, dataSent, fresh, status>>

(* Mutant: the failed read is published like a data block (wp advanced).  *)
ReadFailPublish ==
  /\ Running
  /\ feeder \in {"usbFeeder"} \cup StreamFeeders
  /\ ppc = "read"
  /\ \E f \in (IF feeder = "usbFeeder" THEN {0} ELSE {0, -1}) :
        WriteSlot([rawBlock[wp] EXCEPT !.fill = f])
  /\ ppc' = "advance"
  /\ UNCHANGED <<fileErrors, feeder, fileTerminate, wp, rp, dataForClients,
                 cpc, produced, sent, dataSent, fresh, status>>

(* usbFeeder: a bulk transfer error other than timeout breaks out to       *)
(* libusb_close and a new search; seggerFeeder/serialFeeder: read()        *)
(* returns 0 or -1, which is stored in fillLevel, and the link is closed   *)
(* and reopened.  wp is not advanced.                                      *)
ReadFail ==
  /\ Running
  /\ feeder \in {"usbFeeder"} \cup StreamFeeders
  /\ ppc = "read"
  /\ \E f \in (IF feeder = "usbFeeder" THEN {0} ELSE {0, -1}) :
        WriteSlot([rawBlock[wp] EXCEPT !.fill = f])
  /\ ppc' = "connect"
  /\ UNCHANGED <<fileErrors, feeder, fileTerminate, wp, rp, dataForClients,
                 cpc, produced, sent, dataSent, fresh, status>>

(* fileFeeder: read() returns 0 at end of file.  With -e the loop breaks,  *)
(* fileFeeder returns and main calls exit(); otherwise it sleeps and       *)
(* reads again.                                                            *)
FileEof ==
  /\ Running
  /\ feeder = "fileFeeder"
  /\ ppc = "read"
  /\ WriteSlot([rawBlock[wp] EXCEPT !.fill = 0])
  /\ status' = IF fileTerminate THEN "eofExit" ELSE "running"
  /\ UNCHANGED <<fileErrors, feeder, fileTerminate, wp, rp, dataForClients,
                 ppc, cpc, produced, sent, dataSent, fresh>>

(* fileFeeder: read() returns -1.  The test !rxBlock->fillLevel is false,  *)
(* so the block with fillLevel -1 is published like a data block.          *)
FileError ==
  /\ Running
  /\ feeder = "fileFeeder"
  /\ ppc = "read"
  /\ fileErrors < MaxFileErrors
  /\ WriteSlot([rawBlock[wp] EXCEPT !.fill = -1])
  /\ fileErrors' = fileErrors + 1
  /\ ppc' = "advance"
  /\ UNCHANGED <<feeder, fileTerminate, wp, rp, dataForClients,
                 cpc, produced, sent, dataSent, fresh, status>>

(* Mutant: a feeder that forgets the unlock after advancing.              *)
FeederAdvanceSkipUnlock ==
  /\ Running
  /\ ppc = "advance"
  /\ wp' = NextSlot(wp)
  /\ fresh' = [fresh EXCEPT ![wp] = TRUE]
  /\ ppc' = "read"
  /\ UNCHANGED <<fileErrors, feeder, fileTerminate, rp, rawBlock,
                 dataForClients, cpc, produced, sent, dataSent, lapped, status>>

(* r->wp = (r->wp + 1) % NUM_RAW_BLOCKS.  fileFeeder goes straight back to *)
(* its read; the other feeders go on to unlock the mutex.                  *)
FeederAdvance ==
  /\ Running
  /\ ppc = "advance"
  /\ wp' = NextSlot(wp)
  /\ fresh' = [fresh EXCEPT ![wp] = TRUE]
  /\ ppc' = IF feeder = "fileFeeder" THEN "read" ELSE "unlock"
  /\ UNCHANGED <<fileErrors, feeder, fileTerminate, rp, rawBlock,
                 dataForClients, cpc, produced, sent, dataSent, lapped, status>>

(* Mutant: an error-checking mutex, whose unlock by a thread that does    *)
(* not own it fails with EPERM and leaves it locked.                       *)
FeederUnlockNoop ==
  /\ Running
  /\ ppc = "unlock"
  /\ ppc' = "read"
  /\ UNCHANGED <<fileErrors, feeder, fileTerminate, wp, rp, rawBlock,
                 dataForClients, cpc, produced, sent, dataSent, fresh, lapped,
                 status>>

(* pthread_mutex_unlock(&r->dataForClients).  The feeder does not own the  *)
(* mutex; glibc's default mutex does not check the owner and simply        *)
(* releases it, and releasing an unlocked one leaves it unlocked.          *)
FeederUnlock ==
  /\ Running
  /\ ppc = "unlock"
  /\ dataForClients' = "unlocked"
  /\ ppc' = "read"
  /\ UNCHANGED <<fileErrors, feeder, fileTerminate, wp, rp, rawBlock, cpc,
                 produced, sent, dataSent, fresh, lapped, status>>

(***************************************************************************)
(* Distribution thread, _processBlocks, pass-through path.                 *)
(***************************************************************************)

(* while ( r->wp == r->rp ): test the ring.                                *)
ConsumerWait ==
  /\ Running
  /\ cpc = "wait"
  /\ cpc' = IF wp = rp THEN "lock" ELSE "take"
  /\ UNCHANGED <<fileErrors, feeder, fileTerminate, wp, rp, rawBlock,
                 dataForClients, ppc, produced, sent, dataSent, fresh, lapped,
                 status>>

(* Mutant: an if in place of the while, so the ring is not tested again   *)
(* after the lock is taken.                                                *)
ConsumerLockNoRecheck ==
  /\ Running
  /\ cpc = "lock"
  /\ dataForClients = "unlocked"
  /\ dataForClients' = "locked"
  /\ cpc' = "take"
  /\ UNCHANGED <<fileErrors, feeder, fileTerminate, wp, rp, rawBlock, ppc,
                 produced, sent, dataSent, fresh, lapped, status>>

(* pthread_mutex_lock(&r->dataForClients): blocks while the mutex is       *)
(* locked, including when this thread itself locked it last time round.    *)
ConsumerLock ==
  /\ Running
  /\ cpc = "lock"
  /\ dataForClients = "unlocked"
  /\ dataForClients' = "locked"
  /\ cpc' = "wait"
  /\ UNCHANGED <<fileErrors, feeder, fileTerminate, wp, rp, rawBlock, ppc,
                 produced, sent, dataSent, fresh, lapped, status>>

(* if ( r->rawBlock[r->rp].fillLevel ): a nonzero fill level, including    *)
(* -1, is processed; an empty block is skipped.                            *)
ConsumerTake ==
  /\ Running
  /\ cpc = "take"
  /\ cpc' = IF rawBlock[rp].fill # 0 THEN "send" ELSE "advance"
  /\ UNCHANGED <<fileErrors, feeder, fileTerminate, wp, rp, rawBlock,
                 dataForClients, ppc, produced, sent, dataSent, fresh, lapped,
                 status>>

(* nwclientSend( _r.n, fillLevel, buffer ): the slot is read again here,   *)
(* so it is whatever the feeder has written there by now.                  *)
ConsumerSend ==
  /\ Running
  /\ cpc = "send"
  /\ sent' = Append(sent, rawBlock[rp])
  /\ dataSent' = IF rawBlock[rp].fill > 0 THEN Append(dataSent, rawBlock[rp])
                                          ELSE dataSent
  /\ cpc' = "advance"
  /\ UNCHANGED <<fileErrors, feeder, fileTerminate, wp, rp, rawBlock,
                 dataForClients, ppc, produced, fresh, lapped, status>>

(* r->rp = ( r->rp + 1 ) % NUM_RAW_BLOCKS.                                 *)
ConsumerAdvance ==
  /\ Running
  /\ cpc = "advance"
  /\ rp' = NextSlot(rp)
  /\ fresh' = [fresh EXCEPT ![rp] = FALSE]
  /\ cpc' = "wait"
  /\ UNCHANGED <<fileErrors, feeder, fileTerminate, wp, rawBlock,
                 dataForClients, ppc, produced, sent, dataSent, lapped, status>>

-----------------------------------------------------------------------------
Feeder ==
  \/ FeederConnect \/ FeederFatal
  \/ ReadData \/ UsbTimeout \/ ReadFail \/ FileEof \/ FileError
  \/ FeederAdvance \/ FeederUnlock

Consumer ==
  \/ ConsumerWait \/ ConsumerLock \/ ConsumerTake \/ ConsumerSend
  \/ ConsumerAdvance

Next == Feeder \/ Consumer

(* Both threads run on the CPU between blocking calls: the steps that do   *)
(* not wait on the outside world are weakly fair.  The reads and the       *)
(* source acquisition wait on the device, the server or the file and get   *)
(* no fairness: the source may stay silent.                                *)
Fairness ==
  /\ WF_vars(FeederAdvance)
  /\ WF_vars(FeederUnlock)
  /\ WF_vars(Consumer)

Spec == Init /\ [][Next]_vars /\ Fairness

-----------------------------------------------------------------------------
(* Type invariant.                                                         *)
TypeOK ==
  /\ feeder \in Feeders
  /\ fileTerminate \in BOOLEAN
  /\ wp \in Slots
  /\ rp \in Slots
  /\ rawBlock \in [Slots -> Block]
  /\ dataForClients \in {"locked", "unlocked"}
  /\ ppc \in {"connect", "read", "advance", "unlock"}
  /\ cpc \in {"wait", "lock", "take", "send", "advance"}
  /\ produced \in 0 .. MaxBlocks
  /\ fileErrors \in 0 .. MaxFileErrors
  /\ sent \in Seq(Block)
  /\ dataSent \in Seq(Block)
  /\ fresh \in [Slots -> BOOLEAN]
  /\ lapped \in BOOLEAN
  /\ status \in {"running", "fatalExit", "eofExit"}

(***************************************************************************)
(* Properties.                                                             *)
(***************************************************************************)

(* No lost wake-up in the mutex-as-signal protocol: whenever the           *)
(* distribution thread is blocked in pthread_mutex_lock while the ring     *)
(* holds a block (wp # rp), the feeder is about to unlock the mutex.       *)
WakeupPending ==
  (cpc = "lock" /\ dataForClients = "locked" /\ wp # rp) => ppc = "unlock"

(* The distribution thread never stays blocked on the mutex while the      *)
(* ring holds a block: it eventually leaves pthread_mutex_lock (or the     *)
(* process exits).                                                         *)
ConsumerWakes ==
  (cpc = "lock" /\ wp # rp) ~> (cpc # "lock" \/ ~Running)

(* Every block published with data is eventually handed to the sink or    *)
(* overwritten (spec section 8: every byte read is eventually delivered),  *)
(* however long the source stays silent afterwards.  The consumer's        *)
(* while ( r->wp == r->rp ) cannot tell a full ring from an empty one.     *)
BlocksEventuallySent ==
  \A s \in Slots :
    (fresh[s] /\ rawBlock[s].fill > 0) ~> (~fresh[s] \/ ~Running)

(* The distribution thread never runs ahead of the feeder: _processBlocks  *)
(* moves rp only past a slot the feeder has filled and published by its    *)
(* wp advance, because it re-tests while ( r->wp == r->rp ) after every    *)
(* wake-up on dataForClients.  This holds whether or not the feeder laps.  *)
ConsumerBehindFeeder ==
  [][rp' # rp => fresh[rp]]_vars

(* Pass-through is exact until the feeder laps the consumer: the data      *)
(* blocks handed to nwclientSend are the blocks read, in the order read,   *)
(* each once, with none skipped.                                           *)
PassThroughExact ==
  ~lapped => \A i \in 1 .. Len(dataSent) : dataSent[i].id = i

(* No block is handed to the sink twice (spec section 8: no byte is ever   *)
(* delivered twice).                                                       *)
NoDuplicateDelivery ==
  \A i, j \in 1 .. Len(dataSent) : i < j => dataSent[i].id # dataSent[j].id

(* nwclientSend is never given a negative length (fillLevel -1 from a      *)
(* failed read()).                                                         *)
NoNegativeSend ==
  \A i \in 1 .. Len(sent) : sent[i].fill >= 0

(* serialFeeder and seggerFeeder store read()'s -1 in fillLevel too, but   *)
(* go back to connect without advancing wp, so the block is never          *)
(* published: until the feeder laps the consumer, a device feeder never    *)
(* hands nwclientSend a negative length.  With a lap, the consumer can     *)
(* read the slot while the failed read rewrites it.                        *)
DeviceSendsNonNegative ==
  feeder # "fileFeeder" /\ ~lapped => NoNegativeSend

(* With -e, fileFeeder breaks out of its loop at end of file and main      *)
(* calls exit() at once; _doExit sets ending and shuts the sink down.      *)
(* Spec section 8, scenario 1, says the client then has received every     *)
(* byte of the file: when the process exits at end of file, every data     *)
(* block read has been handed to nwclientSend.                             *)
EofDeliversAll ==
  status = "eofExit" => Len(dataSent) = produced

=============================================================================
