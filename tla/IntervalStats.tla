--------------------------- MODULE IntervalStats ---------------------------
(***************************************************************************)
(* The byte counter _r.intervalBytes of orbuculum.c, shared without a lock *)
(* by two threads.  _processBlocks adds the fillLevel of every non-empty   *)
(* block (r->intervalBytes += fillLevel: a load, then a store of the sum); *)
(* _checkInterval, started by main when -m is given, sleeps, reads the     *)
(* counter to compute the rate it prints, and then sets it to 0.  The      *)
(* counter is a uint64_t: the sum wraps modulo 2^64, here Modulus.  The    *)
(* rate is the count scaled by 8000 / intervalReportTime; the scaling and  *)
(* the printing are left out, the model reports the count.                 *)
(***************************************************************************)
EXTENDS Integers

CONSTANTS
  Fills,        \* the non-zero fill levels blocks may have (-1 on error)
  Modulus,      \* 2^64 for uint64_t
  MaxBlocks,    \* bound on the blocks the consumer accounts for
  MaxReports    \* bound on the reports

ASSUME IntervalStatsAssumption ==
  /\ Fills \subseteq Int \ {0}
  /\ Modulus \in Nat \ {0}
  /\ MaxBlocks \in Nat
  /\ MaxReports \in Nat

VARIABLES
  intervalBytes,  \* _r.intervalBytes
  cpc,            \* _processBlocks: "idle" or "store" (sum loaded)
  creg,           \* the sum the consumer is about to store
  cfill,          \* fillLevel of the block being accounted for
  rpc,            \* _checkInterval: "sleep", "read" or "clear"
  snap,           \* snapInterval, as a byte count
  received,       \* history: bytes of all blocks accounted for
  reported,       \* history: sum of all snapshots reported
  blocks,         \* number of blocks accounted for
  reports,        \* number of reports made
  raced           \* history: a load/store overlapped a read/clear

vars == <<intervalBytes, cpc, creg, cfill, rpc, snap, received, reported,
          blocks, reports, raced>>

(* A failed read() of the input file gives fillLevel -1, which adds no     *)
(* bytes.                                                                  *)
Bytes(f) == IF f > 0 THEN f ELSE 0

(* _r is zero-initialised.                                                 *)
Init ==
  /\ intervalBytes = 0
  /\ cpc = "idle"
  /\ creg = 0
  /\ cfill = 0
  /\ rpc = "sleep"
  /\ snap = 0
  /\ received = 0
  /\ reported = 0
  /\ blocks = 0
  /\ reports = 0
  /\ raced = FALSE

(* The consumer takes a block whose fillLevel is not 0 and loads the       *)
(* counter plus the fill level (ssize_t converted to uint64_t).            *)
ConsumerLoad ==
  /\ cpc = "idle"
  /\ blocks < MaxBlocks
  /\ \E f \in Fills :
       /\ creg' = (intervalBytes + f) % Modulus
       /\ cfill' = f
  /\ cpc' = "store"
  /\ raced' = (raced \/ rpc = "clear")
  /\ UNCHANGED <<intervalBytes, rpc, snap, received, reported, blocks,
                 reports>>

(* ... and stores the sum back.                                            *)
ConsumerStore ==
  /\ cpc = "store"
  /\ intervalBytes' = creg
  /\ received' = received + Bytes(cfill)
  /\ blocks' = blocks + 1
  /\ cpc' = "idle"
  /\ raced' = (raced \/ rpc = "clear")
  /\ UNCHANGED <<creg, cfill, rpc, snap, reported, reports>>

(* usleep( intervalReportTime * 1000 ) returns.                            *)
ReporterWake ==
  /\ rpc = "sleep"
  /\ reports < MaxReports
  /\ rpc' = "read"
  /\ UNCHANGED <<intervalBytes, cpc, creg, cfill, snap, received, reported,
                 blocks, reports, raced>>

(* Mutant: r->intervalBytes = 0 moved before the read.                    *)
ReporterReadAfterClear ==
  /\ rpc = "read"
  /\ snap' = 0
  /\ intervalBytes' = 0
  /\ rpc' = "clear"
  /\ raced' = (raced \/ cpc = "store")
  /\ UNCHANGED <<cpc, creg, cfill, received, reported, blocks, reports>>

(* snapInterval = r->intervalBytes * 1000 / intervalReportTime.            *)
ReporterRead ==
  /\ rpc = "read"
  /\ snap' = intervalBytes
  /\ rpc' = "clear"
  /\ raced' = (raced \/ cpc = "store")
  /\ UNCHANGED <<intervalBytes, cpc, creg, cfill, received, reported,
                 blocks, reports>>

(* r->intervalBytes = 0, then the rate is printed.                         *)
ReporterClear ==
  /\ rpc = "clear"
  /\ intervalBytes' = 0
  /\ reported' = reported + snap
  /\ reports' = reports + 1
  /\ rpc' = "sleep"
  /\ raced' = (raced \/ cpc = "store")
  /\ UNCHANGED <<cpc, creg, cfill, snap, received, blocks>>

Next ==
  \/ ConsumerLoad \/ ConsumerStore
  \/ ReporterWake \/ ReporterRead \/ ReporterClear

Spec == Init /\ [][Next]_vars

-----------------------------------------------------------------------------
(* The bytes counted but not yet reported: the snapshot about to be        *)
(* reported, or else the counter.                                          *)
Pending == IF rpc = "clear" THEN snap ELSE intervalBytes

(* The race on intervalBytes is the only source of error in the reported   *)
(* rate: as long as no consumer update has overlapped a report, every byte *)
(* received is reported once or still counted, none lost and none twice.  *)
AccountingExactUnlessRaced ==
  ~raced => reported + Pending = received

=============================================================================
