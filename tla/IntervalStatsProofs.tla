------------------------ MODULE IntervalStatsProofs ------------------------
(***************************************************************************)
(* Proofs about IntervalStats for every counter width and every bound.     *)
(***************************************************************************)
EXTENDS IntervalStats, TLAPS

(* The inductive invariant, for blocks of at most F bytes (no failed       *)
(* reads), in three parts.  The types; bounds on the counter and the       *)
(* snapshot by the bytes received, so that the sum never reaches Modulus;  *)
(* and what the two threads hold while no update has overlapped a report:  *)
(* the consumer's loaded sum is the counter plus its block and no report   *)
(* is between its read and its clear, and a snapshot read equals the       *)
(* counter.                                                                *)
TypeInv ==
  /\ intervalBytes \in Nat
  /\ creg \in Nat
  /\ cfill \in Nat
  /\ snap \in Nat
  /\ received \in Nat
  /\ reported \in Nat
  /\ blocks \in 0 .. MaxBlocks
  /\ reports \in Nat
  /\ cpc \in {"idle", "store"}
  /\ rpc \in {"sleep", "read", "clear"}

CountBound(F) ==
  /\ received <= blocks * F
  /\ intervalBytes <= received
  /\ snap <= received
  /\ cpc = "store" => /\ cfill \in Fills
                      /\ blocks < MaxBlocks
                      /\ creg <= received + cfill

NoRaceInv ==
  ~raced => /\ reported + Pending = received
            /\ cpc = "store" => /\ creg = intervalBytes + cfill
                                /\ rpc # "clear"
            /\ rpc = "clear" => snap = intervalBytes

IInv(F) == TypeInv /\ CountBound(F) /\ NoRaceInv

(* Every block the producer hands over holds 1 to F bytes (no read         *)
(* fails), and MaxBlocks such blocks cannot overflow the counter.          *)
NoOverflow(F) == Fills \subseteq 1 .. F /\ MaxBlocks * F < Modulus

(* A block the consumer may still take keeps the count below Modulus.      *)
LEMMA NoWrap ==
  ASSUME NEW F \in Nat, NEW b \in 0 .. MaxBlocks - 1, NEW x \in Nat,
         NEW f \in 1 .. F,
         MaxBlocks * F < Modulus, x <= b * F
  PROVE  (x + f) % Modulus = x + f
<1>1. (b + 1) * F <= MaxBlocks * F
  BY IntervalStatsAssumption
<1>2. (b + 1) * F = b * F + F
  OBVIOUS
<1>3. x + f < Modulus
  <2>1. x + f <= b * F + F
    OBVIOUS
  <2>2. b * F + F < Modulus
    BY <1>1, <1>2, IntervalStatsAssumption
  <2>3. QED
    BY <2>1, <2>2, IntervalStatsAssumption
<1>4. QED
  BY <1>3, IntervalStatsAssumption

(* The race on intervalBytes is the only source of error in the reported   *)
(* rate: for every counter width that the byte count cannot overflow,      *)
(* while no load/store of _processBlocks has overlapped a read/clear of    *)
(* _checkInterval, every byte received is reported once or still counted.  *)
THEOREM AccountingExact ==
  ASSUME NEW F \in Nat, NoOverflow(F)
  PROVE  Spec => []AccountingExactUnlessRaced
<1>1. Init => IInv(F)
  <2> SUFFICES ASSUME Init PROVE IInv(F)
    OBVIOUS
  <2>1. TypeInv
    BY IntervalStatsAssumption DEF Init, TypeInv
  <2>2. CountBound(F)
    BY DEF Init, CountBound
  <2>3. NoRaceInv
    BY DEF Init, NoRaceInv, Pending
  <2>4. QED
    BY <2>1, <2>2, <2>3 DEF IInv
<1>2. IInv(F) /\ [Next]_vars => IInv(F)'
  <2> SUFFICES ASSUME TypeInv, CountBound(F), NoRaceInv, [Next]_vars
               PROVE  TypeInv' /\ CountBound(F)' /\ NoRaceInv'
    BY DEF IInv
  <2>1. CASE ConsumerLoad
    <3>1. PICK f \in Fills : creg' = (intervalBytes + f) % Modulus
                             /\ cfill' = f
      BY <2>1 DEF ConsumerLoad
    <3>2. f \in 1 .. F
      BY DEF NoOverflow
    <3>3. blocks \in 0 .. MaxBlocks - 1
      BY <2>1, IntervalStatsAssumption DEF ConsumerLoad, TypeInv
    <3>4. intervalBytes \in Nat /\ intervalBytes <= blocks * F
      BY DEF TypeInv, CountBound
    <3>5. creg' = intervalBytes + f
      BY <3>1, <3>2, <3>3, <3>4, NoWrap DEF NoOverflow
    <3>6. TypeInv'
      BY <2>1, <3>1, <3>2, <3>4, <3>5 DEF ConsumerLoad, TypeInv
    <3>7. CountBound(F)'
      BY <2>1, <3>1, <3>2, <3>3, <3>5 DEF ConsumerLoad, TypeInv, CountBound
    <3>8. NoRaceInv'
      BY <2>1, <3>1, <3>5 DEF ConsumerLoad, NoRaceInv, Pending
    <3>9. QED
      BY <3>6, <3>7, <3>8
  <2>2. CASE ConsumerStore
    <3>1. cpc = "store" /\ cfill \in 1 .. F /\ blocks < MaxBlocks
      BY <2>2 DEF ConsumerStore, CountBound, NoOverflow
    <3>2. Bytes(cfill) = cfill
      BY <3>1 DEF Bytes
    <3>3. received + cfill <= blocks * F + F
      BY <3>1 DEF TypeInv, CountBound
    <3>4. blocks * F + F = (blocks + 1) * F
      BY DEF TypeInv
    <3>5. /\ intervalBytes' = creg
          /\ received' = received + cfill
          /\ blocks' = blocks + 1
          /\ cpc' = "idle"
          /\ creg' = creg /\ cfill' = cfill /\ rpc' = rpc /\ snap' = snap
          /\ reported' = reported /\ reports' = reports
      BY <2>2, <3>2 DEF ConsumerStore
    <3>6. TypeInv'
      BY <3>1, <3>5, IntervalStatsAssumption DEF TypeInv
    <3>7. CountBound(F)'
      BY <3>1, <3>3, <3>4, <3>5 DEF TypeInv, CountBound
    <3>8. NoRaceInv'
      <4>1. raced' = (raced \/ rpc = "clear")
        BY <2>2 DEF ConsumerStore
      <4>2. CASE raced'
        BY <4>2 DEF NoRaceInv
      <4>3. CASE ~raced'
        <5>1. ~raced /\ rpc # "clear"
          BY <4>1, <4>3, Zenon
        <5>2. reported + intervalBytes = received /\ creg = intervalBytes + cfill
          BY <3>1, <5>1 DEF NoRaceInv, Pending
        <5>3. reported' + Pending' = received'
          BY <3>5, <5>1, <5>2 DEF Pending, TypeInv
        <5>4. QED
          BY <3>5, <5>1, <5>3 DEF NoRaceInv
      <4>4. QED
        BY <4>2, <4>3
    <3>9. QED
      BY <3>6, <3>7, <3>8
  <2>3. CASE ReporterWake
    BY <2>3 DEF ReporterWake, TypeInv, CountBound, NoRaceInv, Pending
  <2>4. CASE ReporterRead
    <3>1. TypeInv' /\ CountBound(F)'
      BY <2>4 DEF ReporterRead, TypeInv, CountBound
    <3>2. NoRaceInv'
      BY <2>4 DEF ReporterRead, TypeInv, NoRaceInv, Pending
    <3>3. QED
      BY <3>1, <3>2
  <2>5. CASE ReporterClear
    <3>1. TypeInv' /\ CountBound(F)'
      BY <2>5 DEF ReporterClear, TypeInv, CountBound
    <3>2. NoRaceInv'
      <4>1. raced' = (raced \/ cpc = "store")
        BY <2>5 DEF ReporterClear
      <4>2. CASE raced'
        BY <4>2 DEF NoRaceInv
      <4>3. CASE ~raced'
        <5>1. ~raced /\ cpc # "store"
          BY <4>1, <4>3, Zenon
        <5>2. reported + snap = received
          BY <2>5, <5>1 DEF ReporterClear, NoRaceInv, Pending
        <5>3. reported' + Pending' = received'
          BY <2>5, <5>2 DEF ReporterClear, Pending, TypeInv
        <5>4. QED
          BY <2>5, <5>1, <5>3, Zenon DEF ReporterClear, NoRaceInv
      <4>4. QED
        BY <4>2, <4>3
    <3>3. QED
      BY <3>1, <3>2
  <2>6. CASE UNCHANGED vars
    BY <2>6 DEF vars, TypeInv, CountBound, NoRaceInv, Pending
  <2>7. QED
    BY <2>1, <2>2, <2>3, <2>4, <2>5, <2>6 DEF Next
<1>3. IInv(F) => AccountingExactUnlessRaced
  BY DEF IInv, NoRaceInv, AccountingExactUnlessRaced
<1>4. QED
  BY <1>1, <1>2, <1>3, PTL DEF Spec

=============================================================================
