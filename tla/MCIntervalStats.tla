-------------------------- MODULE MCIntervalStats --------------------------
(* Model-checking instance of IntervalStats: a counter of 8 bits, which    *)
(* wraps like the uint64_t does, three blocks and two reports.             *)
EXTENDS IntervalStats

MCModulus == 256
MCDataFills == {1, 2}
MCMaxBlocks == 3
MCMaxReports == 2

=============================================================================
