----------------------------- MODULE MCCounterRates -----------------------------
(*****************************************************************************)
(* TLC instances of CounterRates.  The read interval is 0 (disabled), one of *)
(* two lengths, or the invalid code 8.                                       *)
(*****************************************************************************)
EXTENDS CounterRates

OneInterval == {1}
TwoIntervals == {1, 2}
DisabledToo == {0, 1, 8}
AllIntervals == {0, 1, 2, 8}
=============================================================================
