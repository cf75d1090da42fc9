------------------------- MODULE MCLiveStrategyWorker -------------------------
(* LiveStrategyWorker with two callers and a few loop threads. *)
EXTENDS LiveStrategyWorker

CONSTANTS c1, c2, t1, t2, t3

TwoCallers == {c1, c2}
TwoThreads == {t1, t2}
ThreeThreads == {t1, t2, t3}
=============================================================================
