------------------------------ MODULE MCLiveRun ------------------------------
(* LiveRun on small instances: one game with two signals, one per side. *)
EXTENDS LiveRunClaims, TLC

CONSTANTS g1, s1, s2, home, away

OneGame == {g1}
OneSignal == {s1}
GameOfOne == s1 :> g1
OutcomeOfOne == s1 :> home
TwoSignals == {s1, s2}
SameGame == (s1 :> g1) @@ (s2 :> g1)
TwoSides == (s1 :> home) @@ (s2 :> away)
=============================================================================
