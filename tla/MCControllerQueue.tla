-------------------------- MODULE MCControllerQueue --------------------------
(* ControllerQueue with a few controllers, locks and resources. *)
EXTENDS ControllerQueue, TLC

CONSTANTS c1, c2, l1, l2, file, issue

TwoControllers == {c1, c2}
TwoLocks == {l1, l2}
TwoResources == {file, issue}
Symmetry == Permutations(TwoControllers) \cup Permutations(TwoLocks)
=============================================================================
