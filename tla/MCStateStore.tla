----------------------------- MODULE MCStateStore -----------------------------
(***************************************************************************)
(* Small instances of StateStore: two goroutines, since a third adds only  *)
(* one more holder of the lock, and up to three updates, so that a failed   *)
(* one lies between two that succeed.                                      *)
(***************************************************************************)
EXTENDS StateStore, TLC

CONSTANTS p1, p2

MCProcs == {p1, p2}

Crashes == {"io", "kill", "power"}
AnyFault == FaultKinds

Symmetry == Permutations(MCProcs)
=============================================================================
