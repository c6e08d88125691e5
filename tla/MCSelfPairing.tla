---------------------------- MODULE MCSelfPairing ----------------------------
(***************************************************************************)
(* A small instance of DevicePairing with the shell of SelfPairing: two    *)
(* requests at a time, three devices and tokens, so that two can revoke    *)
(* each other and a third can pair, which may be the shell.                *)
(***************************************************************************)
EXTENDS SelfPairing, TLC

CONSTANTS r1, r2

MCRequests == {r1, r2}
Symmetry == Permutations(MCRequests)
=============================================================================
