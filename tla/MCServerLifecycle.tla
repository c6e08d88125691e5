-------------------------- MODULE MCServerLifecycle --------------------------
(***************************************************************************)
(* Small instances of ServerLifecycle: two HTTP goroutines, two stop       *)
(* sequences (enough for one to outlive another), a ping that reports an   *)
(* empty server or one with a player.                                      *)
(***************************************************************************)
EXTENDS ServerLifecycle, TLC

CONSTANTS c1, c2, s1, s2

MCCallers == {c1, c2}
MCSeqs == {s1, s2}
MCCounts == {0, 1}

OneCaller == {c1}

\* What surrounds the Manager in each run.
Quiet == {}
Crashes == {"crash"}
Everything == Events

Symmetry == Permutations(MCCallers) \cup Permutations(MCSeqs)
=============================================================================
