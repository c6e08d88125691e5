----------------------------- MODULE MCCloudFiles -----------------------------
(* CloudFiles on a small instance. *)
EXTENDS CloudFiles, TLC

CONSTANTS h1, h2, u1, u2, t1, t2, f1, f2

TwoHandlers == {h1, h2}
TwoUsers == {u1, u2}
TwoTokens == {t1, t2}
TwoFiles == {f1, f2}

Symmetry ==
    Permutations(TwoHandlers) \cup Permutations(TwoUsers)
        \cup Permutations(TwoTokens) \cup Permutations(TwoFiles)
===============================================================================
