----------------------------- MODULE DurableState -----------------------------
(***************************************************************************)
(* What state.Store promises: one version on disk, one that readers see,   *)
(* and the newest one whose update was acknowledged.  An update reaches    *)
(* the disk in one step and the readers in another.  A restart may lose    *)
(* what nobody acknowledged, and nothing else.                             *)
(***************************************************************************)
EXTENDS Naturals

CONSTANT Fresh  \* the version an appliance without a state file starts from

VARIABLES
    stored,  \* what a restart would load
    seen,    \* what readers are shown
    acked    \* the newest version reported as saved

Init ==
    /\ stored = Fresh
    /\ seen = Fresh
    /\ acked = Fresh

\* A newer version takes the place of the one that everybody sees.
Persist ==
    /\ stored = seen
    /\ stored' \in {v \in Nat : v > stored}
    /\ UNCHANGED <<seen, acked>>

\* The update is acknowledged.
Publish ==
    /\ seen' = stored
    /\ acked' = stored
    /\ UNCHANGED stored

\* The process or the machine fails and comes back.
Restart ==
    /\ stored' \in acked..stored
    /\ seen' = stored'
    /\ UNCHANGED acked

Next == Persist \/ Publish \/ Restart

Spec == Init /\ [][Next]_<<stored, seen, acked>>
=============================================================================
