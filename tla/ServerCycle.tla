------------------------------ MODULE ServerCycle ------------------------------
(***************************************************************************)
(* What servers.Manager promises its clients about one server: it is       *)
(* claimed when it is down, launched once for each claim, and counts as    *)
(* stopped only when it is down again.                                     *)
(***************************************************************************)

CONSTANT Callers

VARIABLES
    phase,     \* what the server counts as
    claimed,   \* who has claimed it and not yet launched it
    launched,  \* who has launched it and not yet said so
    on         \* it runs, or is about to

vars == <<phase, claimed, launched, on>>

Init ==
    /\ phase \in {"stopped", "running"}
    /\ claimed = {}
    /\ launched = {}
    /\ on = (phase = "running")

Claim(c) ==
    /\ phase = "stopped"
    /\ claimed \cup launched = {}
    /\ phase' = "starting"
    /\ claimed' = {c}
    /\ UNCHANGED <<launched, on>>

\* Nothing is launched that runs already.
Launch ==
    /\ claimed # {}
    /\ ~on
    /\ launched' = claimed
    /\ claimed' = {}
    /\ on' = TRUE
    /\ UNCHANGED phase

\* The start is over; a stop that came meanwhile goes on.
Report ==
    /\ launched # {}
    /\ launched' = {}
    /\ \/ phase = "starting" /\ phase' = "running"
       \/ phase = "stopping" /\ UNCHANGED phase
    /\ UNCHANGED <<claimed, on>>

AskToStop ==
    /\ phase \in {"starting", "running"}
    /\ phase' = "stopping"
    /\ UNCHANGED <<claimed, launched, on>>

\* It ends, by itself or because it was told to.
Die ==
    /\ on
    /\ on' = FALSE
    /\ UNCHANGED <<phase, claimed, launched>>

Confirm ==
    /\ phase = "stopping"
    /\ ~on
    /\ claimed \cup launched = {}
    /\ phase' = "stopped"
    /\ UNCHANGED <<claimed, launched, on>>

\* The stop failed or took too long.
GiveUp ==
    /\ phase = "stopping"
    /\ claimed \cup launched = {}
    /\ phase' = "running"
    /\ UNCHANGED <<claimed, launched, on>>

Next ==
    \/ \E c \in Callers : Claim(c)
    \/ Launch \/ Report \/ AskToStop \/ Die \/ Confirm \/ GiveUp

Spec == Init /\ [][Next]_vars
================================================================================
