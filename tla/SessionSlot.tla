------------------------------ MODULE SessionSlot ------------------------------
(***************************************************************************)
(* What apps.Manager promises about the foreground: one slot, one attempt  *)
(* to fill it at a time.  A session enters an empty slot and leaves it     *)
(* before another one enters; one that left, or never arrived, does not    *)
(* come back.                                                              *)
(***************************************************************************)
EXTENDS Naturals

VARIABLES
    slot,     \* the foreground session, 0 when there is none
    attempt,  \* the session being launched, 0 when there is none
    count     \* sessions numbered so far

Init ==
    /\ slot = 0
    /\ attempt = 0
    /\ count = 0

\* A launch begins, whatever is in the slot.
Try ==
    /\ attempt = 0
    /\ attempt' = count + 1
    /\ count' = count + 1
    /\ UNCHANGED slot

Enter ==
    /\ attempt # 0
    /\ slot = 0
    /\ slot' = attempt
    /\ attempt' = 0
    /\ UNCHANGED count

GiveUp ==
    /\ attempt # 0
    /\ attempt' = 0
    /\ UNCHANGED <<slot, count>>

Leave ==
    /\ slot # 0
    /\ slot' = 0
    /\ UNCHANGED <<attempt, count>>

Next == Try \/ Enter \/ GiveUp \/ Leave

Spec == Init /\ [][Next]_<<slot, attempt, count>>
================================================================================
