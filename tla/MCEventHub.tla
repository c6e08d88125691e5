------------------------------ MODULE MCEventHub ------------------------------
(***************************************************************************)
(* A small instance of EventHub: two clients, so that one can harm the     *)
(* other; the first may break and the second fall silent.  One publisher   *)
(* is enough, as the heartbeat goes through the clients beside it.         *)
(***************************************************************************)
EXTENDS EventHub

CONSTANTS c1, c2, p1

TwoClients == {c1, c2}
FirstBreaks == {c1}
SecondSilent == {c2}
OnePublisher == {p1}
===============================================================================
