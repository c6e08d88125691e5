---------------------------- MODULE MCInputControl ----------------------------
(***************************************************************************)
(* A small instance of InputControl: two connections, the second of which  *)
(* may stall, and a queue of one message, which one malformed input fills, *)
(* so that it can be full when control is taken.                           *)
(***************************************************************************)
EXTENDS InputControl

CONSTANTS c1, c2

TwoConns == {c1, c2}
SecondStalls == {c2}
=============================================================================
