----------------------------- MODULE MCForeground -----------------------------
(***************************************************************************)
(* A small instance of Foreground: two handlers, enough for every race     *)
(* between two requests; two sessions, so that one can be replaced and its *)
(* successor closed; and requests for a mode that does not exist.          *)
(***************************************************************************)
EXTENDS Foreground

CONSTANTS h1, h2, tv, server, nonsense

TwoHandlers == {h1, h2}
TwoModes == {tv, server}
Asked == TwoModes \cup {nonsense}
===============================================================================
