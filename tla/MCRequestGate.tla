--------------------------- MODULE MCRequestGate ---------------------------
(* Two clients, two requests per window of three ticks, two windows and more. *)
EXTENDS RequestGate

CONSTANTS c1, c2
=============================================================================
