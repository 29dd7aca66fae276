---------------------------- MODULE MCJsonStore ----------------------------
(* The server and the CLI on a file with two keys.                         *)
EXTENDS JsonStore
=============================================================================
