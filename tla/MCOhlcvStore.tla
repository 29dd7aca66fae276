---------------------------- MODULE MCOhlcvStore ----------------------------
(***************************************************************************)
(* The server with one thread that loads and one that cleans and deletes,  *)
(* and a command-line process that saves: one ticker in two intervals, two *)
(* days, room for one cache entry.                                         *)
(***************************************************************************)
EXTENDS OhlcvStore

CONSTANTS server, cli, s1, s2, c1

MCProc == {server, cli}
MCThread == {s1, s2, c1}
MCProcOf == [t \in MCThread |-> IF t = c1 THEN cli ELSE server]
MCInterval == 1 .. 2
MCDay == 1 .. 2
=============================================================================
