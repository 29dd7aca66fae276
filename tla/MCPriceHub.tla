----------------------------- MODULE MCPriceHub -----------------------------
(* PriceHub with two sockets: s1 follows A only, s2 follows A or B.        *)
EXTENDS PriceHub

CONSTANTS s1, s2, A, B

MCSocket == {s1, s2}
MCTicker == {A, B}
MCInterest == [s \in MCSocket |-> IF s = s1 THEN {A} ELSE {A, B}]
=============================================================================
