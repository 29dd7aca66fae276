----------------------------- MODULE Selection -----------------------------
(***************************************************************************)
(* What is left of a sequence at some of its positions.  By the rank of    *)
(* each position, for the provers know nothing of SelectSeq.               *)
(***************************************************************************)
EXTENDS Integers, Sequences, FiniteSets

\* The elements of seq at the positions of S, in order.
Selected(seq, S) ==
    LET nth(k) == CHOOSE i \in S : Cardinality({j \in S : j <= i}) = k
    IN  [k \in 1 .. Cardinality(S) |-> seq[nth(k)]]

\* seq less the elements of S.
Without(seq, S) == Selected(seq, {i \in DOMAIN seq : seq[i] \notin S})
=============================================================================
