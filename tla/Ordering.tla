------------------------------ MODULE Ordering ------------------------------
(***************************************************************************)
(* A finite set in order, as the sorts of the code leave their slices.     *)
(***************************************************************************)
EXTENDS Integers, FiniteSets

\* The elements of S as a sequence in the order R, a set of pairs that orders S strictly
\* and totally: each has its place behind those that come before it.
InOrder(S, R) ==
    [i \in 1 .. Cardinality(S) |-> CHOOSE x \in S : Cardinality({y \in S : <<y, x>> \in R}) = i - 1]
=============================================================================
