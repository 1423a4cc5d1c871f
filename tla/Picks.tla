-------------------------------- MODULE Picks -------------------------------
(***************************************************************************)
(* The items at some positions of a sequence, in order: what a filter of   *)
(* the program keeps, without recursion.                                   *)
(***************************************************************************)
EXTENDS Naturals, Sequences, FiniteSets

\* The n-th of a set of positions.
Nth(S, n) == CHOOSE i \in S : Cardinality({j \in S : j < i}) = n - 1

Picked(s, P) == [n \in 1 .. Cardinality(P) |-> s[Nth(P, n)]]
=============================================================================
