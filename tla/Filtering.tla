------------------------------ MODULE Filtering ------------------------------
(* What a loop that erases items, or appends those it keeps, leaves of a   *)
(* list.                                                                   *)
EXTENDS Naturals, FiniteSets, Sequences

\* The n-th position of K, counted from the left.
Nth(K, n) == CHOOSE i \in K : Cardinality({j \in K : j <= i}) = n

\* The elements of q at the positions K, in their order.
Kept(q, K) == [n \in 1 .. Cardinality(K) |-> q[Nth(K, n)]]

=============================================================================
