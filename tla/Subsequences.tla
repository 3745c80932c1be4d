------------------------------ MODULE Subsequences ------------------------------
(***************************************************************************)
(* What a filter leaves of a sequence (retain and filter of the sources):  *)
(* the elements at a set of its indexes, in their order.  SelectSeq says   *)
(* the same by recursion; here an element is found by its rank, so that    *)
(* Subsequences_proofs can say what a filter keeps for every sequence.     *)
(***************************************************************************)
EXTENDS Naturals, Sequences, FiniteSets

\* The place of index i among the indexes I.
Rank(I, i) == Cardinality({j \in I : j <= i})

\* The n-th of the indexes I.
Nth(I, n) == CHOOSE i \in I : Rank(I, i) = n

Subsequence(q, I) == [n \in 1..Cardinality(I) |-> q[Nth(I, n)]]

===============================================================================
