----------------------------- MODULE Subsequence ----------------------------
(* What a loop over a list does to some of its elements, in their order. *)
EXTENDS Naturals, Sequences, FiniteSets

\* The numbers in I from the smallest to the largest: a set of one sequence.
Ascending(I) ==
  {f \in [1..Cardinality(I) -> I] : \A k, l \in DOMAIN f : k < l => f[k] < f[l]}

\* What s has at the indices I, in the order of the indices.
Picked(s, I) == CHOOSE t \in {[k \in DOMAIN f |-> s[f[k]]] : f \in Ascending(I)} : TRUE
=============================================================================
