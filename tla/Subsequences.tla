---------------------------- MODULE Subsequences ----------------------------
(* What is left of a list or an ordered dictionary when a pass over it keeps *)
(* some entries and drops the others: those at the places I, in their order. *)
(* Without recursion and without an operator for an argument, so that it can *)
(* be reasoned about.                                                        *)
EXTENDS Integers, Sequences, FiniteSets

Subsequence(s, I) ==
  LET Rank(i) == Cardinality({j \in I : j <= i})
  IN  [k \in 1..Cardinality(I) |-> s[CHOOSE i \in I : Rank(i) = k]]
=============================================================================
