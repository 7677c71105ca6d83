------------------------------- MODULE Retaining -------------------------------
(* Vec::retain: what is left of a sequence, in its order. *)
EXTENDS Naturals, Sequences, FiniteSets

\* Which of the places p is, counted from the lowest.
Rank(p, places) == Cardinality({q \in places : q <= p})

\* What stands at the places of s that are kept.
Retain(s, places) ==
  [k \in 1..Cardinality(places) |-> s[CHOOSE p \in places : Rank(p, places) = k]]
=============================================================================
