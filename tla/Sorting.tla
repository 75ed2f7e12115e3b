------------------------------ MODULE Sorting --------------------------------
(***************************************************************************)
(* How the program sorts: by value.  What is equal stays in its order, as  *)
(* Python's sorted leaves it; where the values alone count, as in the      *)
(* quantile and the medians, the order of the equal ones does not matter.  *)
(***************************************************************************)
EXTENDS Integers, Sequences, FiniteSets

\* The positions of s up to p in its order, p included.
UpTo(s, p) == {q \in DOMAIN s : s[q] < s[p] \/ (s[q] = s[p] /\ q <= p)}

\* The positions of s, that of its smallest value first.
InOrder(s) == [r \in DOMAIN s |-> CHOOSE p \in DOMAIN s : Cardinality(UpTo(s, p)) = r]

Sorted(s) == [r \in DOMAIN s |-> s[InOrder(s)[r]]]

\* Twice the median of a sequence of numbers, as the mean of the middle two is a half.
TwiceMedian(s) == Sorted(s)[(Len(s) + 1) \div 2] + Sorted(s)[Len(s) \div 2 + 1]
=============================================================================
