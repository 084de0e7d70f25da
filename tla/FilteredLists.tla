----------------------------- MODULE FilteredLists -----------------------------
(* Lists that keep some elements of another list, as filter and flatMap make  *)
(* them, and the cursors that walk them: with the set of the places kept.     *)
EXTENDS Integers, FiniteSets

\* How many of the places kept are not after i: the cursor when it is at i.
Rank(i, kept) == Cardinality({j \in kept : j <= i})

\* The k-th place kept.
Place(k, kept) == CHOOSE i \in kept : Rank(i, kept) = k
=============================================================================
