-------------------------------- MODULE Sorting --------------------------------
(***************************************************************************)
(* The elements of a finite set in a strict total order, and the elements  *)
(* of a sequence at some of its places. SequencesExt's SetToSortSeq tries  *)
(* every sequence, this picks each place by its rank.                      *)
(***************************************************************************)
EXTENDS Integers, FiniteSets

(* The members of S in the order R, a set of pairs <<earlier, later>>.     *)
Sorted(S, R) ==
  [i \in 1..Cardinality(S) |->
    CHOOSE x \in S : Cardinality({y \in S : <<y, x>> \in R}) = i - 1]

Ascending(places) == Sorted(places, {p \in places \X places : p[1] < p[2]})

(* The elements of s at a set of places, in the order they have in s.      *)
Picked(s, places) ==
  LET order == Ascending(places)
  IN [k \in 1..Cardinality(places) |-> s[order[k]]]
=============================================================================
