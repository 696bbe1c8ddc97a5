----------------------------- MODULE Selection -----------------------------
(***************************************************************************)
(* What a loop over a sequence collects from the places it does not skip.  *)
(* The standard SelectSeq says the same; this one says it by rank, so that *)
(* it can be reasoned about.                                               *)
(***************************************************************************)
EXTENDS Naturals, FiniteSets

(* The members of a finite set of numbers up to one of them.               *)
UpTo(S, i) == {j \in S : j <= i}

(* These numbers in order.                                                 *)
Ascending(S) ==
  [n \in 1 .. Cardinality(S) |-> CHOOSE i \in S : Cardinality(UpTo(S, i)) = n]

(* The elements of a sequence that stand at these places, in order.        *)
Picked(s, places) ==
  LET order == Ascending(places)
  IN  [n \in 1 .. Cardinality(places) |-> s[order[n]]]
=============================================================================
