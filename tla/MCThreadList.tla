---------------------------- MODULE MCThreadList ----------------------------
(***************************************************************************)
(* An instance of ThreadList for TLC.  The first board gets a new thread   *)
(* while the old one grows by two; then the old one is gone and the new    *)
(* one is full.  The second board is empty: what it is there for is that   *)
(* its tab is updated, closed and restored beside the first one's.         *)
(***************************************************************************)
EXTENDS ThreadList

CONSTANTS a, b, ta, tb

Home == [t \in {ta, tb} |-> a]

L(na, nb) == [t \in {ta, tb} |-> IF t = ta THEN na ELSE nb]

Lists == [board \in {a, b} |->
            IF board = a THEN <<L(1, 0), L(3, 1), L(0, 4)>> ELSE <<L(0, 0)>>]
=============================================================================
