---------------------------- MODULE ThreadMirror ----------------------------
(***************************************************************************)
(* What the log of a thread promises its reader, without files, requests   *)
(* and answers: it shows a beginning of the thread.  Until a whole answer  *)
(* has been kept any beginning may replace what is shown; from then on the *)
(* beginning only grows.  Of a thread the server has dropped it may show   *)
(* an error page instead, if nothing has been kept before.                 *)
(***************************************************************************)
EXTENDS Naturals, Sequences

CONSTANTS MaxPosts, Absent

VARIABLES
  posted,   (* responses of the thread                                     *)
  life,     (* main, dropped or kako                                       *)
  shown,    (* what the reader sees                                        *)
  kept      (* a whole answer has been kept                                *)

vars == <<posted, life, shown, kept>>

Full(n) == [i \in 1 .. n |-> i]
Pages   == {<<>>, <<0>>}

Init ==
  /\ posted \in 1 .. MaxPosts /\ life = "main"
  /\ shown = Absent /\ kept = FALSE

Post ==
  /\ life = "main" /\ posted < MaxPosts
  /\ posted' = posted + 1
  /\ UNCHANGED <<life, shown, kept>>

Drop ==
  /\ \/ life = "main" /\ life' = "dropped"
     \/ life = "dropped" /\ life' = "kako"
  /\ UNCHANGED <<posted, shown, kept>>

(* The first call, and every call until one has succeeded.                 *)
Load ==
  /\ ~kept /\ kept' \in BOOLEAN
  /\ shown' \in {Full(n) : n \in 0 .. posted} \cup IF life = "main" THEN {} ELSE Pages
  /\ UNCHANGED <<posted, life>>

(* Every later call; an error page gives way to the thread in the archive. *)
Refresh ==
  /\ kept /\ UNCHANGED kept
  /\ shown' \in {Full(n) : n \in Len(shown) .. posted}
  /\ UNCHANGED <<posted, life>>

Next == Post \/ Drop \/ Load \/ Refresh

Spec == Init /\ [][Next]_vars
=============================================================================
