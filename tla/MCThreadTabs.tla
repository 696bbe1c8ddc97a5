---------------------------- MODULE MCThreadTabs ----------------------------
(***************************************************************************)
(* Instances of ThreadTabs for TLC: the threads and what the user does.    *)
(***************************************************************************)
EXTENDS ThreadTabs, TLC

CONSTANTS a, b

OwnTitle == [t \in Threads |-> t]

(* Threads and titles are interchangeable where every thread has its own.  *)
Interchangeable == Permutations(Threads)

(* Several tabs of a thread, closed in every way.                          *)
ManyTabs == {"bulkClose", "middleClick", "duplicates"}

(* One tab per thread, closed one at a time, reply windows, logs deleted   *)
(* and kills.                                                              *)
OneByOne == {"reply", "deleteLog", "kill"}

(* The menu entries that close several tabs at once.                       *)
Bulks == {"bulkClose"}

(* Reply windows and nothing else.                                         *)
Replies == {"reply"}
=============================================================================
