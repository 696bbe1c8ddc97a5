--------------------------- MODULE MCThreadWindow ---------------------------
(***************************************************************************)
(* An instance of ThreadWindow for TLC: two addresses on web servers and   *)
(* one on an ftp server, and every log of a thread whose last response is  *)
(* one more than an anchor can name.                                       *)
(***************************************************************************)
EXTENDS ThreadWindow

CONSTANTS h1, h2, f

ThreadLogs == {NoLog, <<ErrorLine>>} \cup {[i \in 1 .. n |-> i] : n \in 0 .. MaxRes + 1}
=============================================================================
