---------------------------- MODULE MCThreadLog ----------------------------
(***************************************************************************)
(* Instances of ThreadLog for TLC: which faults the environment injects.   *)
(***************************************************************************)
EXTENDS ThreadLog

(* Everything that can go wrong, in any order.                             *)
AllFaults == FaultKinds

(* Connections that break, nothing else: the ordinary life of a log.       *)
BrokenConnections == {"timeout"}

(* The application is killed during a call.                                *)
Kills == {"crash"}
=============================================================================
