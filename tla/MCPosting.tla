----------------------------- MODULE MCPosting -----------------------------
(***************************************************************************)
(* Instances of Posting for TLC.                                           *)
(***************************************************************************)
EXTENDS Posting

CONSTANTS m1, m2

(* All that can go wrong.                                                  *)
AnyFault == FaultKinds
=============================================================================
