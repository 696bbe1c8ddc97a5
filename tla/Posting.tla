------------------------------ MODULE Posting ------------------------------
(***************************************************************************)
(* Posting a reply (classes ResponseWindow and SocketCommunication).  The  *)
(* first post gets a page with the terms of 2ch, a cookie and a hidden     *)
(* item; a second one carries both back and is accepted.  What answers     *)
(* have left in the property file decides which kind of post a click       *)
(* makes.                                                                  *)
(*                                                                         *)
(* curl blocks the GUI thread: one post runs at a time, and only the       *)
(* network, the server or the end of the process come between its steps.   *)
(* A cookie or hidden item is the version of the terms it was issued with, *)
(* 0 if it is missing.  The HAP cookie, kept beside PON, and the login to  *)
(* BE are left out; the reload that follows a post is in ThreadTabs.       *)
(***************************************************************************)
EXTENDS Naturals

CONSTANTS
  Messages,     (* each is written, and posted until accepted, in a window *)
  Faults,       (* what may go wrong                                       *)
  MaxFaults,    (* bound: how often                                        *)
  MaxTerms      (* bound: versions of the terms                            *)

(* refused  no connection              broken  the transfer ends early     *)
(* error    an error page              rotate  the server has new terms    *)
(* kill     the process ends during a post                                 *)
FaultKinds == {"refused", "broken", "error", "rotate", "kill"}

ASSUME FaultsAssumption == Faults \subseteq FaultKinds
ASSUME BoundsAssumption == MaxFaults \in Nat /\ MaxTerms \in Nat \ {0}

VARIABLES
  hiddenName, hiddenVal, cookiePon,  (* HiddenName, HiddenValue, Cookie-PON *)
  pren,         (* the entry PREN is not empty                             *)
  post,         (* the post that is running                                *)
  preview,      (* what the user has seen of the answer to a message       *)
  terms,        (* server: version of the terms in force                   *)
  accepted,     (* server: how often each message was accepted             *)
  seen,         (* history: versions of the terms that were displayed      *)
  unshown,      (* history: those a kill kept from being displayed         *)
  lost,         (* history: acceptances of a message the user was not told *)
  faults        (* faults so far                                           *)

properties == <<hiddenName, hiddenVal, cookiePon, pren>>
server     == <<terms, accepted>>
history    == <<seen, unshown, lost, faults>>
vars       == <<properties, post, preview, server, history>>

Versions == 0 .. MaxTerms
Bodies   == {"none", "cut", "error", "terms", "accepted"}
Steps    == {"idle", "sent", "header", "body", "name", "value", "show"}
Kinds    == {"NO_COOKIE", "HAS_COOKIE_HIDDEN", "HAS_PREN"}
Posts    == [pc : Steps, kind : Kinds, msg : Messages, token : Versions \X Versions \X Versions,
             body : Bodies, version : Versions]

TypeOK ==
  /\ hiddenName \in Versions /\ hiddenVal \in Versions /\ cookiePon \in Versions
  /\ pren \in BOOLEAN
  /\ post \in Posts /\ (post.pc = "idle" => post.body = "none")
  /\ post.body \in {"terms", "accepted"} => post.version # 0
  /\ preview \in [Messages -> Bodies]
  /\ terms \in 1 .. MaxTerms
  /\ accepted \in [Messages -> Nat] /\ lost \in [Messages -> Nat]
  /\ seen \in SUBSET (1 .. MaxTerms) /\ unshown \in SUBSET (1 .. MaxTerms)
  /\ faults \in 0 .. MaxFaults

NoPost(m) == [pc |-> "idle", kind |-> "NO_COOKIE", msg |-> m, token |-> <<0, 0, 0>>,
              body |-> "none", version |-> 0]

Init ==
  /\ hiddenName = 0 /\ hiddenVal = 0 /\ cookiePon = 0 /\ pren = FALSE
  /\ post \in {NoPost(m) : m \in Messages}
  /\ preview = [m \in Messages |-> "none"]
  /\ terms = 1 /\ accepted = [m \in Messages |-> 0]
  /\ seen = {} /\ unshown = {} /\ lost = [m \in Messages |-> 0] /\ faults = 0

Goto(step) == post' = [post EXCEPT !.pc = step]

Fault(kind) ==
  /\ kind \in Faults
  /\ faults < MaxFaults
  /\ faults' = faults + 1

(***************************************************************************)
(* The click                                                               *)
(***************************************************************************)
(* Mutant: the hidden item is not looked at.                               *)
CheckCookiePonOnly ==
  IF cookiePon = 0 THEN "NO_COOKIE" ELSE IF pren THEN "HAS_PREN" ELSE "HAS_COOKIE_HIDDEN"

CheckCookie ==
  IF hiddenName = 0 \/ hiddenVal = 0 \/ cookiePon = 0 THEN "NO_COOKIE"
  ELSE IF pren THEN "HAS_PREN" ELSE "HAS_COOKIE_HIDDEN"

(* PREN is read but never sent.                                            *)
AssembleCookie == <<cookiePon, hiddenName, hiddenVal>>

(* The user clicks until told that the message was accepted.  (With an     *)
(* empty text, or no board, PostConfirm returns and nothing happens.)      *)
OnPostResponse(m) ==
  /\ post.pc = "idle" /\ preview[m] # "accepted"
  /\ post' = [NoPost(m) EXCEPT !.pc = "sent", !.kind = CheckCookie,
                !.token = IF CheckCookie = "NO_COOKIE" THEN @ ELSE AssembleCookie]
  /\ UNCHANGED <<properties, preview, server, history>>

(***************************************************************************)
(* bbs.cgi                                                                 *)
(***************************************************************************)
(* It accepts a message that comes with both, as cookies or form item, and *)
(* asks for the terms again otherwise.                                     *)
Accepts == post.kind # "NO_COOKIE" /\ post.token = <<terms, terms, terms>>

Answer ==
  /\ post.pc = "sent"
  /\ post' = [post EXCEPT !.pc = "header", !.version = terms,
                          !.body = IF Accepts THEN "accepted" ELSE "terms"]
  /\ accepted' = IF Accepts THEN [accepted EXCEPT ![post.msg] = @ + 1] ELSE accepted
  /\ UNCHANGED <<properties, preview, terms, history>>

AnswerError ==
  /\ post.pc = "sent" /\ Fault("error")
  /\ post' = [post EXCEPT !.pc = "body", !.body = "error"]
  /\ UNCHANGED <<properties, preview, server, seen, unshown, lost>>

Rotate ==
  /\ Fault("rotate")
  /\ terms < MaxTerms /\ terms' = terms + 1
  /\ UNCHANGED <<properties, post, preview, accepted, seen, unshown, lost>>

(***************************************************************************)
(* The answer.  Header lines are stored as they arrive; every cookie that  *)
(* is none of those known by name becomes PREN, whatever it is called.     *)
(***************************************************************************)
WriteHeaderData ==
  /\ post.pc = "header"
  /\ cookiePon' = IF post.body = "terms" THEN post.version ELSE cookiePon
  /\ pren' \in {pren, TRUE}
  /\ Goto("body")
  /\ UNCHANGED <<hiddenName, hiddenVal, preview, server, history>>

(* The file is complete and is converted; the first post reads it.         *)
AfterTransfer == IF post.kind = "NO_COOKIE" THEN "name" ELSE "show"

(* Mutant: every post reads it.                                            *)
FinishReads ==
  /\ post.pc = "body"
  /\ Goto("name")
  /\ UNCHANGED <<properties, preview, server, history>>

Finish ==
  /\ post.pc = "body"
  /\ Goto(AfterTransfer)
  /\ UNCHANGED <<properties, preview, server, history>>

Unanswered(body) ==
  /\ post' = [post EXCEPT !.pc = AfterTransfer, !.body = body]
  /\ lost' = IF post.body = "accepted" THEN [lost EXCEPT ![post.msg] = @ + 1] ELSE lost

Refused ==
  /\ post.pc = "sent" /\ Fault("refused")
  /\ Unanswered("none")
  /\ UNCHANGED <<properties, preview, server, seen, unshown>>

(* The exception is logged and the method goes on with what has come.  (A   *)
(* page cut after the hidden item is as good as complete: see Finish.)     *)
Broken ==
  /\ Fault("broken")
  /\ \/ post.pc = "header" /\ Unanswered("none")
     \/ post.pc = "body" /\ \E body \in {"none", "cut"} : Unanswered(body)
  /\ UNCHANGED <<properties, preview, server, seen, unshown>>

(* Name and value are written one after the other, empty if not found.     *)
HiddenItem == IF post.body = "terms" THEN post.version ELSE 0

WriteHiddenName ==
  /\ post.pc = "name"
  /\ hiddenName' = HiddenItem
  /\ Goto("value")
  /\ UNCHANGED <<hiddenVal, cookiePon, pren, preview, server, history>>

WriteHiddenValue ==
  /\ post.pc = "value"
  /\ hiddenVal' = HiddenItem
  /\ Goto("show")
  /\ UNCHANGED <<hiddenName, cookiePon, pren, preview, server, history>>

(* Mutant: the answer to a first post is not displayed.                    *)
SetPageButFirst ==
  /\ post.pc = "show"
  /\ post' = NoPost(post.msg)
  /\ preview' = [preview EXCEPT ![post.msg] = post.body]
  /\ seen' = IF post.body = "terms" /\ post.kind # "NO_COOKIE" THEN seen \cup {post.version} ELSE seen
  /\ UNCHANGED <<properties, server, unshown, lost, faults>>

(* Mutant: the buffers are not cleared.                                    *)
SetPageKeepsBody ==
  /\ post.pc = "show"
  /\ Goto("idle")
  /\ preview' = [preview EXCEPT ![post.msg] = post.body]
  /\ seen' = IF post.body = "terms" THEN seen \cup {post.version} ELSE seen
  /\ UNCHANGED <<properties, server, unshown, lost, faults>>

(* Mutant: an answer with a body is reported as a failure.                 *)
SetPageFails ==
  /\ post.pc = "show"
  /\ post' = NoPost(post.msg)
  /\ preview' = [preview EXCEPT ![post.msg] = "none"]
  /\ seen' = IF post.body = "terms" THEN seen \cup {post.version} ELSE seen
  /\ UNCHANGED <<properties, server, unshown, lost, faults>>

(* Without a body the message FAIL_TO_POST is displayed.                   *)
SetPage ==
  /\ post.pc = "show"
  /\ post' = NoPost(post.msg)
  /\ preview' = [preview EXCEPT ![post.msg] = post.body]
  /\ seen' = IF post.body = "terms" THEN seen \cup {post.version} ELSE seen
  /\ UNCHANGED <<properties, server, unshown, lost, faults>>

Kill ==
  /\ post.pc # "idle" /\ Fault("kill")
  /\ post' = NoPost(post.msg)
  /\ lost' = IF post.body = "accepted" THEN [lost EXCEPT ![post.msg] = @ + 1] ELSE lost
  /\ unshown' = IF post.body = "terms" THEN unshown \cup {post.version} ELSE unshown
  /\ UNCHANGED <<properties, preview, server, seen>>

Perform == Answer \/ WriteHeaderData \/ Finish
Receive == WriteHiddenName \/ WriteHiddenValue \/ SetPage
Trouble == AnswerError \/ Rotate \/ Refused \/ Broken \/ Kill

Next == (\E m \in Messages : OnPostResponse(m)) \/ Perform \/ Receive \/ Trouble

Spec == Init /\ [][Next]_vars

(* A post that runs goes on, since curl gives up after a timeout, and the  *)
(* user tries every message again and again.                               *)
Fairness ==
  /\ WF_vars(Perform) /\ WF_vars(Receive)
  /\ \A m \in Messages : SF_vars(OnPostResponse(m))

FairSpec == Spec /\ Fairness
-----------------------------------------------------------------------------
(* No message is accepted under terms the user has not been shown: the     *)
(* click that agrees to them comes after the page that displays them.  The *)
(* end of the process between storing and displaying is the only exception.*)
TermsSeenOrKilled ==
  [][\A m \in Messages : accepted'[m] # accepted[m] => terms \in seen \cup unshown]_vars

(* What the client knows of the terms is never forgotten: once a post can  *)
(* carry cookie and hidden item no later answer, error page or broken      *)
(* transfer throws it back to a first post.                                *)
ConsentKept ==
  [][CheckCookie # "NO_COOKIE" => CheckCookie' # "NO_COOKIE"]_vars

(* A message appears twice only if the answer to an earlier post of it was *)
(* lost.                                                                   *)
NoDoublePost == \A m \in Messages : accepted[m] <= 1 + lost[m]

(* The hidden item is of terms that are no longer in force; the client     *)
(* never asks for another.                                                 *)
Outdated == hiddenName # 0 /\ hiddenVal # 0 /\ ~(hiddenName = terms /\ hiddenVal = terms)

(* A user who keeps clicking gets every message posted, whatever transfers *)
(* break, unless the server's terms have changed since they were stored.   *)
Posted == \A m \in Messages : <>(accepted[m] > 0) \/ <>[]Outdated
=============================================================================
