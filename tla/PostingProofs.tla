--------------------------- MODULE PostingProofs ---------------------------
(***************************************************************************)
(* Proofs about Posting for any messages, faults and number of terms.      *)
(***************************************************************************)
EXTENDS Posting, TLAPS

(***************************************************************************)
(* What the steps leave of a post                                          *)
(***************************************************************************)
(* The values a state has.                                                 *)
LEMMA Fields ==
  ASSUME TypeOK
  PROVE  /\ MaxFaults \in Nat /\ MaxTerms \in Nat \ {0}
         /\ post \in Posts /\ post.msg \in Messages
         /\ post.body \in Bodies /\ post.version \in Versions /\ post.kind \in Kinds
         /\ terms \in 1 .. MaxTerms /\ terms \in Versions
         /\ post.token \in Versions \X Versions \X Versions
         /\ post.body \in {"terms", "accepted"} => post.version \in 1 .. MaxTerms
BY BoundsAssumption DEF TypeOK, Posts, Versions

(* A post that only goes on keeps everything else.                         *)
LEMMA GotoKeeps ==
  ASSUME TypeOK, NEW pc \in Steps, Goto(pc)
  PROVE  /\ post' \in Posts /\ post'.pc = pc
         /\ post'.kind = post.kind /\ post'.msg = post.msg /\ post'.token = post.token
         /\ post'.body = post.body /\ post'.version = post.version
BY DEF TypeOK, Goto, Posts

(* No post runs.                                                           *)
LEMMA NoPostIs ==
  ASSUME NEW m \in Messages
  PROVE  /\ NoPost(m) \in Posts /\ NoPost(m).pc = "idle"
         /\ NoPost(m).body = "none" /\ NoPost(m).msg = m
<1>1. 0 \in Versions /\ <<0, 0, 0>> \in Versions \X Versions \X Versions
  BY BoundsAssumption DEF Versions
<1> QED BY <1>1 DEF NoPost, Posts, Steps, Kinds, Bodies

(* A click starts a post without an answer.                                *)
LEMMA ClickStarts ==
  ASSUME TypeOK, NEW m \in Messages, OnPostResponse(m)
  PROVE  /\ post' \in Posts /\ post'.pc = "sent" /\ post'.msg = m /\ post'.body = "none"
         /\ post'.kind = CheckCookie
         /\ CheckCookie # "NO_COOKIE" => post'.token = AssembleCookie
<1>1. 0 \in Versions /\ <<0, 0, 0>> \in Versions \X Versions \X Versions
  BY BoundsAssumption DEF Versions
<1>2. AssembleCookie \in Versions \X Versions \X Versions
  BY DEF TypeOK, AssembleCookie
<1>3. CheckCookie \in Kinds
  BY DEF CheckCookie, Kinds
<1>4. post' = [pc |-> "sent", kind |-> CheckCookie, msg |-> m,
               token |-> IF CheckCookie = "NO_COOKIE" THEN <<0, 0, 0>> ELSE AssembleCookie,
               body |-> "none", version |-> 0]
  BY DEF OnPostResponse, NoPost
<1> HIDE DEF AssembleCookie, CheckCookie
<1> QED BY <1>1, <1>2, <1>3, <1>4 DEF Posts, Steps, Bodies

(* The answer of the server.                                               *)
LEMMA AnswerGives ==
  ASSUME TypeOK, Answer
  PROVE  /\ post' \in Posts /\ post'.pc = "header"
         /\ post'.kind = post.kind /\ post'.msg = post.msg
         /\ post'.body = (IF Accepts THEN "accepted" ELSE "terms") /\ post'.version = terms
<1>1. terms \in Versions
  BY Fields
<1>2. (IF Accepts THEN "accepted" ELSE "terms") \in Bodies /\ "header" \in Steps
  BY DEF Bodies, Steps
<1> QED BY <1>1, <1>2 DEF Answer, TypeOK, Posts

(* An answer that is missed.                                               *)
LEMMA UnansweredGives ==
  ASSUME TypeOK, NEW body \in Bodies, Unanswered(body)
  PROVE  /\ post' \in Posts /\ post'.pc = AfterTransfer /\ post'.pc \in {"name", "show"}
         /\ post'.kind = post.kind /\ post'.msg = post.msg /\ post'.body = body
         /\ lost' \in [Messages -> Nat]
<1>1. AfterTransfer \in Steps /\ AfterTransfer \in {"name", "show"}
  BY DEF AfterTransfer, Steps
<1>2. /\ post' \in Posts /\ post'.pc = AfterTransfer
      /\ post'.kind = post.kind /\ post'.msg = post.msg /\ post'.body = body
  BY <1>1 DEF Unanswered, TypeOK, Posts
<1>3. lost' \in [Messages -> Nat]
  BY Fields DEF Unanswered, TypeOK
<1> QED BY <1>1, <1>2, <1>3

(***************************************************************************)
(* Type correctness                                                        *)
(***************************************************************************)
(* At first the property file is empty and no post runs.                   *)
LEMMA PostTypeInit == Init => TypeOK
<1> SUFFICES ASSUME Init PROVE TypeOK
  OBVIOUS
<1>1. post \in Posts /\ post.body = "none"
  BY NoPostIs DEF Init
<1>2. 0 \in Versions /\ terms \in 1 .. MaxTerms /\ faults \in 0 .. MaxFaults
  BY BoundsAssumption DEF Init, Versions
<1>3. preview \in [Messages -> Bodies] /\ accepted \in [Messages -> Nat] /\ lost \in [Messages -> Nat]
  BY DEF Init, Bodies
<1> QED BY <1>1, <1>2, <1>3 DEF Init, TypeOK

(* Every step keeps the types.                                             *)
LEMMA PostTypeNext == TypeOK /\ [Next]_vars => TypeOK'
<1> SUFFICES ASSUME TypeOK, [Next]_vars PROVE TypeOK'
  OBVIOUS
<1>0. /\ MaxFaults \in Nat /\ MaxTerms \in Nat \ {0} /\ post \in Posts /\ post.msg \in Messages
      /\ post.body \in Bodies /\ post.version \in Versions
      /\ terms \in 1 .. MaxTerms /\ terms # 0
      /\ post.body \in {"terms", "accepted"} => post.version \in 1 .. MaxTerms
  BY Fields
<1>1. ASSUME NEW m \in Messages, OnPostResponse(m) PROVE TypeOK'
  <2>1. post' \in Posts /\ post'.pc = "sent" /\ post'.body = "none"
    BY <1>1, ClickStarts
  <2> QED BY <1>1, <2>1 DEF OnPostResponse, TypeOK, properties, server, history, Versions
<1>2. CASE Answer
  <2>1. post' \in Posts /\ post'.pc = "header" /\ post'.version = terms
    BY <1>2, AnswerGives
  <2>2. accepted' \in [Messages -> Nat]
    BY <1>0, <1>2 DEF Answer, TypeOK
  <2> QED BY <1>0, <1>2, <2>1, <2>2 DEF Answer, TypeOK, properties, history, Versions
<1>3. CASE WriteHeaderData
  <2>1. post' \in Posts /\ post'.pc = "body" /\ post'.body = post.body /\ post'.version = post.version
    BY <1>3, GotoKeeps DEF WriteHeaderData, Steps
  <2>2. cookiePon' \in Versions /\ pren' \in BOOLEAN
    BY <1>0, <1>3 DEF WriteHeaderData, TypeOK
  <2> QED BY <1>3, <2>1, <2>2 DEF WriteHeaderData, TypeOK, server, history, Versions
<1>4. CASE Finish
  <2>1. AfterTransfer \in Steps /\ AfterTransfer # "idle"
    BY DEF AfterTransfer, Steps
  <2>2. post' \in Posts /\ post'.pc # "idle" /\ post'.body = post.body /\ post'.version = post.version
    BY <1>4, <2>1, GotoKeeps DEF Finish
  <2> QED BY <1>4, <2>2 DEF Finish, TypeOK, properties, server, history, Versions
<1>5. CASE AnswerError
  <2>1. "body" \in Steps /\ "error" \in Bodies
    BY DEF Steps, Bodies
  <2>2. post' \in Posts /\ post'.pc = "body" /\ post'.body = "error"
    BY <1>0, <1>5, <2>1 DEF AnswerError, Posts
  <2> QED BY <1>0, <1>5, <2>2 DEF AnswerError, Fault, TypeOK, properties, server, Versions
<1>6. CASE Rotate
  BY <1>0, <1>6 DEF Rotate, Fault, TypeOK, properties, Versions
<1>7. CASE Refused \/ Broken
  <2>1. PICK body \in {"none", "cut"} : Unanswered(body)
    BY <1>7 DEF Refused, Broken
  <2>2. /\ post' \in Posts /\ post'.pc # "idle" /\ post'.body \notin {"terms", "accepted"}
        /\ lost' \in [Messages -> Nat]
    BY <2>1, UnansweredGives DEF Bodies
  <2>3. /\ faults' \in 0 .. MaxFaults
        /\ UNCHANGED <<hiddenName, hiddenVal, cookiePon, pren, preview, terms, accepted, seen, unshown>>
    BY <1>0, <1>7 DEF Refused, Broken, Fault, TypeOK, properties, server
  <2> QED BY <2>2, <2>3 DEF TypeOK, Versions
<1>8. HiddenItem \in Versions
  BY <1>0, BoundsAssumption DEF HiddenItem, Versions
<1>9. CASE WriteHiddenName
  <2>1. post' \in Posts /\ post'.pc = "value" /\ post'.body = post.body /\ post'.version = post.version
    BY <1>9, GotoKeeps DEF WriteHiddenName, Steps
  <2> QED BY <1>8, <1>9, <2>1 DEF WriteHiddenName, TypeOK, server, history, Versions
<1>10. CASE WriteHiddenValue
  <2>1. post' \in Posts /\ post'.pc = "show" /\ post'.body = post.body /\ post'.version = post.version
    BY <1>10, GotoKeeps DEF WriteHiddenValue, Steps
  <2> QED BY <1>8, <1>10, <2>1 DEF WriteHiddenValue, TypeOK, server, history, Versions
<1>11. CASE SetPage
  <2>1. post' \in Posts /\ post'.body = "none"
    BY <1>0, <1>11, NoPostIs DEF SetPage
  <2>2. preview' \in [Messages -> Bodies]
    BY <1>0, <1>11 DEF SetPage, TypeOK
  <2>3. seen' \in SUBSET (1 .. MaxTerms)
    BY <1>0, <1>11 DEF SetPage, TypeOK
  <2> QED BY <1>11, <2>1, <2>2, <2>3 DEF SetPage, TypeOK, properties, server, Versions
<1>12. CASE Kill
  <2>1. post' \in Posts /\ post'.body = "none"
    BY <1>0, <1>12, NoPostIs DEF Kill
  <2>2. lost' \in [Messages -> Nat]
    BY <1>0, <1>12 DEF Kill, TypeOK
  <2>3. unshown' \in SUBSET (1 .. MaxTerms)
    BY <1>0, <1>12 DEF Kill, TypeOK
  <2> QED BY <1>0, <1>12, <2>1, <2>2, <2>3 DEF Kill, Fault, TypeOK, properties, server, Versions
<1>13. CASE UNCHANGED vars
  BY <1>13 DEF vars, properties, server, history, TypeOK, Versions
<1> QED BY <1>1, <1>2, <1>3, <1>4, <1>5, <1>6, <1>7, <1>9, <1>10, <1>11, <1>12, <1>13
    DEF Next, Perform, Receive, Trouble

(* The state has its types, whatever fails: a stored cookie or hidden item *)
(* is none or that of an issued version, and an answer has one.            *)
THEOREM TypeCorrect == Spec => []TypeOK
BY PostTypeInit, PostTypeNext, PTL DEF Spec

(***************************************************************************)
(* What one step does to what has been promised                            *)
(***************************************************************************)
(* A missed answer that was an acceptance counts as lost, and only that.   *)
LEMMA MissedCounts ==
  ASSUME TypeOK, Refused \/ Broken \/ Kill
  PROVE  /\ UNCHANGED <<hiddenName, hiddenVal, cookiePon, pren, preview, terms, accepted, seen>>
         /\ post' \in Posts /\ post'.body \in {"none", "cut"} /\ post'.msg = post.msg
         /\ lost' = (IF post.body = "accepted" THEN [lost EXCEPT ![post.msg] = @ + 1] ELSE lost)
<1>1. CASE Refused \/ Broken
  <2>1. PICK body \in {"none", "cut"} : Unanswered(body)
    BY <1>1 DEF Refused, Broken
  <2>2. post' \in Posts /\ post'.body = body /\ post'.msg = post.msg
    BY <2>1, UnansweredGives DEF Bodies
  <2>3. UNCHANGED <<hiddenName, hiddenVal, cookiePon, pren, preview, terms, accepted, seen>>
    BY <1>1 DEF Refused, Broken, properties, server
  <2> QED BY <2>1, <2>2, <2>3 DEF Unanswered
<1>2. CASE Kill
  <2>1. post' \in Posts /\ post'.body = "none" /\ post'.msg = post.msg
    BY <1>2, Fields, NoPostIs DEF Kill
  <2> QED BY <1>2, <2>1 DEF Kill, properties, server
<1> QED BY <1>1, <1>2

(***************************************************************************)
(* Double posts                                                            *)
(***************************************************************************)
(* The user knows, or will know unless the answer is missed.               *)
Told(m) == preview[m] = "accepted" \/ (post.msg = m /\ post.body = "accepted")

(* The inductive invariant: every acceptance but one was missed, and the   *)
(* last one only if the user is told; nobody posts what was accepted.      *)
CountInv ==
  /\ post.pc # "idle" => preview[post.msg] # "accepted"
  /\ post.pc = "sent" => post.body = "none"
  /\ \A m \in Messages : accepted[m] <= lost[m] + (IF Told(m) THEN 1 ELSE 0)

(* At first nothing was accepted.                                          *)
LEMMA CountInit == Init => CountInv
<1> SUFFICES ASSUME Init PROVE CountInv
  OBVIOUS
<1>1. post.pc = "idle" /\ post.body = "none"
  BY NoPostIs DEF Init
<1>2. \A m \in Messages : accepted[m] = 0 /\ lost[m] = 0
  BY DEF Init
<1> QED BY <1>1, <1>2 DEF CountInv

(* Every step keeps the count.                                             *)
LEMMA CountNext == TypeOK /\ CountInv /\ [Next]_vars => CountInv'
<1> SUFFICES ASSUME TypeOK, CountInv, [Next]_vars PROVE CountInv'
  OBVIOUS
<1>0. /\ post \in Posts /\ post.msg \in Messages
      /\ accepted \in [Messages -> Nat] /\ lost \in [Messages -> Nat]
      /\ preview \in [Messages -> Bodies]
      /\ post.pc = "idle" => post.body = "none"
  BY Fields DEF TypeOK
<1>1. ASSUME NEW m \in Messages, OnPostResponse(m) PROVE CountInv'
  <2>1. post'.pc = "sent" /\ post'.msg = m /\ post'.body = "none"
    BY <1>1, ClickStarts
  <2>2. post.body = "none" /\ preview[m] # "accepted"
        /\ UNCHANGED <<preview, accepted, lost>>
    BY <1>0, <1>1 DEF OnPostResponse, server, history
  <2> QED BY <2>1, <2>2 DEF CountInv, Told
<1>2. CASE Answer
  <2>1. /\ post'.pc = "header" /\ post'.msg = post.msg
        /\ post'.body = (IF Accepts THEN "accepted" ELSE "terms")
    BY <1>2, AnswerGives
  <2>2. /\ post.pc = "sent" /\ post.body = "none" /\ preview[post.msg] # "accepted"
        /\ UNCHANGED <<preview, lost>>
        /\ accepted' = IF Accepts THEN [accepted EXCEPT ![post.msg] = @ + 1] ELSE accepted
    BY <1>2 DEF Answer, CountInv, history
  <2>3. ASSUME NEW m \in Messages PROVE accepted'[m] <= lost'[m] + (IF Told(m)' THEN 1 ELSE 0)
    <3>1. accepted[m] <= lost[m] + (IF Told(m) THEN 1 ELSE 0)
      BY DEF CountInv
    <3>2. CASE Accepts /\ m = post.msg
      BY <1>0, <2>1, <2>2, <3>1, <3>2 DEF Told
    <3>3. CASE ~(Accepts /\ m = post.msg)
      BY <1>0, <2>1, <2>2, <3>1, <3>3 DEF Told
    <3> QED BY <3>2, <3>3
  <2> QED BY <2>1, <2>2, <2>3 DEF CountInv
<1>3. CASE WriteHeaderData \/ Finish \/ WriteHiddenName \/ WriteHiddenValue
  <2>1. \E pc \in Steps \ {"idle", "sent"} : Goto(pc)
    BY <1>3 DEF WriteHeaderData, Finish, WriteHiddenName, WriteHiddenValue, AfterTransfer, Steps
  <2>2. post'.msg = post.msg /\ post'.body = post.body /\ post'.pc # "sent"
    BY <2>1, GotoKeeps
  <2>3. post.pc # "idle" /\ UNCHANGED <<preview, accepted, lost>>
    BY <1>3 DEF WriteHeaderData, Finish, WriteHiddenName, WriteHiddenValue, server, history
  <2> QED BY <2>2, <2>3 DEF CountInv, Told
<1>4. CASE AnswerError
  <2>1. post'.pc = "body" /\ post'.msg = post.msg /\ post'.body = "error"
    BY <1>0, <1>4 DEF AnswerError, Posts
  <2>2. post.pc = "sent" /\ post.body = "none" /\ UNCHANGED <<preview, accepted, lost>>
    BY <1>4 DEF AnswerError, CountInv, server
  <2> QED BY <2>1, <2>2 DEF CountInv, Told
<1>5. CASE Rotate \/ UNCHANGED vars
  BY <1>5 DEF Rotate, CountInv, Told, vars, server, history
<1>6. CASE Refused \/ Broken \/ Kill
  <2>1. /\ UNCHANGED <<preview, accepted>> /\ post'.msg = post.msg
        /\ post'.body # "accepted"
        /\ lost' = (IF post.body = "accepted" THEN [lost EXCEPT ![post.msg] = @ + 1] ELSE lost)
    BY <1>6, MissedCounts
  <2>2. post'.pc # "sent"
    BY <1>0, <1>6, NoPostIs, UnansweredGives DEF Refused, Broken, Kill, Bodies
  <2>3. post.pc # "idle"
    BY <1>6 DEF Refused, Broken, Kill
  <2>4. ASSUME NEW m \in Messages PROVE accepted'[m] <= lost'[m] + (IF Told(m)' THEN 1 ELSE 0)
    <3>1. accepted[m] <= lost[m] + (IF Told(m) THEN 1 ELSE 0)
      BY DEF CountInv
    <3>2. CASE post.body = "accepted" /\ m = post.msg
      BY <1>0, <2>1, <3>1, <3>2 DEF Told
    <3>3. CASE ~(post.body = "accepted" /\ m = post.msg)
      BY <1>0, <2>1, <3>1, <3>3 DEF Told
    <3> QED BY <3>2, <3>3
  <2> QED BY <2>1, <2>2, <2>3, <2>4 DEF CountInv
<1>7. CASE SetPage
  <2>1. post'.pc = "idle" /\ post'.msg = post.msg /\ post'.body = "none"
    BY <1>0, <1>7, NoPostIs DEF SetPage
  <2>2. /\ post.pc # "idle" /\ preview' = [preview EXCEPT ![post.msg] = post.body]
        /\ UNCHANGED <<accepted, lost>>
    BY <1>7 DEF SetPage, server
  <2>3. ASSUME NEW m \in Messages PROVE Told(m)' <=> Told(m)
    BY <1>0, <2>1, <2>2 DEF CountInv, Told
  <2> QED BY <2>1, <2>2, <2>3 DEF CountInv
<1> QED BY <1>1, <1>2, <1>3, <1>4, <1>5, <1>6, <1>7 DEF Next, Perform, Receive, Trouble

(* The count bounds the acceptances.                                       *)
LEMMA CountImplies == TypeOK /\ CountInv => NoDoublePost
<1> SUFFICES ASSUME TypeOK, CountInv, NEW m \in Messages PROVE accepted[m] <= 1 + lost[m]
  BY DEF NoDoublePost
<1>1. accepted[m] \in Nat /\ lost[m] \in Nat
  BY DEF TypeOK
<1>2. accepted[m] <= lost[m] + (IF Told(m) THEN 1 ELSE 0)
  BY DEF CountInv
<1>3. CASE Told(m)
  BY <1>1, <1>2, <1>3
<1>4. CASE ~Told(m)
  BY <1>1, <1>2, <1>4
<1> QED BY <1>3, <1>4

(* Whatever fails and however often the user clicks, a message is accepted *)
(* again only after the answer that accepted it was lost: the windows post *)
(* nothing by themselves and show every acceptance that comes in.          *)
THEOREM NoDoublePosts == Spec => []NoDoublePost
BY PostTypeInit, PostTypeNext, CountInit, CountNext, CountImplies, PTL DEF Spec

(***************************************************************************)
(* The consent                                                             *)
(***************************************************************************)
(* The inductive invariant: the value of the hidden item is stored last,   *)
(* after its name and the cookie, and a first post runs only without it.   *)
ConsentInv ==
  /\ hiddenVal # 0 => hiddenName # 0 /\ cookiePon # 0
  /\ post.pc \in {"sent", "header", "body", "name", "value"} /\ post.kind = "NO_COOKIE" => hiddenVal = 0
  /\ post.pc \in {"name", "value"} => post.kind = "NO_COOKIE"
  /\ post.pc \in {"body", "name", "value"} /\ post.body = "terms" => cookiePon # 0
  /\ post.pc = "value" /\ post.body = "terms" => hiddenName # 0

(* Nothing is stored at first.                                             *)
LEMMA ConsentInit == Init => ConsentInv
BY NoPostIs DEF Init, ConsentInv

(* Every step keeps the order in which they are stored, and what is stored.*)
LEMMA ConsentNext ==
  ASSUME TypeOK, ConsentInv, [Next]_vars
  PROVE  ConsentInv' /\ (CheckCookie # "NO_COOKIE" => CheckCookie' # "NO_COOKIE")
<1>0. /\ post \in Posts /\ post.msg \in Messages
      /\ post.body \in {"terms", "accepted"} => post.version # 0
  BY Fields DEF TypeOK
<1>1. CheckCookie = "NO_COOKIE" <=> hiddenName = 0 \/ hiddenVal = 0 \/ cookiePon = 0
  BY DEF CheckCookie
<1>2. CheckCookie' = "NO_COOKIE" <=> hiddenName' = 0 \/ hiddenVal' = 0 \/ cookiePon' = 0
  BY DEF CheckCookie
<1> HIDE DEF CheckCookie
<1>3. ASSUME NEW m \in Messages, OnPostResponse(m)
      PROVE  ConsentInv' /\ UNCHANGED properties
  <2>1. post'.pc = "sent" /\ post'.body = "none" /\ post'.kind = CheckCookie
    BY <1>3, ClickStarts
  <2>2. UNCHANGED properties
    BY <1>3 DEF OnPostResponse
  <2> QED BY <1>1, <2>1, <2>2 DEF ConsentInv, properties
<1>4. CASE Answer
  <2>1. post'.pc = "header" /\ post'.kind = post.kind
    BY <1>4, AnswerGives
  <2>2. post.pc = "sent" /\ UNCHANGED properties
    BY <1>4 DEF Answer
  <2>3. ConsentInv'
    BY <2>1, <2>2 DEF ConsentInv, properties
  <2> QED BY <1>1, <1>2, <2>2, <2>3 DEF properties
<1>5. CASE WriteHeaderData
  <2>1. post'.pc = "body" /\ post'.kind = post.kind /\ post'.body = post.body
    BY <1>5, GotoKeeps DEF WriteHeaderData, Steps
  <2>2. /\ post.pc = "header" /\ UNCHANGED <<hiddenName, hiddenVal>>
        /\ cookiePon' = IF post.body = "terms" THEN post.version ELSE cookiePon
    BY <1>5 DEF WriteHeaderData
  <2>3. ConsentInv'
    BY <1>0, <2>1, <2>2 DEF ConsentInv
  <2> QED BY <1>0, <1>1, <1>2, <2>2, <2>3
<1>6. CASE Finish
  <2>1. AfterTransfer \in Steps /\ AfterTransfer = IF post.kind = "NO_COOKIE" THEN "name" ELSE "show"
    BY DEF AfterTransfer, Steps
  <2>2. post'.pc = AfterTransfer /\ post'.kind = post.kind /\ post'.body = post.body
    BY <1>6, <2>1, GotoKeeps DEF Finish
  <2>3. post.pc = "body" /\ UNCHANGED properties
    BY <1>6 DEF Finish
  <2>4. ConsentInv'
    BY <2>1, <2>2, <2>3 DEF ConsentInv, properties
  <2> QED BY <1>1, <1>2, <2>3, <2>4 DEF properties
<1>7. CASE AnswerError
  <2>1. post'.pc = "body" /\ post'.kind = post.kind /\ post'.body = "error"
    BY <1>0, <1>7 DEF AnswerError, Posts
  <2>2. post.pc = "sent" /\ UNCHANGED properties
    BY <1>7 DEF AnswerError
  <2>3. ConsentInv'
    BY <2>1, <2>2 DEF ConsentInv, properties
  <2> QED BY <1>1, <1>2, <2>2, <2>3 DEF properties
<1>8. CASE Rotate \/ UNCHANGED vars
  <2>1. UNCHANGED <<post, properties>>
    BY <1>8 DEF Rotate, vars
  <2> QED BY <1>1, <1>2, <2>1 DEF ConsentInv, properties
<1>9. CASE Refused \/ Broken
  <2>1. PICK body \in {"none", "cut"} : Unanswered(body)
    BY <1>9 DEF Refused, Broken
  <2>2. post'.pc = AfterTransfer /\ post'.kind = post.kind /\ post'.body # "terms"
    BY <2>1, UnansweredGives DEF Bodies
  <2>3. post.pc \in {"sent", "header", "body"} /\ UNCHANGED properties
    BY <1>9 DEF Refused, Broken
  <2>4. ConsentInv'
    BY <2>2, <2>3 DEF ConsentInv, properties, AfterTransfer
  <2> QED BY <1>1, <1>2, <2>3, <2>4 DEF properties
<1>10. CASE WriteHiddenName
  <2>1. post'.pc = "value" /\ post'.kind = post.kind /\ post'.body = post.body
    BY <1>10, GotoKeeps DEF WriteHiddenName, Steps
  <2>2. /\ post.pc = "name" /\ UNCHANGED <<hiddenVal, cookiePon>>
        /\ hiddenName' = IF post.body = "terms" THEN post.version ELSE 0
    BY <1>10 DEF WriteHiddenName, HiddenItem
  <2>3. hiddenVal = 0
    BY <2>2 DEF ConsentInv
  <2>4. ConsentInv'
    BY <1>0, <2>1, <2>2, <2>3 DEF ConsentInv
  <2> QED BY <1>1, <2>3, <2>4
<1>11. CASE WriteHiddenValue
  <2>1. post'.pc = "show" /\ post'.kind = post.kind /\ post'.body = post.body
    BY <1>11, GotoKeeps DEF WriteHiddenValue, Steps
  <2>2. /\ post.pc = "value" /\ UNCHANGED <<hiddenName, cookiePon>>
        /\ hiddenVal' = IF post.body = "terms" THEN post.version ELSE 0
    BY <1>11 DEF WriteHiddenValue, HiddenItem
  <2>3. hiddenVal = 0
    BY <2>2 DEF ConsentInv
  <2>4. ConsentInv'
    BY <2>1, <2>2 DEF ConsentInv
  <2> QED BY <1>1, <2>3, <2>4
<1>12. CASE SetPage \/ Kill
  <2>1. post'.pc = "idle" /\ UNCHANGED properties
    BY <1>0, <1>12, NoPostIs DEF SetPage, Kill
  <2>2. ConsentInv'
    BY <2>1 DEF ConsentInv, properties
  <2> QED BY <1>1, <1>2, <2>1, <2>2 DEF properties
<1> QED BY <1>1, <1>2, <1>3, <1>4, <1>5, <1>6, <1>7, <1>8, <1>9, <1>10, <1>11, <1>12
    DEF Next, Perform, Receive, Trouble, properties

(* Once cookie and hidden item are stored every later click can carry      *)
(* them: no broken transfer, error page or restart undoes it.              *)
THEOREM ConsentIsKept == Spec => ConsentKept
<1>1. TypeOK /\ ConsentInv /\ [Next]_vars => [CheckCookie # "NO_COOKIE" => CheckCookie' # "NO_COOKIE"]_vars
  BY ConsentNext
<1>2. TypeOK /\ ConsentInv /\ [Next]_vars => ConsentInv'
  BY ConsentNext
<1>3. Spec => [](TypeOK /\ ConsentInv)
  BY PostTypeInit, PostTypeNext, ConsentInit, <1>2, PTL DEF Spec
<1> QED BY <1>1, <1>3, PTL DEF Spec, ConsentKept

(***************************************************************************)
(* The terms                                                               *)
(***************************************************************************)
(* The inductive invariant: what a post carries was displayed, or a kill   *)
(* came between; what is stored, too, unless it is about to be displayed.  *)
TermsInv ==
  /\ hiddenVal \in seen \cup unshown \cup {0}
     \/ (post.pc = "show" /\ post.body = "terms" /\ post.version = hiddenVal)
  /\ post.pc = "sent" /\ post.kind # "NO_COOKIE" => post.token[3] \in seen \cup unshown

(* Nothing is stored at first.                                             *)
LEMMA TermsInit == Init => TermsInv
BY NoPostIs DEF Init, TermsInv

(* Every step keeps that, and accepts only under terms that were displayed *)
(* or kept from it by a kill.                                              *)
LEMMA TermsNext ==
  ASSUME TypeOK, TermsInv, [Next]_vars
  PROVE  TermsInv' /\ \A m \in Messages : accepted'[m] # accepted[m] => terms \in seen \cup unshown
<1>0. /\ post \in Posts /\ post.msg \in Messages /\ accepted \in [Messages -> Nat]
      /\ post.body \in {"terms", "accepted"} => post.version # 0
  BY Fields DEF TypeOK
<1>1. ASSUME NEW m \in Messages, OnPostResponse(m)
      PROVE  TermsInv' /\ UNCHANGED accepted
  <2>1. /\ post'.pc = "sent" /\ post'.kind = CheckCookie
        /\ CheckCookie # "NO_COOKIE" => post'.token[3] = hiddenVal /\ hiddenVal # 0
    BY <1>1, ClickStarts DEF AssembleCookie, CheckCookie
  <2>2. post.pc = "idle" /\ UNCHANGED <<hiddenVal, seen, unshown, accepted>>
    BY <1>1 DEF OnPostResponse, properties, server, history
  <2> QED BY <2>1, <2>2 DEF TermsInv
<1>2. CASE Answer
  <2>1. post.pc = "sent" /\ UNCHANGED <<hiddenVal, seen, unshown>> /\ post'.pc = "header"
    BY <1>2, AnswerGives DEF Answer, properties, history
  <2>2. Accepts => terms \in seen \cup unshown
    BY <2>1 DEF Accepts, TermsInv
  <2>3. ~Accepts => accepted' = accepted
    BY <1>2 DEF Answer
  <2> QED BY <2>1, <2>2, <2>3 DEF TermsInv
<1>3. CASE WriteHeaderData \/ Finish \/ WriteHiddenName
  <2>1. \E pc \in Steps \ {"idle", "sent"} : Goto(pc)
    BY <1>3 DEF WriteHeaderData, Finish, WriteHiddenName, AfterTransfer, Steps
  <2>2. post'.pc # "sent"
    BY <2>1, GotoKeeps
  <2>3. post.pc # "show" /\ UNCHANGED <<hiddenVal, accepted, seen, unshown>>
    BY <1>3 DEF WriteHeaderData, Finish, WriteHiddenName, properties, server, history
  <2> QED BY <2>2, <2>3 DEF TermsInv
<1>4. CASE WriteHiddenValue
  <2>1. /\ post'.pc = "show" /\ post'.body = post.body /\ post'.version = post.version
        /\ hiddenVal' = IF post.body = "terms" THEN post.version ELSE 0
    BY <1>4, GotoKeeps DEF WriteHiddenValue, HiddenItem, Steps
  <2>2. UNCHANGED <<accepted, seen, unshown>>
    BY <1>4 DEF WriteHiddenValue, server, history
  <2> QED BY <2>1, <2>2 DEF TermsInv
<1>5. CASE AnswerError
  <2>1. post'.pc = "body"
    BY <1>0, <1>5 DEF AnswerError, Posts
  <2>2. post.pc = "sent" /\ UNCHANGED <<hiddenVal, accepted, seen, unshown>>
    BY <1>5 DEF AnswerError, properties, server
  <2> QED BY <2>1, <2>2 DEF TermsInv
<1>6. CASE Rotate \/ UNCHANGED vars
  BY <1>6 DEF Rotate, TermsInv, vars, properties, server, history
<1>7. CASE Refused \/ Broken
  <2>1. PICK body \in {"none", "cut"} : Unanswered(body)
    BY <1>7 DEF Refused, Broken
  <2>2. post'.pc # "sent"
    BY <2>1, UnansweredGives DEF Bodies
  <2>3. post.pc # "show" /\ UNCHANGED <<hiddenVal, accepted, seen, unshown>>
    BY <1>7 DEF Refused, Broken, properties, server
  <2> QED BY <2>2, <2>3 DEF TermsInv
<1>8. CASE SetPage
  <2>1. post'.pc = "idle"
    BY <1>0, <1>8, NoPostIs DEF SetPage
  <2>2. /\ seen' = IF post.body = "terms" THEN seen \cup {post.version} ELSE seen
        /\ UNCHANGED <<hiddenVal, accepted, unshown>>
    BY <1>8 DEF SetPage, properties, server
  <2> QED BY <2>1, <2>2 DEF TermsInv
<1>9. CASE Kill
  <2>1. post'.pc = "idle"
    BY <1>0, <1>9, NoPostIs DEF Kill
  <2>2. /\ unshown' = IF post.body = "terms" THEN unshown \cup {post.version} ELSE unshown
        /\ UNCHANGED <<hiddenVal, accepted, seen>>
    BY <1>9 DEF Kill, properties, server
  <2> QED BY <2>1, <2>2 DEF TermsInv
<1> QED BY <1>1, <1>2, <1>3, <1>4, <1>5, <1>6, <1>7, <1>8, <1>9
    DEF Next, Perform, Receive, Trouble

(* A message is accepted only under terms whose page was displayed before  *)
(* the click that sent it, or that a kill kept from being displayed: no    *)
(* order of posts, windows and failures agrees to terms unseen otherwise.  *)
THEOREM TermsAreSeen == Spec => TermsSeenOrKilled
<1>1. TypeOK /\ TermsInv /\ [Next]_vars
      => [\A m \in Messages : accepted'[m] # accepted[m] => terms \in seen \cup unshown]_vars
  BY TermsNext
<1>2. TypeOK /\ TermsInv /\ [Next]_vars => TermsInv'
  BY TermsNext
<1>3. Spec => [](TypeOK /\ TermsInv)
  BY PostTypeInit, PostTypeNext, TermsInit, <1>2, PTL DEF Spec
<1> QED BY <1>1, <1>3, PTL DEF Spec, TermsSeenOrKilled
=============================================================================
