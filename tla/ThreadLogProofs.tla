-------------------------- MODULE ThreadLogProofs --------------------------
(***************************************************************************)
(* Theorems about ThreadLog, for every bound and every set of faults.      *)
(***************************************************************************)
EXTENDS ThreadLog, SequenceTheorems, TLAPS

(***************************************************************************)
(* Facts about file contents.                                              *)
(***************************************************************************)

(* The beginning of a thread is a file content of its length.              *)
LEMMA FullContent ==
  ASSUME NEW n \in 0 .. MaxPosts
  PROVE  Full(n) \in Content /\ Len(Full(n)) = n /\ \A i \in 1 .. n : Full(n)[i] = i
<1>1. Full(n) \in [1 .. n -> 0 .. MaxPosts]
  BY BoundsAssumption DEF Full
<1>2. Full(n) \in Seq(0 .. MaxPosts)
  BY <1>1, SeqDef, BoundsAssumption
<1>3. DOMAIN Full(n) = 1 .. n
  BY DEF Full
<1>4. Len(Full(n)) = n
  BY <1>2, <1>3, LenProperties, BoundsAssumption
<1> QED BY <1>2, <1>4 DEF Full, Content

(* The part of a thread after an offset is a content as well.              *)
LEMMA AfterContent ==
  ASSUME posted \in 0 .. MaxPosts, NEW o \in Nat, o < posted
  PROVE  /\ After(o) \in Content /\ Len(After(o)) = posted - o
         /\ \A i \in 1 .. posted - o : After(o)[i] = o + i
<1> DEFINE n == posted - o
<1>0. n \in Nat /\ n <= MaxPosts
  BY BoundsAssumption
<1>1. After(o) \in [1 .. n -> 0 .. MaxPosts]
  BY BoundsAssumption DEF After
<1>2. After(o) \in Seq(0 .. MaxPosts)
  BY <1>0, <1>1, SeqDef
<1>3. DOMAIN After(o) = 1 .. n
  BY DEF After
<1>4. Len(After(o)) = n
  BY <1>0, <1>2, <1>3, LenProperties
<1> QED BY <1>2, <1>4 DEF After, Content

(* Cutting a content in two gives two contents.                            *)
LEMMA CutContent ==
  ASSUME NEW s \in Content, NEW n \in 0 .. Len(s)
  PROVE  /\ SubSeq(s, 1, n) \in Content
         /\ Len(SubSeq(s, 1, n)) = n
         /\ \A i \in 1 .. n : SubSeq(s, 1, n)[i] = s[i]
         /\ SubSeq(s, n + 1, Len(s)) \in Content
         /\ Len(SubSeq(s, n + 1, Len(s))) = Len(s) - n
         /\ \A i \in 1 .. Len(s) - n : SubSeq(s, n + 1, Len(s))[i] = s[n + i]
<1>1. Len(s) \in Nat /\ \A i \in 1 .. Len(s) : s[i] \in 0 .. MaxPosts
  BY LenProperties, ElementOfSeq DEF Content
<1>2. /\ SubSeq(s, 1, n) \in Content
      /\ Len(SubSeq(s, 1, n)) = n
      /\ \A i \in 1 .. n : SubSeq(s, 1, n)[i] = s[i]
  <2>1. \A i \in 1 .. n : s[i] \in 0 .. MaxPosts
    BY <1>1
  <2> QED BY <2>1, <1>1, SubSeqProperties DEF Content
<1>3. /\ SubSeq(s, n + 1, Len(s)) \in Content
      /\ Len(SubSeq(s, n + 1, Len(s))) = Len(s) - n
      /\ \A i \in 1 .. Len(s) - n : SubSeq(s, n + 1, Len(s))[i] = s[n + i]
  <2> DEFINE m == n + 1
             k == Len(s)
  <2>1. \A i \in m .. k : s[i] \in 0 .. MaxPosts
    BY <1>1
  <2>2. m \in Int /\ k \in Int
    BY <1>1
  <2>3. /\ SubSeq(s, m, k) \in Content
        /\ Len(SubSeq(s, m, k)) = IF m <= k THEN k - m + 1 ELSE 0
        /\ \A i \in 1 .. k - m + 1 : SubSeq(s, m, k)[i] = s[m + i - 1]
    <3> HIDE DEF m, k
    <3> QED BY <2>1, <2>2, SubSeqProperties DEF Content
  <2> QED BY <2>3, <1>1
<1> QED BY <1>2, <1>3

(* The elements and the length of two contents put together.               *)
LEMMA ConcatContent ==
  ASSUME NEW s \in Content, NEW t \in Content
  PROVE  /\ s \o t \in Content /\ Len(s \o t) = Len(s) + Len(t)
         /\ \A i \in 1 .. Len(s) + Len(t) :
              (s \o t)[i] = IF i <= Len(s) THEN s[i] ELSE t[i - Len(s)]
BY ConcatProperties DEF Content

(* The contents an action takes from a set are contents.                   *)
LEMMA ChosenContent ==
  /\ <<>> \in Content /\ Len(<<>>) = 0
  /\ \A page \in ErrorPages : page \in Content
  /\ \A s \in Content : Len(s) \in Nat /\ \A p \in Prefix(s) : p \in Content
<1>1. <<>> \in Content /\ Len(<<>>) = 0
  BY EmptySeq DEF Content
<1>2. <<Junk>> \in Content
  BY BoundsAssumption DEF Content, Junk
<1>3. \A s \in Content : Len(s) \in Nat /\ \A p \in Prefix(s) : p \in Content
  BY CutContent, LenProperties DEF Prefix, Content
<1> QED BY <1>1, <1>2, <1>3 DEF ErrorPages

(* A content cut in two and put together again is the same content.        *)
LEMMA Rejoin ==
  ASSUME NEW s \in Content, NEW n \in 0 .. Len(s)
  PROVE  SubSeq(s, 1, n) \o SubSeq(s, n + 1, Len(s)) = s
<1>1. Len(s) \in Nat /\ SubSeq(s, 1, Len(s)) = s
  BY LenProperties, SubSeqFull DEF Content
<1>2. 1 \in 1 .. Len(s) + 1 /\ n \in 1 - 1 .. Len(s) /\ Len(s) \in n .. Len(s)
  BY <1>1
<1>3. SubSeq(s, 1, n) \o SubSeq(s, n + 1, Len(s)) = SubSeq(s, 1, Len(s))
  BY <1>2, ConcatAdjacentSubSeq DEF Content
<1> QED BY <1>1, <1>3

(* Appending nothing changes nothing.                                      *)
LEMMA EmptyConcat ==
  ASSUME NEW s \in Content
  PROVE  s \o <<>> = s
BY ConcatEmptySeq DEF Content

(* Appending in two parts is appending the whole.                          *)
LEMMA ConcatAssoc ==
  ASSUME NEW s \in Content, NEW t \in Content, NEW u \in Content
  PROVE  (s \o t) \o u = s \o (t \o u)
BY ConcatAssociative DEF Content

(* An absent file has no contents.                                         *)
LEMMA AbsentIsNoContent ==
  Absent \notin Content /\ Absent \notin Stamp
BY AbsentAssumption, SeqMonotonic, BoundsAssumption DEF Content, Stamp

(***************************************************************************)
(* Type correctness.  It is not inductive alone: that a file is there when *)
(* it is read follows from where the call is.                              *)
(***************************************************************************)
Files ==
  /\ dat # Absent => sjis # Absent
  /\ pc = "modWait" => dat # Absent /\ sjis # Absent /\ buffer = <<>>
  /\ pc \in {"append", "reconvert", "flush", "fill"} => sjis # Absent
  /\ pc = "unpack" => gzip # Absent
  /\ pc \in {"pastWait", "pastHeader", "saveHeader", "close"} /\ buffer # <<>> => gzip # Absent

TypeInv == TypeOK /\ Files

(* What the history records of a call is typed.                            *)
LEMMA HistoryTyped ==
  ASSUME call \in History
  PROVE  /\ \A status \in Statuses : Answered(status) => call' \in History
         /\ call' = [call EXCEPT !.kako = TRUE] => call' \in History
         /\ call' = [call EXCEPT !.done = TRUE] => call' \in History
BY DEF Answered, History

(* A fresh installation is typed and has the files TypeInv asks for.       *)
LEMMA TypeInit == Init => TypeInv
BY BoundsAssumption, ChosenContent, AbsentIsNoContent
   DEF Init, TypeInv, TypeOK, Files, PCs, Stamp, NoStamp, History

(* Every step of a call, of the server, of the user and of the system keeps*)
(* TypeInv: one case per action.                                           *)
LEMMA TypeNext == TypeInv /\ [Next]_vars => TypeInv'
<1> SUFFICES ASSUME TypeInv, [Next]_vars PROVE TypeInv'
  OBVIOUS
<1> USE ChosenContent, AbsentIsNoContent, BoundsAssumption
        DEF TypeInv, TypeOK, Files, PCs
<1>1. CASE Post
  BY <1>1 DEF Post, disk, memory
<1>2. CASE Drop
  BY <1>2 DEF Drop, disk, memory
<1>3. CASE BeginNew
  BY <1>3 DEF BeginNew, Goto, BeginCall, server, History
<1>4. CASE BeginMod
  BY <1>4 DEF BeginMod, Goto, BeginCall, server, disk, Stamp, History
<1>5. CASE NewAnswer
  <2>1. call' \in History
    BY <1>5, HistoryTyped DEF NewAnswer, Statuses
  <2>2. gzip' \in Content /\ buffer' \in Content
    BY <1>5, FullContent, CutContent DEF NewAnswer, WriteGzip
  <2> QED BY <1>5, <2>1, <2>2 DEF NewAnswer, Goto, server, Stamp
<1>6. ASSUME NEW s \in {203, 302, 404}, NewError(s) PROVE TypeInv'
  <2>1. call' \in History
    BY <1>6, HistoryTyped DEF NewError, Statuses
  <2>2. gzip' \in Content /\ buffer' \in Content
    BY <1>6, CutContent DEF NewError, WriteGzip
  <2> QED BY <1>6, <2>1, <2>2 DEF NewError, ErrorStatus, Fault, server, Stamp, NoStamp
<1>7. CASE NewBroken
  BY <1>7, FullContent DEF NewBroken, Goto, Fault, server, memory
<1>8. CASE NotModified
  <2>1. call' \in History
    BY <1>8, HistoryTyped DEF NotModified, Statuses
  <2> QED BY <1>8, <2>1 DEF NotModified, Goto, server, disk, Stamp, NoStamp
<1>9. CASE PartialContent
  <2>1. call' \in History
    BY <1>9, HistoryTyped DEF PartialContent, Statuses
  <2> QED BY <1>9, <2>1, AfterContent DEF PartialContent, Goto, server, disk, Stamp
<1>10. CASE RangeNotSatisfiable
  <2>1. call' \in History
    BY <1>10, HistoryTyped DEF RangeNotSatisfiable, Statuses
  <2> QED BY <1>10, <2>1 DEF RangeNotSatisfiable, Goto, server, disk, Stamp, NoStamp
<1>11. CASE FullBody
  <2>1. call' \in History
    BY <1>11, HistoryTyped DEF FullBody, Statuses
  <2> QED BY <1>11, <2>1, FullContent, ConcatContent DEF FullBody, Goto, Fault, server, Stamp
<1>12. CASE ModBroken
  BY <1>12 DEF ModBroken, Goto, Fault, server, disk, memory
<1>13. ASSUME NEW s \in {203, 302, 404}, ModError(s) PROVE TypeInv'
  <2>1. call' \in History
    BY <1>13, HistoryTyped DEF ModError, Statuses
  <2> QED BY <1>13, <2>1 DEF ModError, ErrorStatus, Fault, server, disk, Stamp, NoStamp
<1>14. CASE PastAnswer
  <2>1. call' \in History
    BY <1>14, HistoryTyped DEF PastAnswer, Statuses
  <2>2. gzip' \in Content /\ buffer' \in Content
    BY <1>14, FullContent, CutContent DEF PastAnswer, WriteGzip
  <2> QED BY <1>14, <2>1, <2>2 DEF PastAnswer, Goto, server, Stamp
<1>15. CASE PastError
  BY <1>15 DEF PastError, Goto, server, disk, Stamp, NoStamp
<1>16. CASE PastBroken
  BY <1>16 DEF PastBroken, Goto, Fault, server, disk, Stamp, NoStamp
<1>17. CASE Append206
  <2>1. PICK n \in 0 .. Len(buffer) :
          /\ sjis' = sjis \o SubSeq(buffer, 1, n)
          /\ buffer' = SubSeq(buffer, Len(SubSeq(buffer, 1, n)) + 1, Len(buffer))
    BY <1>17 DEF Append206, Prefix
  <2>2. sjis \in Content /\ buffer \in Content
    BY <1>17 DEF Append206, Goto
  <2>3. SubSeq(buffer, 1, n) \in Content /\ Len(SubSeq(buffer, 1, n)) = n
    BY <2>2, CutContent
  <2>4. sjis' \in Content /\ buffer' \in Content
    BY <2>1, <2>2, <2>3, CutContent, ConcatContent
  <2> QED BY <1>17, <2>4 DEF Append206, Goto, server
<1>18. CASE Reconvert206
  BY <1>18 DEF Reconvert206, Goto, server, memory
<1>19. CASE Flush206
  <2>1. sjis' \in Content
    BY <1>19, ConcatContent DEF Flush206, Goto
  <2> QED BY <1>19, <2>1 DEF Flush206, Goto, server
<1>20. CASE SavePastHeader
  BY <1>20 DEF SavePastHeader, StoreHeader, Goto, server, memory
<1>21. CASE SaveHeader
  BY <1>21 DEF SaveHeader, StoreHeader, Goto, server, memory
<1>22. CASE CloseGzip
  BY <1>22, ConcatContent DEF CloseGzip, Goto, server
<1>23. CASE OpenSjis
  BY <1>23 DEF OpenSjis, server, memory
<1>24. CASE Decompress
  BY <1>24 DEF Decompress, Goto, server, memory
<1>25. CASE OpenDat
  BY <1>25 DEF OpenDat, server, memory
<1>26. CASE ConvertSJISToUTF8
  BY <1>26 DEF ConvertSJISToUTF8, Goto, server, memory
<1>27. CASE Return
  <2>1. call' \in History
    BY <1>27, HistoryTyped DEF Return, Statuses
  <2> QED BY <1>27, <2>1 DEF Return, Goto, server, memory
<1>28. CASE DeleteDatFile
  BY <1>28 DEF DeleteDatFile, Fault, server, memory
<1>29. CASE Crash
  BY <1>29 DEF Crash, Fault, server, disk
<1>30. CASE UNCHANGED vars
  BY <1>30 DEF vars, server, disk, memory
<1> QED
  BY <1>1, <1>2, <1>3, <1>4, <1>5, <1>6, <1>7, <1>8, <1>9, <1>10, <1>11, <1>12, <1>13,
     <1>14, <1>15, <1>16, <1>17, <1>18, <1>19, <1>20, <1>21, <1>22, <1>23, <1>24, <1>25,
     <1>26, <1>27, <1>28, <1>29, <1>30
     DEF Next, Call, Fetch, Store

(* The types, and which files exist together: a .dat with a .header has its*)
(* .sjis, and a gzip file is there wherever the call reads one.            *)
THEOREM Typing == Spec => []TypeInv
BY TypeInit, TypeNext, PTL DEF Spec

(* The state has the declared types in every reachable state.              *)
THEOREM TypeCorrect == Spec => []TypeOK
<1>1. TypeInv => TypeOK
  BY DEF TypeInv
<1> QED BY <1>1, Typing, PTL

(* Whatever faults occur, the Range offset of an update can be computed:   *)
(* the error box of DownloadThreadMod never opens.                         *)
THEOREM SizeIsKnown == Spec => []SizeKnown
<1>1. TypeInv => SizeKnown
  BY DEF TypeInv, Files, SizeKnown
<1> QED BY <1>1, Typing, PTL

(***************************************************************************)
(* What the steps work on, and what the larger ones do.                    *)
(***************************************************************************)
(* The types of what the steps below read.                                 *)
LEMMA FileTypes ==
  ASSUME TypeInv
  PROVE  /\ dat \in Content \cup {Absent} /\ sjis \in Content \cup {Absent}
         /\ gzip \in Content \cup {Absent} /\ buffer \in Content
         /\ header \in Stamp \cup {Absent} /\ resp \in Stamp \cup {Absent}
         /\ posted \in Stamp /\ posted \in Nat /\ pc \in PCs
         /\ call \in History /\ call.base \in Content \cup {Absent}
BY BoundsAssumption DEF TypeInv, TypeOK, Stamp, History

(* What the steps that write the history make of it.                       *)
LEMMA HistorySteps ==
  ASSUME TypeInv
  PROVE  /\ \A path \in {"new", "mod"} : BeginCall(path) =>
              /\ call'.path = path /\ call'.base = sjis /\ call'.left = (gzip # Absent)
              /\ call'.status = 0 /\ call'.kako = FALSE /\ call'.done = FALSE
         /\ \A s \in Statuses : Answered(s) =>
              /\ call'.path = call.path /\ call'.base = call.base
              /\ call'.left = call.left /\ call'.status = s
              /\ call'.kako = call.kako /\ call'.done = call.done
         /\ call' = [call EXCEPT !.kako = TRUE] =>
              /\ call'.path = call.path /\ call'.base = call.base
              /\ call'.left = call.left /\ call'.status = call.status
              /\ call'.kako = TRUE /\ call'.done = call.done
         /\ call' = [call EXCEPT !.done = TRUE] =>
              /\ call'.path = call.path /\ call'.base = call.base
              /\ call'.left = call.left /\ call'.status = call.status
              /\ call'.kako = call.kako /\ call'.done = TRUE
<1>1. call \in History
  BY FileTypes
<1> QED BY <1>1 DEF BeginCall, Answered, History

(* A content written through a stream is the file and the buffer together. *)
LEMMA WrittenThrough ==
  ASSUME NEW s \in Content, WriteGzip(s)
  PROVE  gzip' \in Content /\ buffer' \in Content /\ gzip' \o buffer' = s
<1>1. PICK n \in 0 .. Len(s) :
        gzip' = SubSeq(s, 1, n) /\ buffer' = SubSeq(s, n + 1, Len(s))
  BY DEF WriteGzip
<1> QED BY <1>1, Rejoin, CutContent

(* The append moves a part of the buffer to the log and loses none of it.  *)
LEMMA AppendMoves ==
  ASSUME TypeInv, Append206
  PROVE  /\ sjis \in Content /\ sjis' \in Content /\ buffer' \in Content
         /\ sjis' \o buffer' = sjis \o buffer
         /\ \E t \in Content : sjis' = sjis \o t
<1>1. sjis \in Content /\ buffer \in Content
  BY FileTypes DEF Append206, Goto, TypeInv, Files
<1>2. PICK n \in 0 .. Len(buffer) :
        /\ sjis' = sjis \o SubSeq(buffer, 1, n)
        /\ buffer' = SubSeq(buffer, Len(SubSeq(buffer, 1, n)) + 1, Len(buffer))
  BY DEF Append206, Prefix
<1> DEFINE front == SubSeq(buffer, 1, n)
           back == SubSeq(buffer, n + 1, Len(buffer))
<1>3. front \in Content /\ Len(front) = n /\ back \in Content /\ front \o back = buffer
  BY <1>1, CutContent, Rejoin
<1>4. sjis' = sjis \o front /\ buffer' = back
  BY <1>2, <1>3
<1>5. (sjis \o front) \o back = sjis \o (front \o back) /\ sjis \o front \in Content
  BY <1>1, <1>3, ConcatAssoc, ConcatContent
<1> QED BY <1>1, <1>3, <1>4, <1>5

(***************************************************************************)
(* The log under broken connections.  LogIsPrefix and HonestHeader speak   *)
(* of the moments between two calls; the invariant behind them follows     *)
(* what the call in progress is about to make of the log.                  *)
(***************************************************************************)
Starts(file, p) == Len(file) <= p /\ \A i \in 1 .. Len(file) : file[i] = i
Sound(file, p, l) == Starts(file, p) \/ (file = <<Junk>> /\ l # "main")

Growing == {"append", "reconvert", "flush"}
Buffering == Growing \cup {"pastWait", "pastHeader", "saveHeader", "close"}
Unpacked == {"convert", "fill", "cleanup"}

Upcoming ==
  IF pc \in Growing THEN sjis \o buffer
  ELSE IF gzip # Absent THEN gzip \o buffer ELSE sjis

LogInv ==
  /\ sjis # Absent => Sound(sjis, posted, life)
  /\ pc \in Growing => Starts(sjis \o buffer, posted) /\ Len(sjis \o buffer) = resp
  /\ gzip # Absent =>
       pc \notin Growing \cup {"idle", "modWait"} /\ Sound(gzip \o buffer, posted, life)
  /\ gzip # Absent /\ pc \in Unpacked => sjis = gzip
  /\ pc \notin Buffering => buffer = <<>>
  /\ pc \in {"pastWait", "pastHeader"} => life # "main"
  /\ pc = "modWait" => req.offset = Len(sjis) /\ req.since = header /\ header # Absent
  /\ life = "main" /\ header # Absent =>
       /\ pc # "newWait"
       /\ Upcoming # Absent /\ header <= Len(Upcoming)
       /\ pc \in {"idle", "cleanup"} => dat # Absent
  /\ life = "main" /\ pc = "saveHeader" =>
       Upcoming # Absent /\ (resp # Absent => resp <= Len(Upcoming))

(* The first part of the beginning of a thread is a beginning of it; and   *)
(* a beginning stays one when the thread grows.                            *)
LEMMA StartsFacts ==
  ASSUME NEW p \in Nat
  PROVE  /\ \A s \in Content, t \in Content : Starts(s \o t, p) => Starts(s, p)
         /\ \A s \in Content, q \in Nat : Starts(s, p) /\ p <= q => Starts(s, q)
         /\ Starts(<<>>, p)
<1>1. ASSUME NEW s \in Content, NEW t \in Content, Starts(s \o t, p) PROVE Starts(s, p)
  <2>1. Len(s) \in Nat /\ Len(t) \in Nat
    BY ChosenContent
  <2> QED BY <1>1, <2>1, ConcatContent DEF Starts
<1>2. ASSUME NEW s \in Content, NEW q \in Nat, Starts(s, p), p <= q PROVE Starts(s, q)
  BY <1>2, ChosenContent DEF Starts
<1> QED BY <1>1, <1>2, ChosenContent DEF Starts

(* What a broken transfer leaves of a sound file is sound.                 *)
LEMMA SoundPrefix ==
  ASSUME NEW s \in Content, NEW t \in Prefix(s), NEW p \in Nat, NEW l, Sound(s, p, l)
  PROVE  Sound(t, p, l)
<1>1. PICK n \in 0 .. Len(s) : t = SubSeq(s, 1, n)
  BY DEF Prefix
<1>2. CASE Starts(s, p)
  <2>1. Len(s) \in Nat /\ Len(t) = n /\ \A i \in 1 .. n : t[i] = s[i]
    BY <1>1, CutContent, ChosenContent
  <2>2. Starts(t, p)
    BY <1>2, <2>1 DEF Starts
  <2> QED BY <2>2 DEF Sound
<1>3. CASE s = <<Junk>> /\ l # "main"
  <2>1. Len(s) = 1
    BY <1>3
  <2>2. CASE n = 0
    BY <1>1, <2>2, CutContent DEF Sound, Starts
  <2>3. CASE n = 1
    BY <1>1, <2>1, <2>3, <1>3, SubSeqFull DEF Content, Sound
  <2> QED BY <2>1, <2>2, <2>3
<1> QED BY <1>2, <1>3 DEF Sound

(* The whole thread, the part after the log, and the pages of a server     *)
(* that dropped the thread.                                                *)
LEMMA SoundBodies ==
  ASSUME TypeInv
  PROVE  /\ Starts(Full(posted), posted)
         /\ \A page \in ErrorPages : life # "main" => Sound(page, posted, life)
         /\ \A s \in Content : Starts(s, posted) /\ Len(s) < posted =>
              Starts(s \o After(Len(s)), posted) /\ Len(s \o After(Len(s))) = posted
<1>0. posted \in 0 .. MaxPosts /\ posted \in Nat
  BY BoundsAssumption DEF TypeInv, TypeOK
<1>1. Starts(Full(posted), posted)
  BY <1>0, FullContent DEF Starts
<1>2. \A page \in ErrorPages : life # "main" => Sound(page, posted, life)
  BY <1>0, StartsFacts DEF Sound, ErrorPages
<1>3. ASSUME NEW s \in Content, Starts(s, posted), Len(s) < posted
      PROVE  Starts(s \o After(Len(s)), posted) /\ Len(s \o After(Len(s))) = posted
  <2>1. Len(s) \in Nat
    BY ChosenContent
  <2>2. /\ After(Len(s)) \in Content /\ Len(After(Len(s))) = posted - Len(s)
        /\ \A i \in 1 .. posted - Len(s) : After(Len(s))[i] = Len(s) + i
    BY <1>0, <1>3, <2>1, AfterContent
  <2>3. /\ Len(s \o After(Len(s))) = posted
        /\ \A i \in 1 .. posted : (s \o After(Len(s)))[i] =
              IF i <= Len(s) THEN s[i] ELSE After(Len(s))[i - Len(s)]
    BY <1>0, <2>1, <2>2, ConcatContent
  <2> QED BY <1>0, <1>3, <2>1, <2>2, <2>3 DEF Starts
<1> QED BY <1>1, <1>2, <1>3

(* The server never forgets a response, and a dropped thread stays so.     *)
LEMMA ServerMonotone ==
  ASSUME TypeInv, [Next]_vars
  PROVE  /\ posted \in Nat /\ posted' \in Nat /\ posted <= posted'
         /\ life # "main" => life' # "main"
         /\ \A s \in Content : Starts(s, posted) => Starts(s, posted')
         /\ \A s \in Content : Sound(s, posted, life) => Sound(s, posted', life')
<1>1. posted \in Nat /\ posted' \in Nat /\ posted <= posted' /\ (life # "main" => life' # "main")
  <2>1. CASE Post
    BY <2>1, BoundsAssumption DEF Post, TypeInv, TypeOK
  <2>2. CASE Drop
    BY <2>2, BoundsAssumption DEF Drop, TypeInv, TypeOK
  <2>3. CASE UNCHANGED server
    BY <2>3, BoundsAssumption DEF server, TypeInv, TypeOK
  <2>4. CASE UNCHANGED vars
    BY <2>4, <2>3 DEF vars
  <2>5. Call \/ Store \/ DeleteDatFile \/ Crash => UNCHANGED server
    BY DEF Call, BeginNew, BeginMod, Store, Append206, Reconvert206, Flush206,
           SavePastHeader, SaveHeader, CloseGzip, OpenSjis, Decompress, OpenDat,
           ConvertSJISToUTF8, Return, DeleteDatFile, Crash
  <2>6. Fetch => UNCHANGED server
    BY DEF Fetch, NewAnswer, NewBroken, NewError, NotModified, PartialContent,
           RangeNotSatisfiable, FullBody, ModBroken, ModError, PastAnswer, PastError,
           PastBroken
  <2> QED BY <2>1, <2>2, <2>3, <2>4, <2>5, <2>6 DEF Next
<1>2. \A s \in Content : Starts(s, posted) => Starts(s, posted')
  BY <1>1, StartsFacts
<1> QED BY <1>1, <1>2 DEF Sound

(* A fresh installation satisfies LogInv.                                  *)
LEMMA LogInit == Init => LogInv
BY AbsentIsNoContent
   DEF Init, LogInv, Upcoming, Growing, Buffering, Unpacked

(* When connections break and nothing worse happens every step keeps LogInv,*)
(* one case per action, the excluded faults first.                         *)
LEMMA LogNext ==
  ASSUME Faults \subseteq {"timeout"}, TypeInv, TypeInv', LogInv, [Next]_vars
  PROVE  LogInv'
<1> USE AbsentIsNoContent, ServerMonotone, BoundsAssumption DEF Growing, Buffering, Unpacked
<1>a. /\ dat \in Content \cup {Absent} /\ sjis \in Content \cup {Absent}
      /\ gzip \in Content \cup {Absent} /\ buffer \in Content
      /\ header \in Stamp \cup {Absent} /\ resp \in Stamp \cup {Absent}
      /\ posted \in Stamp /\ dat' \in Content \cup {Absent}
      /\ sjis' \in Content \cup {Absent} /\ gzip' \in Content \cup {Absent}
      /\ buffer' \in Content
  BY DEF TypeInv, TypeOK, Stamp
<1>b. \A s \in Content : s \o <<>> = s /\ Len(s) \in Nat
  BY EmptyConcat, ChosenContent
<1>c. /\ sjis # Absent => sjis \o buffer \in Content
      /\ gzip # Absent => gzip \o buffer \in Content
      /\ pc \in Growing => sjis # Absent
  BY <1>a, ConcatContent DEF TypeInv, Files
<1>1. CASE Post
  <2>1. /\ UNCHANGED <<life, dat, sjis, gzip, header, pc, req, resp, buffer>>
        /\ Upcoming' = Upcoming
    BY <1>1 DEF Post, disk, memory, Upcoming
  <2>2. /\ sjis # Absent => Sound(sjis, posted', life)
        /\ gzip # Absent => Sound(gzip \o buffer, posted', life)
        /\ pc \in Growing => Starts(sjis \o buffer, posted')
    BY <1>a, <1>c, <2>1 DEF LogInv
  <2> QED BY <2>1, <2>2 DEF LogInv
<1>2. CASE Drop
  BY <1>2, <1>a, <1>b, ConcatContent DEF LogInv, Upcoming, Drop, disk, memory
<1>3. CASE BeginNew
  BY <1>3, <1>a, <1>b, ChosenContent, StartsFacts
     DEF LogInv, Upcoming, BeginNew, Goto, server, Sound
<1>4. CASE BeginMod
  BY <1>4, <1>a, <1>b DEF LogInv, Upcoming, BeginMod, Goto, server, disk
<1>5. CASE NewAnswer
  <2>1. gzip' \o buffer' = Full(posted) /\ gzip' \in Content
    BY <1>5, WrittenThrough, FullContent DEF NewAnswer, TypeInv, TypeOK
  <2>2. Starts(Full(posted), posted) /\ Len(Full(posted)) = posted
    BY SoundBodies, FullContent DEF TypeInv, TypeOK
  <2>3. /\ pc = "newWait" /\ pc' = "saveHeader" /\ resp' = posted
        /\ UNCHANGED <<posted, life, sjis, header, req>>
    BY <1>5 DEF NewAnswer, Goto, server
  <2>4. Upcoming' = Full(posted)
    BY <2>1, <2>3 DEF Upcoming
  <2>5. Full(posted) # Absent /\ Sound(Full(posted), posted, life)
    BY <2>2, FullContent DEF TypeInv, TypeOK, Sound
  <2> QED BY <1>a, <1>b, <2>1, <2>2, <2>3, <2>4, <2>5 DEF LogInv
<1>6. ASSUME NEW s \in {203, 302, 404}, NewError(s) PROVE LogInv'
  <2>1. life # "main" /\ UNCHANGED server
    BY <1>6 DEF NewError, ErrorStatus, Fault, server
  <2>2. PICK page \in ErrorPages : WriteGzip(page)
    BY <1>6 DEF NewError
  <2>3. gzip' \o buffer' = page /\ gzip' \in Content
    BY <2>2, WrittenThrough, ChosenContent
  <2>4. Sound(page, posted, life)
    BY <2>1, SoundBodies
  <2> QED BY <1>6, <1>a, <2>1, <2>3, <2>4 DEF LogInv, Upcoming, NewError, server
<1>7. CASE NewBroken
  <2>1. gzip' \in Content /\ Sound(gzip', posted, life)
    BY <1>7, <1>a, SoundBodies, SoundPrefix, FullContent, ChosenContent
       DEF NewBroken, Sound, Stamp
  <2> QED BY <1>7, <1>a, <1>b, <2>1 DEF LogInv, Upcoming, NewBroken, Goto, server, memory
<1>8. CASE NotModified
  BY <1>8, <1>a, <1>b DEF LogInv, Upcoming, NotModified, Goto, server, disk, NoStamp, Sound, Starts, Stamp
<1>9. CASE PartialContent
  <2>1. sjis \in Content /\ Starts(sjis, posted) /\ req.offset = Len(sjis) /\ Len(sjis) < posted
    BY <1>9, <1>a DEF PartialContent, Goto, LogInv, TypeInv, Files, Sound
  <2>2. Starts(sjis \o buffer', posted) /\ Len(sjis \o buffer') = posted
    BY <1>9, <2>1, SoundBodies DEF PartialContent
  <2>3. /\ pc = "modWait" /\ pc' = "append" /\ resp' = posted /\ life = "main"
        /\ UNCHANGED <<posted, life, dat, sjis, gzip, header, req>>
    BY <1>9 DEF PartialContent, Goto, server, disk
  <2>4. gzip = Absent /\ Upcoming = sjis /\ Upcoming' = sjis \o buffer'
    BY <2>3 DEF LogInv, Upcoming
  <2>5. sjis \o buffer' \in Content /\ (header # Absent => header <= posted)
    BY <1>a, <1>b, <2>1, <2>3, <2>4, ConcatContent DEF LogInv, Stamp
  <2> QED BY <1>a, <1>b, <2>1, <2>2, <2>3, <2>4, <2>5 DEF LogInv
<1>10. CASE RangeNotSatisfiable
  BY <1>10, <1>a, <1>b DEF LogInv, Upcoming, RangeNotSatisfiable, Goto, server, disk, NoStamp, TypeInv, Files
<1>11. CASE FullBody
  BY <1>11 DEF FullBody, Fault
<1>12. CASE ModBroken
  BY <1>12, <1>a DEF LogInv, Upcoming, ModBroken, Goto, server, disk, memory
<1>13. ASSUME NEW s \in {203, 302, 404}, ModError(s) PROVE LogInv'
  <2>1. life # "main" /\ UNCHANGED server
    BY <1>13 DEF ModError, ErrorStatus, Fault, server
  <2> QED BY <1>13, <2>1, <1>a DEF LogInv, Upcoming, ModError, server, disk
<1>14. CASE PastAnswer
  <2>1. gzip' \o buffer' = Full(posted)
    BY <1>14, FullContent, Rejoin DEF PastAnswer, WriteGzip, TypeInv, TypeOK
  <2> QED BY <1>14, <1>a, <2>1, SoundBodies
          DEF LogInv, Upcoming, PastAnswer, WriteGzip, Goto, server, Sound
<1>15. CASE PastError
  BY <1>15, <1>a DEF LogInv, Upcoming, PastError, Goto, server, disk
<1>16. CASE PastBroken
  BY <1>16, <1>a DEF LogInv, Upcoming, PastBroken, Goto, server, disk
<1>17. CASE Append206
  <2>1. sjis' \in Content /\ sjis' \o buffer' = sjis \o buffer
    BY <1>17, AppendMoves
  <2>2. Starts(sjis' \o buffer', posted) /\ Starts(sjis', posted)
    BY <1>17, <1>a, <2>1, StartsFacts DEF Append206, Goto, LogInv
  <2> QED BY <1>17, <1>a, <2>1, <2>2 DEF LogInv, Upcoming, Append206, Goto, server, Sound
<1>18. CASE Reconvert206
  BY <1>18, <1>a DEF LogInv, Upcoming, Reconvert206, Goto, server, memory
<1>19. CASE Flush206
  <2>1. sjis \in Content
    BY <1>19, <1>a DEF Flush206, Goto, TypeInv, Files
  <2>2. sjis' \in Content /\ Starts(sjis', posted) /\ Len(sjis') = resp
    BY <1>19, <1>a, <2>1, ConcatContent DEF Flush206, Goto, LogInv
  <2>3. /\ pc = "flush" /\ pc' = "saveHeader" /\ sjis' = sjis \o buffer /\ buffer' = <<>>
        /\ UNCHANGED <<posted, life, dat, gzip, header, req, resp>>
    BY <1>19 DEF Flush206, Goto, server
  <2>4. gzip = Absent /\ Upcoming = sjis' /\ Upcoming' = sjis'
    BY <2>3 DEF LogInv, Upcoming
  <2>5. /\ Sound(sjis', posted, life) /\ sjis' # Absent
        /\ Len(sjis') \in Nat /\ resp <= Len(sjis')
    BY <1>b, <2>2 DEF Sound
  <2> QED BY <2>3, <2>4, <2>5 DEF LogInv
<1>20. CASE SavePastHeader
  BY <1>20, <1>a DEF LogInv, Upcoming, SavePastHeader, StoreHeader, Goto, server, memory
<1>21. CASE SaveHeader
  BY <1>21, <1>a DEF LogInv, Upcoming, SaveHeader, StoreHeader, Goto, server, memory
<1>22. CASE CloseGzip
  BY <1>22, <1>a, <1>b, ConcatContent DEF LogInv, Upcoming, CloseGzip, Goto, server, TypeInv, Files
<1>23. CASE OpenSjis
  BY <1>23, <1>a, <1>b, SoundPrefix, ChosenContent DEF LogInv, Upcoming, OpenSjis, server, memory
<1>24. CASE Decompress
  BY <1>24, <1>a, <1>b DEF LogInv, Upcoming, Decompress, Goto, server, memory, TypeInv, Files
<1>25. CASE OpenDat
  BY <1>25, <1>a, <1>b DEF LogInv, Upcoming, OpenDat, server, memory
<1>26. CASE ConvertSJISToUTF8
  BY <1>26, <1>a, <1>b DEF LogInv, Upcoming, ConvertSJISToUTF8, Goto, server, memory, TypeInv, Files
<1>27. CASE Return
  BY <1>27, <1>a, <1>b DEF LogInv, Upcoming, Return, Goto, server, memory
<1>28. CASE DeleteDatFile
  BY <1>28 DEF DeleteDatFile, Fault
<1>29. CASE Crash
  BY <1>29 DEF Crash, Fault
<1>30. CASE UNCHANGED vars
  BY <1>30 DEF LogInv, Upcoming, vars, server, disk, memory
<1> QED
  BY <1>1, <1>2, <1>3, <1>4, <1>5, <1>6, <1>7, <1>8, <1>9, <1>10, <1>11, <1>12, <1>13,
     <1>14, <1>15, <1>16, <1>17, <1>18, <1>19, <1>20, <1>21, <1>22, <1>23, <1>24, <1>25,
     <1>26, <1>27, <1>28, <1>29, <1>30
     DEF Next, Call, Fetch, Store

(* The strengthening of LogIsPrefix and HonestHeader holds throughout a call:*)
(* every file and buffer holds a beginning of the thread or what continues it.*)
THEOREM LogInvariant ==
  ASSUME Faults \subseteq {"timeout"}
  PROVE  Spec => []LogInv
<1>1. Init => LogInv
  BY LogInit
<1>2. TypeInv /\ TypeInv' /\ LogInv /\ [Next]_vars => LogInv'
  BY LogNext
<1> QED BY <1>1, <1>2, Typing, PTL DEF Spec

(* When connections break and nothing worse happens, the log is always the *)
(* beginning of the thread, without a gap, a repetition or foreign bytes.  *)
THEOREM LogIsAlwaysPrefix ==
  ASSUME Faults \subseteq {"timeout"}
  PROVE  Spec => []LogIsPrefix
<1>1. TypeInv /\ LogInv => LogIsPrefix
  BY DEF LogInv, LogIsPrefix, Sound, Starts, Beginning
<1> QED BY <1>1, LogInvariant, Typing, PTL

(* ... and the date sent with the next request never hides a response.     *)
THEOREM HeaderIsAlwaysHonest ==
  ASSUME Faults \subseteq {"timeout"}
  PROVE  Spec => []HonestHeader
<1>1. TypeInv /\ LogInv => HonestHeader
  BY DEF LogInv, HonestHeader, Upcoming, Growing
<1> QED BY <1>1, LogInvariant, Typing, PTL

(***************************************************************************)
(* The log whatever goes wrong: no assumption is made on Faults.  What a   *)
(* call that returns owes its user survives broken connections, a busy     *)
(* server, a server that ignores Range, a process that ends during a call  *)
(* and a .dat that is deleted.  The invariant has a part for each of the   *)
(* four properties and one on what the server can have sent.               *)
(***************************************************************************)
(* Once the last step of a call has been reached the window's file is the  *)
(* raw one.                                                                *)
DatInv ==
  /\ pc # "idle" => ~call.done
  /\ pc = "cleanup" \/ Settled => (dat # Absent => dat = sjis)

(* From the archive's answer to the end of the call the whole thread is on *)
(* its way from the gzip file to the log.                                  *)
KakoInv ==
  call.kako =>
    /\ life = "kako"
    /\ pc \notin {"newWait", "modWait", "pastWait"} \cup Growing
    /\ pc \in {"pastHeader", "saveHeader", "close"} =>
         gzip # Absent /\ gzip \o buffer = Full(posted)
    /\ pc \in {"decompress", "unpack"} => gzip = Full(posted)
    /\ pc \in Unpacked \/ Settled => sjis = Full(posted)

(* No file or buffer holds a response the server never had.                *)
Known(file) == file # Absent => \A i \in 1 .. Len(file) : file[i] <= posted

KnownInv == Known(sjis) /\ Known(gzip) /\ Known(buffer) /\ Known(call.base)

(* An update that found no gzip file and does not go to the archive makes  *)
(* none, so nothing is unpacked over the log, which only grows.            *)
KeepInv ==
  call.path = "mod" =>
    /\ pc # "newWait"
    /\ call.base # Absent
    /\ ~call.left /\ ~call.kako =>
         /\ pc # "idle" => gzip = Absent
         /\ pc # "unpack"
         /\ pc \notin Growing => buffer = <<>>
         /\ pc # "idle" \/ call.done => Units(call.base) \subseteq Units(sjis)

(* The log begins with what the call found, and ends with response n in    *)
(* place n.                                                                *)
Grown(file, n) ==
  /\ file \in Content /\ n \in Nat \ {0}
  /\ Len(call.base) <= Len(file) /\ SubSeq(file, 1, Len(call.base)) = call.base
  /\ Len(file) = n /\ file[n] = n

PartInv ==
  /\ pc = "modWait" => call.base = sjis /\ req.offset = Len(sjis) /\ call.path = "mod"
  /\ pc \in Growing => call.path = "mod" /\ call.status = 206
  /\ pc \in {"newWait", "modWait"} => call.status = 0
  /\ call.status = 206 /\ ~call.left =>
       /\ call.path = "mod" /\ ~call.kako
       /\ pc \notin {"newWait", "modWait", "pastWait", "pastHeader", "unpack"}
       /\ pc \in Growing => Grown(sjis \o buffer, resp)
       /\ pc = "saveHeader" => Grown(sjis, resp)
       /\ pc \in {"close", "decompress"} \cup Unpacked \/ Settled => Grown(sjis, header)

FaultInv == DatInv /\ KakoInv /\ KnownInv /\ KeepInv /\ PartInv

(***************************************************************************)
(* The .dat and the .sjis file.                                            *)
(***************************************************************************)
(* Every step keeps DatInv: only the steps between two calls and the last  *)
(* two steps of a call matter.                                             *)
LEMMA DatNext == TypeInv /\ DatInv /\ [Next]_vars => DatInv'
<1> SUFFICES ASSUME TypeInv, DatInv, [Next]_vars PROVE DatInv'
  OBVIOUS
<1> USE HistorySteps DEF DatInv, Settled
<1>1. CASE Post \/ Drop
  BY <1>1 DEF Post, Drop, disk
<1>2. CASE Call
  BY <1>2 DEF Call, BeginNew, BeginMod, Goto
<1>3. CASE Fetch
  <2>1. ASSUME NEW s \in {203, 302, 404}, NewError(s) \/ ModError(s) PROVE DatInv'
    BY <2>1 DEF NewError, ModError, Statuses
  <2>2. CASE NewAnswer \/ NotModified \/ PartialContent \/ RangeNotSatisfiable \/ FullBody
    BY <2>2 DEF NewAnswer, NotModified, PartialContent, RangeNotSatisfiable, FullBody,
                Goto, Statuses
  <2>3. CASE NewBroken \/ ModBroken \/ PastError \/ PastBroken \/ PastAnswer
    BY <2>3 DEF NewBroken, ModBroken, PastError, PastBroken, PastAnswer, Goto
  <2> QED BY <1>3, <2>1, <2>2, <2>3 DEF Fetch
<1>4. CASE Append206 \/ Reconvert206 \/ Flush206 \/ SavePastHeader \/ SaveHeader \/ CloseGzip
  BY <1>4 DEF Append206, Reconvert206, Flush206, SavePastHeader, SaveHeader, CloseGzip, Goto
<1>5. CASE OpenSjis \/ Decompress
  BY <1>5 DEF OpenSjis, Decompress, Goto
<1>6. CASE OpenDat
  BY <1>6 DEF OpenDat, TypeInv, Files
<1>7. CASE ConvertSJISToUTF8
  BY <1>7 DEF ConvertSJISToUTF8, Goto
<1>8. CASE Return
  BY <1>8 DEF Return, Goto
<1>9. CASE DeleteDatFile
  BY <1>9 DEF DeleteDatFile
<1>10. CASE Crash
  BY <1>10 DEF Crash
<1>11. CASE UNCHANGED vars
  BY <1>11 DEF vars, disk
<1> QED
  BY <1>1, <1>2, <1>3, <1>4, <1>5, <1>6, <1>7, <1>8, <1>9, <1>10, <1>11 DEF Next, Store

(* The window shows .dat, the next request is computed from .sjis: whenever*)
(* a call has returned the two agree, whatever was interrupted, appended   *)
(* through an open stream or answered 200 before.                          *)
THEOREM DatAlwaysMatches == Spec => []DatMatchesSjis
<1>1. Init => DatInv
  BY DEF Init, DatInv
<1>2. DatInv => DatMatchesSjis
  BY DEF DatInv, DatMatchesSjis
<1> QED BY <1>1, <1>2, DatNext, Typing, PTL DEF Spec

(***************************************************************************)
(* The archive.                                                            *)
(***************************************************************************)
(* Every step keeps KakoInv: the archive's answer replaces file and buffer,*)
(* the steps after it carry its contents on, a new call starts afresh.     *)
LEMMA KakoNext == TypeInv /\ DatInv /\ KakoInv /\ [Next]_vars => KakoInv'
<1> SUFFICES ASSUME TypeInv, DatInv, KakoInv, [Next]_vars PROVE KakoInv'
  OBVIOUS
<1> USE HistorySteps, AbsentIsNoContent DEF KakoInv, DatInv, Settled, Growing, Unpacked
<1>1. CASE Post \/ Drop
  BY <1>1 DEF Post, Drop, disk, memory
<1>2. CASE Call
  BY <1>2 DEF Call, BeginNew, BeginMod
<1>3. CASE Fetch
  <2>0. pc \in {"newWait", "modWait", "pastWait"} /\ call'.kako = call.kako => KakoInv'
    OBVIOUS
  <2>1. ASSUME NEW s \in {203, 302, 404}, NewError(s) \/ ModError(s) PROVE KakoInv'
    <3>1. call'.kako = call.kako
      BY <2>1 DEF NewError, ModError, Statuses
    <3> QED BY <2>0, <2>1, <3>1 DEF NewError, ModError
  <2>2. CASE NewAnswer \/ NotModified \/ PartialContent \/ RangeNotSatisfiable \/ FullBody
    <3>1. call'.kako = call.kako
      BY <2>2 DEF NewAnswer, NotModified, PartialContent, RangeNotSatisfiable, FullBody,
                  Statuses
    <3> QED BY <2>0, <2>2, <3>1
            DEF NewAnswer, NotModified, PartialContent, RangeNotSatisfiable, FullBody, Goto
  <2>3. CASE NewBroken \/ ModBroken \/ PastError \/ PastBroken
    BY <2>3 DEF NewBroken, ModBroken, PastError, PastBroken, Goto
  <2>4. CASE PastAnswer
    <3>1. Full(posted) \in Content
      BY FileTypes, FullContent DEF Stamp
    <3>2. gzip' \in Content /\ gzip' \o buffer' = Full(posted)
      BY <2>4, <3>1, WrittenThrough DEF PastAnswer
    <3>3. life' = "kako" /\ posted' = posted /\ pc' = "pastHeader"
      BY <2>4 DEF PastAnswer, Goto, server
    <3>4. Full(posted)' = Full(posted)
      BY <3>3
    <3> QED BY <3>2, <3>3, <3>4
  <2> QED BY <1>3, <2>1, <2>2, <2>3, <2>4 DEF Fetch
<1>4. CASE Append206 \/ Reconvert206 \/ Flush206
  BY <1>4 DEF Append206, Reconvert206, Flush206, Goto
<1>5. CASE SavePastHeader \/ SaveHeader
  BY <1>5 DEF SavePastHeader, SaveHeader, Goto, server, memory
<1>6. CASE CloseGzip
  <2>1. buffer = <<>> /\ gzip # Absent => gzip \o buffer = gzip
    BY FileTypes, EmptyConcat
  <2> QED BY <1>6, <2>1 DEF CloseGzip, Goto, server
<1>7. CASE OpenSjis \/ Decompress
  <2>1. Full(posted) # Absent
    BY FileTypes, FullContent DEF Stamp
  <2> QED BY <1>7, <2>1 DEF OpenSjis, Decompress, Goto, server
<1>8. CASE OpenDat \/ ConvertSJISToUTF8
  BY <1>8 DEF OpenDat, ConvertSJISToUTF8, Goto, server
<1>9. CASE Return
  BY <1>9 DEF Return, Goto, server
<1>10. CASE DeleteDatFile
  BY <1>10 DEF DeleteDatFile, server
<1>11. CASE Crash
  BY <1>11 DEF Crash, server
<1>12. CASE UNCHANGED vars
  BY <1>12 DEF vars, server, disk, memory
<1> QED
  BY <1>1, <1>2, <1>3, <1>4, <1>5, <1>6, <1>7, <1>8, <1>9, <1>10, <1>11, <1>12
     DEF Next, Store

(* The pages of the busy server and the archive's answer go to the same    *)
(* gzip file: a call that got the thread from the archive shows all of it. *)
THEOREM ArchiveAlwaysWins == Spec => []ArchiveWins
<1>1. Init => DatInv /\ KakoInv
  BY DEF Init, DatInv, KakoInv
<1>2. DatInv /\ KakoInv => ArchiveWins
  BY DEF DatInv, KakoInv, ArchiveWins
<1> QED BY <1>1, <1>2, DatNext, KakoNext, Typing, PTL DEF Spec

(***************************************************************************)
(* Nothing the server never had.                                           *)
(***************************************************************************)
(* What the server sends, what a stream cuts and what an append joins holds*)
(* known responses only.                                                   *)
LEMMA KnownContents ==
  ASSUME TypeInv
  PROVE  /\ Known(Full(posted)) /\ Known(<<>>) /\ Known(<<Junk>>)
         /\ \A o \in Nat : o < posted => Known(After(o))
         /\ \A s \in Content, t \in Content : Known(s) /\ Known(t) <=> Known(s \o t)
         /\ \A s \in Content : \A t \in Prefix(s) : Known(s) => Known(t)
<1> USE FileTypes, AbsentIsNoContent DEF Known
<1>1. Known(Full(posted)) /\ Known(<<>>) /\ Known(<<Junk>>)
  BY FullContent, ChosenContent DEF Stamp, Junk
<1>2. \A o \in Nat : o < posted => Known(After(o))
  <2> SUFFICES ASSUME NEW o \in Nat, o < posted PROVE Known(After(o))
    OBVIOUS
  <2>1. /\ Len(After(o)) = posted - o
        /\ \A i \in 1 .. posted - o : After(o)[i] = o + i
    BY AfterContent DEF Stamp
  <2> QED BY <2>1
<1>3. \A s \in Content, t \in Content : Known(s) /\ Known(t) <=> Known(s \o t)
  <2> SUFFICES ASSUME NEW s \in Content, NEW t \in Content
               PROVE  Known(s) /\ Known(t) <=> Known(s \o t)
    OBVIOUS
  <2>1. Len(s) \in Nat /\ Len(t) \in Nat /\ s \o t \in Content
    BY ChosenContent, ConcatContent
  <2>2. Len(s \o t) = Len(s) + Len(t)
    BY ConcatContent
  <2>3. \A i \in 1 .. Len(s) : i \in 1 .. Len(s) + Len(t) /\ (s \o t)[i] = s[i]
    BY <2>1, ConcatContent
  <2>4. \A i \in 1 .. Len(t) : Len(s) + i \in 1 .. Len(s) + Len(t) /\ (s \o t)[Len(s) + i] = t[i]
    BY <2>1, ConcatContent
  <2>5. \A i \in 1 .. Len(s) + Len(t) :
          i \in 1 .. Len(s) \/ \E k \in 1 .. Len(t) : i = Len(s) + k
    <3> SUFFICES ASSUME NEW i \in 1 .. Len(s) + Len(t), i \notin 1 .. Len(s)
                 PROVE  \E k \in 1 .. Len(t) : i = Len(s) + k
      OBVIOUS
    <3>1. i - Len(s) \in 1 .. Len(t) /\ i = Len(s) + (i - Len(s))
      BY <2>1
    <3> QED BY <3>1
  <2>6. ASSUME Known(s), Known(t) PROVE Known(s \o t)
    <3> SUFFICES ASSUME NEW i \in 1 .. Len(s) + Len(t) PROVE (s \o t)[i] <= posted
      BY <2>2
    <3>1. Known(s) /\ Known(t) /\ s # Absent /\ t # Absent
      BY <2>6
    <3>2. CASE i \in 1 .. Len(s)
      BY <2>3, <3>1, <3>2
    <3>3. CASE \E k \in 1 .. Len(t) : i = Len(s) + k
      BY <2>4, <3>1, <3>3
    <3> QED BY <2>5, <3>2, <3>3
  <2>7. ASSUME Known(s \o t) PROVE Known(s) /\ Known(t)
    <3>1. \A i \in 1 .. Len(s) + Len(t) : (s \o t)[i] <= posted
      BY <2>1, <2>2, <2>7
    <3>2. Known(s)
      BY <2>3, <3>1
    <3>3. Known(t)
      BY <2>4, <3>1
    <3> QED BY <3>2, <3>3
  <2> QED BY <2>6, <2>7
<1>4. \A s \in Content : \A t \in Prefix(s) : Known(s) => Known(t)
  <2> SUFFICES ASSUME NEW s \in Content, NEW n \in 0 .. Len(s), Known(s)
               PROVE  Known(SubSeq(s, 1, n))
    BY DEF Prefix
  <2>1. Len(s) \in Nat /\ Len(SubSeq(s, 1, n)) = n
    BY CutContent, ChosenContent
  <2>2. \A i \in 1 .. n : SubSeq(s, 1, n)[i] = s[i] /\ i \in 1 .. Len(s)
    BY <2>1, CutContent
  <2>3. s # Absent
    OBVIOUS
  <2> QED BY <2>1, <2>2, <2>3
<1> QED BY <1>1, <1>2, <1>3, <1>4

(* Every step keeps KnownInv.                                              *)
LEMMA KnownNext == TypeInv /\ KnownInv /\ [Next]_vars => KnownInv'
<1> SUFFICES ASSUME TypeInv, KnownInv, [Next]_vars PROVE KnownInv'
  OBVIOUS
<1> USE HistorySteps, FileTypes, AbsentIsNoContent DEF KnownInv
<1>k. posted' = posted => \A f : Known(f) <=> Known(f)'
  BY DEF Known
<1>1. CASE Post \/ Drop
  <2>1. posted' \in Nat /\ posted <= posted'
    BY ServerMonotone
  <2>2. \A s \in Content \cup {Absent} :
          Known(s) /\ s # Absent => \A i \in 1 .. Len(s) : s[i] <= posted'
    <3> SUFFICES ASSUME NEW s \in Content, Known(s), NEW i \in 1 .. Len(s)
                 PROVE  s[i] <= posted'
      OBVIOUS
    <3>1. s[i] \in Nat
      BY ElementOfSeq, BoundsAssumption DEF Content
    <3> QED BY <2>1, <3>1 DEF Known
  <2>3. UNCHANGED <<sjis, gzip, buffer, call>>
    BY <1>1 DEF Post, Drop, disk, memory
  <2> QED BY <2>2, <2>3 DEF Known
<1>2. CASE Call
  <2>1. posted' = posted /\ UNCHANGED sjis /\ call'.base = sjis /\ buffer' = <<>>
        /\ gzip' \in {gzip, <<>>}
    BY <1>2 DEF Call, BeginNew, BeginMod, disk, server
  <2> QED BY <2>1, <1>k, KnownContents
<1>3. CASE Fetch
  <2>1. ASSUME NEW s \in {203, 302, 404}, NewError(s) PROVE KnownInv'
    <3>1. PICK page \in ErrorPages : WriteGzip(page)
      BY <2>1 DEF NewError
    <3>2. page \in Content /\ Known(page)
      BY ChosenContent, KnownContents DEF ErrorPages
    <3>3. gzip' \in Content /\ buffer' \in Content /\ gzip' \o buffer' = page
      BY <3>1, <3>2, WrittenThrough
    <3>4. Known(gzip') /\ Known(buffer')
      BY <3>2, <3>3, KnownContents
    <3>5. posted' = posted /\ sjis' = sjis /\ call'.base = call.base
      BY <2>1 DEF NewError, server, Statuses
    <3> QED BY <3>4, <3>5, <1>k
  <2>2. ASSUME NEW s \in {203, 302, 404}, ModError(s) PROVE KnownInv'
    BY <2>2, <1>k DEF ModError, server, disk, Statuses
  <2>3. CASE NewAnswer \/ PastAnswer
    <3>1. Full(posted) \in Content /\ Known(Full(posted))
      BY FullContent, KnownContents DEF Stamp
    <3>2. gzip' \in Content /\ buffer' \in Content /\ gzip' \o buffer' = Full(posted)
      BY <2>3, <3>1, WrittenThrough DEF NewAnswer, PastAnswer
    <3>3. Known(gzip') /\ Known(buffer')
      BY <3>1, <3>2, KnownContents
    <3>4. posted' = posted /\ sjis' = sjis /\ call'.base = call.base
      BY <2>3 DEF NewAnswer, PastAnswer, server, Statuses
    <3> QED BY <3>3, <3>4, <1>k
  <2>4. CASE NewBroken
    <3>1. Known(gzip')
      <4>1. Full(posted) \in Content
        BY FullContent DEF Stamp
      <4> QED BY <2>4, <4>1, KnownContents DEF NewBroken, ErrorPages
    <3> QED BY <2>4, <3>1, <1>k DEF NewBroken, server, memory
  <2>5. CASE PartialContent
    <3>1. Known(buffer')
      BY <2>5, KnownContents DEF PartialContent, TypeInv, TypeOK
    <3> QED BY <2>5, <3>1, <1>k DEF PartialContent, server, disk, Statuses
  <2>6. CASE NotModified \/ RangeNotSatisfiable \/ FullBody
    BY <2>6, <1>k DEF NotModified, RangeNotSatisfiable, FullBody, server, disk, Statuses
  <2>7. CASE ModBroken \/ PastError \/ PastBroken
    BY <2>7, <1>k DEF ModBroken, PastError, PastBroken, server, disk, memory
  <2> QED BY <1>3, <2>1, <2>2, <2>3, <2>4, <2>5, <2>6, <2>7 DEF Fetch
<1>4. CASE Append206
  <2>1. Known(sjis \o buffer)
    BY <1>4, AppendMoves, KnownContents
  <2>2. Known(sjis') /\ Known(buffer')
    BY <1>4, <2>1, AppendMoves, KnownContents
  <2> QED BY <1>4, <2>2, <1>k DEF Append206, server
<1>5. CASE Flush206
  <2>1. Known(sjis')
    BY <1>5, KnownContents DEF Flush206, Goto, TypeInv, Files
  <2> QED BY <1>5, <2>1, <1>k, KnownContents DEF Flush206, server
<1>6. CASE CloseGzip
  <2>1. Known(gzip')
    BY <1>6, KnownContents DEF CloseGzip, Goto, TypeInv, Files
  <2> QED BY <1>6, <2>1, <1>k, KnownContents DEF CloseGzip, server
<1>7. CASE Reconvert206 \/ SavePastHeader \/ SaveHeader
  BY <1>7, <1>k DEF Reconvert206, SavePastHeader, SaveHeader, server, memory
<1>8. CASE OpenSjis
  <2>1. Known(sjis')
    BY <1>8, KnownContents DEF OpenSjis
  <2> QED BY <1>8, <2>1, <1>k DEF OpenSjis, server, memory
<1>9. CASE Decompress \/ OpenDat \/ ConvertSJISToUTF8
  BY <1>9, <1>k DEF Decompress, OpenDat, ConvertSJISToUTF8, server, memory
<1>10. CASE Return
  <2>1. Known(Absent)'
    BY DEF Known
  <2> QED BY <1>10, <2>1, <1>k DEF Return, server, memory
<1>11. CASE DeleteDatFile
  BY <1>11, <1>k DEF DeleteDatFile, server, memory
<1>12. CASE Crash
  BY <1>12, <1>k, KnownContents DEF Crash, server, disk
<1>13. CASE UNCHANGED vars
  BY <1>13, <1>k DEF vars, server, disk, memory
<1> QED
  BY <1>1, <1>2, <1>3, <1>4, <1>5, <1>6, <1>7, <1>8, <1>9, <1>10, <1>11, <1>12, <1>13
     DEF Next, Store

(***************************************************************************)
(* An update keeps what it found.                                          *)
(***************************************************************************)
(* The responses of a log, and that appending keeps them.                  *)
LEMMA UnitsGrow ==
  ASSUME NEW s \in Content, NEW t \in Content
  PROVE  Units(s) \subseteq Units(s \o t)
<1> SUFFICES ASSUME NEW i \in 1 .. Len(s), s[i] # Junk
             PROVE  s[i] \in Units(s \o t)
  BY AbsentIsNoContent DEF Units
<1>1. Len(s) \in Nat /\ Len(t) \in Nat
  BY ChosenContent
<1>2. i \in 1 .. Len(s) + Len(t) /\ (s \o t)[i] = s[i]
  BY <1>1, ConcatContent
<1>3. s \o t \in Content /\ Len(s \o t) = Len(s) + Len(t)
  BY ConcatContent
<1> QED BY <1>2, <1>3, AbsentIsNoContent DEF Units

(* Every step keeps KeepInv: the steps of DownloadThreadMod only add to the*)
(* .sjis file, and without a gzip file nothing is unpacked over it.        *)
LEMMA KeepNext ==
  TypeInv /\ DatInv /\ KakoInv /\ PartInv /\ KeepInv /\ [Next]_vars => KeepInv'
<1> SUFFICES ASSUME TypeInv, DatInv, KakoInv, PartInv, KeepInv, [Next]_vars PROVE KeepInv'
  OBVIOUS
<1> USE HistorySteps, FileTypes, AbsentIsNoContent DEF KeepInv, DatInv, Growing
<1>u. /\ call'.base = call.base => Units(call.base)' = Units(call.base)
      /\ sjis' = sjis => Units(sjis)' = Units(sjis)
  BY DEF Units
<1>1. CASE Post \/ Drop
  BY <1>1, <1>u DEF Post, Drop, disk, memory
<1>2. CASE BeginNew
  BY <1>2 DEF BeginNew
<1>3. CASE BeginMod
  <2>1. /\ call'.base = sjis /\ sjis' = sjis /\ sjis # Absent /\ pc' = "modWait"
        /\ gzip' = gzip /\ call'.left = (gzip # Absent) /\ buffer' = <<>>
    BY <1>3 DEF BeginMod, Goto, disk
  <2>2. Units(call'.base) \subseteq Units(sjis')
    BY <2>1
  <2> QED BY <2>1, <2>2 DEF Units
<1>4. CASE Fetch
  <2>1. ASSUME NEW s \in {203, 302, 404}, NewError(s) PROVE KeepInv'
    BY <2>1 DEF NewError, Statuses
  <2>2. ASSUME NEW s \in {203, 302, 404}, ModError(s) PROVE KeepInv'
    BY <2>2, <1>u DEF ModError, Statuses, disk
  <2>3. CASE NewAnswer \/ NewBroken
    BY <2>3 DEF NewAnswer, NewBroken, Goto, Statuses
  <2>4. CASE NotModified \/ RangeNotSatisfiable \/ FullBody
    BY <2>4, <1>u DEF NotModified, RangeNotSatisfiable, FullBody, Goto, Statuses, disk
  <2>5. CASE PartialContent
    BY <2>5, <1>u DEF PartialContent, Goto, Statuses, disk
  <2>6. CASE ModBroken \/ PastError \/ PastBroken
    BY <2>6, <1>u DEF ModBroken, PastError, PastBroken, Goto, disk, memory
  <2>7. CASE PastAnswer
    BY <2>7 DEF PastAnswer, Goto
  <2> QED BY <1>4, <2>1, <2>2, <2>3, <2>4, <2>5, <2>6, <2>7 DEF Fetch
<1>5. CASE Append206
  <2>1. Units(sjis) \subseteq Units(sjis')
    BY <1>5, AppendMoves, UnitsGrow
  <2> QED BY <1>5, <1>u, <2>1 DEF Append206, Goto, Units
<1>6. CASE Flush206
  <2>1. Units(sjis) \subseteq Units(sjis')
    BY <1>6, UnitsGrow DEF Flush206, Goto, TypeInv, Files
  <2> QED BY <1>6, <1>u, <2>1 DEF Flush206, Goto, Units
<1>7. CASE Reconvert206 \/ SavePastHeader \/ SaveHeader
  BY <1>7, <1>u DEF Reconvert206, SavePastHeader, SaveHeader, Goto, memory
<1>8. CASE CloseGzip
  BY <1>8, <1>u DEF CloseGzip, Goto
<1>9. CASE OpenSjis
  BY <1>9, <1>u DEF OpenSjis, memory
<1>10. CASE Decompress
  BY <1>10 DEF Decompress, Goto
<1>11. CASE OpenDat \/ ConvertSJISToUTF8
  BY <1>11, <1>u DEF OpenDat, ConvertSJISToUTF8, Goto, memory
<1>12. CASE Return
  BY <1>12, <1>u DEF Return, Goto, memory
<1>13. CASE DeleteDatFile
  BY <1>13, <1>u DEF DeleteDatFile, memory
<1>14. CASE Crash
  BY <1>14, <1>u DEF Crash, disk
<1>15. CASE UNCHANGED vars
  BY <1>15, <1>u DEF vars, disk, memory
<1> QED
  BY <1>1, <1>2, <1>3, <1>4, <1>5, <1>6, <1>7, <1>8, <1>9, <1>10, <1>11, <1>12, <1>13,
     <1>14, <1>15
     DEF Next, Call, Store

(***************************************************************************)
(* An update answered 206 adds the new part.                               *)
(***************************************************************************)
(* The log of n responses followed by those after n ends with the newest   *)
(* one, in its place.                                                      *)
LEMMA PartGrows ==
  ASSUME TypeInv, sjis \in Content, call.base = sjis, Len(sjis) < posted
  PROVE  Grown(sjis \o After(Len(sjis)), posted)
<1> DEFINE o == Len(sjis)
           new == After(o)
<1>1. o \in Nat /\ posted \in Nat /\ posted \in 0 .. MaxPosts
  BY ChosenContent, FileTypes DEF Stamp
<1>2. new \in Content /\ Len(new) = posted - o /\ new[posted - o] = posted
  <2>1. posted - o \in 1 .. posted - o
    BY <1>1
  <2>2. new[posted - o] = o + (posted - o)
    BY <1>1, <2>1, AfterContent
  <2> QED BY <1>1, <2>2, AfterContent
<1> HIDE DEF new
<1>3. sjis \o new \in Content /\ Len(sjis \o new) = posted
  BY <1>1, <1>2, ConcatContent
<1>4. (sjis \o new)[posted] = posted
  <2>1. posted \in 1 .. Len(sjis) + Len(new) /\ ~(posted <= Len(sjis))
    BY <1>1, <1>2
  <2>2. (sjis \o new)[posted] = new[posted - Len(sjis)]
    BY <2>1, ConcatContent
  <2> QED BY <1>2, <2>2
<1>5. SubSeq(sjis \o new, 1, o) = sjis
  <2>1. sjis \in Seq(0 .. MaxPosts) /\ new \in Seq(0 .. MaxPosts)
    BY <1>2 DEF Content
  <2>2. SubSeq(sjis \o new, 1, o) = SubSeq(sjis, 1, o)
    BY <1>1, <2>1, SubSeqOfConcat1
  <2> QED BY <2>1, <2>2, SubSeqFull
<1> QED BY <1>1, <1>3, <1>4, <1>5 DEF new, Grown

(* Every step keeps PartInv.                                               *)
LEMMA PartNext ==
  TypeInv /\ DatInv /\ KakoInv /\ KeepInv /\ PartInv /\ [Next]_vars => PartInv'
<1> SUFFICES ASSUME TypeInv, DatInv, KakoInv, KeepInv, PartInv, [Next]_vars PROVE PartInv'
  OBVIOUS
<1> USE HistorySteps, FileTypes, AbsentIsNoContent DEF PartInv, Growing, Unpacked, Settled
<1>g. call'.base = call.base => \A f, n : Grown(f, n)' <=> Grown(f, n)
  BY DEF Grown
<1>1. CASE Post \/ Drop
  BY <1>1, <1>g DEF Post, Drop, disk, memory
<1>2. CASE BeginNew
  BY <1>2 DEF BeginNew, Goto
<1>3. CASE BeginMod
  BY <1>3 DEF BeginMod, Goto, disk
<1>4. CASE Fetch
  <2>1. ASSUME NEW s \in {203, 302, 404}, NewError(s) \/ ModError(s) PROVE PartInv'
    <3>1. call'.status = s /\ pc' \in {"saveHeader", "pastWait"}
      BY <2>1 DEF NewError, ModError, Statuses
    <3> QED BY <3>1
  <2>2. CASE NewAnswer \/ NotModified \/ RangeNotSatisfiable \/ FullBody
    <3>1. call'.status \in {200, 304, 416} /\ pc' = "saveHeader"
      BY <2>2 DEF NewAnswer, NotModified, RangeNotSatisfiable, FullBody, Goto, Statuses
    <3> QED BY <3>1
  <2>3. CASE PartialContent
    <3>1. /\ pc = "modWait" /\ pc' = "append" /\ call.base = sjis /\ sjis \in Content
          /\ buffer' = After(Len(sjis)) /\ resp' = posted /\ Len(sjis) < posted
          /\ sjis' = sjis /\ call'.base = call.base /\ call'.path = "mod"
          /\ call'.status = 206 /\ call'.kako = call.kako
      BY <2>3 DEF PartialContent, Goto, Statuses, disk, TypeInv, Files
    <3>2. Grown(sjis' \o buffer', resp')
      BY <3>1, PartGrows
    <3>3. ~call.kako
      BY <2>3 DEF PartialContent, Goto, KakoInv
    <3> QED BY <3>1, <3>2, <3>3 DEF Grown
  <2>4. CASE NewBroken \/ ModBroken \/ PastError \/ PastBroken
    BY <2>4 DEF NewBroken, ModBroken, PastError, PastBroken, Goto, disk, memory
  <2>5. CASE PastAnswer
    BY <2>5 DEF PastAnswer, Goto
  <2> QED BY <1>4, <2>1, <2>2, <2>3, <2>4, <2>5 DEF Fetch
<1>5. CASE Append206
  BY <1>5, <1>g, AppendMoves DEF Append206, Goto
<1>6. CASE Reconvert206
  BY <1>6, <1>g DEF Reconvert206, Goto, memory
<1>7. CASE Flush206
  BY <1>7, <1>g DEF Flush206, Goto
<1>8. CASE SavePastHeader
  BY <1>8 DEF SavePastHeader, Goto
<1>9. CASE SaveHeader
  <2>1. resp # Absent /\ call.status = 206 /\ ~call.left => header' = resp
    BY <1>9 DEF SaveHeader, StoreHeader
  <2>2. Grown(sjis, resp) => resp # Absent
    BY AbsentAssumption DEF Grown
  <2> QED BY <1>9, <1>g, <2>1, <2>2 DEF SaveHeader, Goto, memory
<1>10. CASE CloseGzip
  BY <1>10, <1>g DEF CloseGzip, Goto
<1>11. CASE OpenSjis
  BY <1>11, <1>g DEF OpenSjis, memory, KeepInv
<1>12. CASE Decompress
  BY <1>12 DEF Decompress, Goto
<1>13. CASE OpenDat \/ ConvertSJISToUTF8
  BY <1>13, <1>g DEF OpenDat, ConvertSJISToUTF8, Goto, memory
<1>14. CASE Return
  BY <1>14, <1>g DEF Return, Goto, memory
<1>15. CASE DeleteDatFile
  BY <1>15, <1>g DEF DeleteDatFile, memory
<1>16. CASE Crash
  BY <1>16, <1>g DEF Crash, disk, DatInv
<1>17. CASE UNCHANGED vars
  BY <1>17, <1>g DEF vars, disk, memory
<1> QED
  BY <1>1, <1>2, <1>3, <1>4, <1>5, <1>6, <1>7, <1>8, <1>9, <1>10, <1>11, <1>12, <1>13,
     <1>14, <1>15, <1>16, <1>17
     DEF Next, Call, Store

(***************************************************************************)
(* The parts together.                                                     *)
(***************************************************************************)
(* The strengthening holds throughout, whatever the faults: where the call *)
(* is decides what its files, its buffer and the log hold.                 *)
THEOREM FaultInvariant == Spec => []FaultInv
<1>1. Init => FaultInv
  BY AbsentIsNoContent, ChosenContent
     DEF Init, FaultInv, DatInv, KakoInv, KnownInv, KeepInv, PartInv, Known, Growing
<1>2. TypeInv /\ FaultInv /\ [Next]_vars => FaultInv'
  BY DatNext, KakoNext, KnownNext, KeepNext, PartNext DEF FaultInv
<1> QED BY <1>1, <1>2, Typing, PTL DEF Spec

(* An update that starts without a left-over gzip file keeps every response*)
(* it found, whatever the server answers and wherever the connection breaks.*)
THEOREM UpdateAlwaysKeepsLog == Spec => []UpdateKeepsLog
<1>1. TypeInv /\ FaultInv => UpdateKeepsLog
  <2> SUFFICES ASSUME TypeInv, FaultInv, Settled, call.path = "mod", ~call.left
               PROVE  Units(call.base) \subseteq Units(sjis)
    BY DEF UpdateKeepsLog
  <2> USE FileTypes, AbsentIsNoContent
  <2>1. CASE ~call.kako
    BY <2>1 DEF FaultInv, KeepInv, Settled
  <2>2. CASE call.kako
    <3>1. sjis = Full(posted) /\ call.base \in Content /\ Known(call.base)
      BY <2>2 DEF FaultInv, KakoInv, KnownInv, KeepInv, Settled
    <3>2. Full(posted) # Absent /\ Len(Full(posted)) = posted
          /\ \A i \in 1 .. posted : Full(posted)[i] = i
      BY FullContent DEF Stamp
    <3>3. ASSUME NEW i \in 1 .. Len(call.base), call.base[i] # Junk
          PROVE  call.base[i] \in Units(sjis)
      <4>1. call.base[i] \in Nat /\ call.base[i] <= posted
        BY <3>1, ElementOfSeq, BoundsAssumption DEF Known, Content
      <4>2. call.base[i] \in 1 .. posted
        BY <3>3, <4>1 DEF Junk
      <4> QED BY <3>1, <3>2, <3>3, <4>2 DEF Units
    <3> QED BY <3>1, <3>3 DEF Units
  <2> QED BY <2>1, <2>2
<1> QED BY <1>1, FaultInvariant, Typing, PTL

(* An update answered 206 ends with the newest response in the log, in the *)
(* place after the one it had.                                             *)
THEOREM PartIsStored == Spec => []PartStored
<1>1. FaultInv => PartStored
  BY DEF FaultInv, PartInv, PartStored, Grown
<1> QED BY <1>1, FaultInvariant, PTL
=============================================================================
