-------------------------- MODULE ThreadMirrorProofs --------------------------
(***************************************************************************)
(* When connections break and nothing worse happens, ThreadLog implements  *)
(* ThreadMirror: MirrorsThread for every bound.                            *)
(***************************************************************************)
EXTENDS ThreadLogProofs

(***************************************************************************)
(* What a call in progress still owes to the log it found, on top of       *)
(* TypeInv and LogInv: an update will leave the log it began with, or a    *)
(* longer beginning of the thread.                                         *)
(***************************************************************************)
Owed ==
  \/ Upcoming = call.base
  \/ Starts(Upcoming, posted) /\ Len(call.base) <= Len(Upcoming)

UpdateInv ==
  /\ header # Absent
  /\ pc # "reconvert" => dat # Absent
  /\ call.base \in Content /\ Sound(call.base, posted, life)
  /\ Owed

MirrorInv ==
  /\ posted >= 1
  /\ pc = "newWait" => call.path = "new"
  /\ pc # "idle" => \/ call.path = "new" /\ gzip # Absent
                    \/ call.path = "mod" /\ UpdateInv

(* A beginning of the thread is the thread up to its length.               *)
LEMMA StartsIsFull ==
  ASSUME NEW s \in Content, NEW p \in Nat, Starts(s, p)
  PROVE  s = Full(Len(s)) /\ Len(s) \in 0 .. p
<1>1. Len(s) \in Nat /\ DOMAIN s = 1 .. Len(s) /\ s = [i \in 1 .. Len(s) |-> s[i]]
  BY LenProperties DEF Content
<1>2. \A i \in 1 .. Len(s) : s[i] = i
  BY DEF Starts
<1> QED BY <1>1, <1>2 DEF Full, Starts

(* A sound log is no longer than the thread.                               *)
LEMMA SoundIsShort ==
  ASSUME NEW s \in Content, NEW p \in Nat, p >= 1, NEW l, Sound(s, p, l)
  PROVE  Len(s) \in Nat /\ Len(s) <= p
<1>1. Len(s) \in Nat
  BY ChosenContent
<1>2. CASE Starts(s, p)
  BY <1>1, <1>2 DEF Starts
<1>3. CASE s = <<Junk>>
  BY <1>3
<1> QED BY <1>1, <1>2, <1>3 DEF Sound

(* A fresh installation satisfies MirrorInv.                               *)
LEMMA MirrorInit == Init => MirrorInv
BY BoundsAssumption DEF Init, MirrorInv

(* The log an update is about to leave is there.                           *)
LEMMA UpcomingContent ==
  ASSUME TypeInv, UpdateInv
  PROVE  Upcoming \in Content
<1>1. sjis # Absent
  BY DEF UpdateInv, TypeInv, Files
<1> QED BY <1>1, ConcatContent DEF TypeInv, TypeOK, Upcoming

(* A step that changes neither the log to come nor the call's history      *)
(* keeps what is owed.                                                     *)
LEMMA StillOwed ==
  ASSUME TypeInv, [Next]_vars, UpdateInv, Upcoming' = Upcoming, call'.base = call.base,
         header' # Absent, pc' # "reconvert" => dat' # Absent
  PROVE  UpdateInv'
<1>1. Upcoming \in Content
  BY UpcomingContent
<1>2. (call.base)' \in Content /\ Sound((call.base)', posted', life')
  BY ServerMonotone DEF UpdateInv
<1>3. Owed'
  BY <1>1, ServerMonotone DEF UpdateInv, Owed
<1> QED BY <1>2, <1>3 DEF UpdateInv

(* What the steps of a call write into its history leaves the branch and   *)
(* the log it found as they were.                                          *)
LEMMA HistoryKept ==
  ASSUME call \in History
  PROVE  /\ \A status \in Statuses : Answered(status) =>
              call'.path = call.path /\ call'.base = call.base
         /\ call' = [call EXCEPT !.kako = TRUE] =>
              call'.path = call.path /\ call'.base = call.base
         /\ call' = [call EXCEPT !.done = TRUE] =>
              call'.path = call.path /\ call'.base = call.base
BY DEF Answered, History

(* The steps that fetch, one case per action; those that need a fault other*)
(* than a broken connection cannot happen.                                 *)
LEMMA MirrorFetch ==
  ASSUME Faults \subseteq {"timeout"}, TypeInv, LogInv, MirrorInv, Fetch
  PROVE  MirrorInv'
<1> USE HistoryKept, AbsentIsNoContent DEF Growing, Goto, server
<1>0. [Next]_vars
  BY DEF Next
<1>1. posted' >= 1
  BY <1>0, ServerMonotone DEF MirrorInv
<1>2. call \in History /\ pc # "idle" /\ resp \in Stamp \cup {Absent}
  BY DEF TypeInv, TypeOK, Fetch, NewAnswer, NewBroken, NewError, NotModified, PartialContent,
         RangeNotSatisfiable, FullBody, ModBroken, ModError, PastAnswer, PastError, PastBroken
<1>3. CASE NewAnswer
  <2>1. call'.path = "new" /\ gzip' # Absent /\ pc' = "saveHeader"
    <3>1. gzip' \in Content
      BY <1>3, WrittenThrough, FullContent DEF NewAnswer, TypeInv, TypeOK
    <3> QED BY <1>2, <1>3, <3>1 DEF NewAnswer, Statuses, MirrorInv
  <2> QED BY <1>1, <2>1 DEF MirrorInv
<1>4. ASSUME NEW s \in {203, 302, 404}, NewError(s) PROVE MirrorInv'
  <2>1. gzip' # Absent
    BY <1>4, WrittenThrough, ChosenContent DEF NewError
  <2>2. call'.path = "new" /\ pc' \in {"saveHeader", "pastWait"}
    BY <1>2, <1>4 DEF NewError, Statuses, MirrorInv
  <2> QED BY <1>1, <2>1, <2>2 DEF MirrorInv
<1>5. CASE NewBroken
  <2>1. gzip' # Absent
    BY <1>5, FullContent, ChosenContent DEF NewBroken, TypeInv, TypeOK
  <2> QED BY <1>1, <1>5, <2>1 DEF NewBroken, MirrorInv
<1>6. CASE PartialContent
  <2>1. /\ pc = "modWait" /\ pc' = "append" /\ buffer' = After(req.offset)
        /\ req.offset < posted /\ call'.path = call.path /\ call'.base = call.base
        /\ UNCHANGED <<posted, life, dat, sjis, gzip, header>>
    BY <1>2, <1>6 DEF PartialContent, disk, Statuses
  <2>2. CASE call.path = "new"
    BY <1>1, <2>1, <2>2 DEF MirrorInv
  <2>3. CASE call.path = "mod"
    <3>1. gzip = Absent /\ Upcoming = sjis /\ Upcoming' = sjis \o After(Len(sjis))
          /\ req.offset = Len(sjis)
      BY <2>1 DEF LogInv, Upcoming
    <3>2. UpdateInv
      BY <2>1, <2>3 DEF MirrorInv
    <3>3. sjis \in Content /\ Starts(sjis, posted)
      BY <2>1, <1>6, <3>2 DEF UpdateInv, TypeInv, TypeOK, Files, LogInv, Sound, PartialContent
    <3>4. Starts(Upcoming', posted) /\ Len(Upcoming') = posted
      BY <2>1, <3>1, <3>3, SoundBodies
    <3>5. Len(call.base) <= posted
      BY <3>2, SoundIsShort, BoundsAssumption DEF MirrorInv, UpdateInv, TypeInv, TypeOK
    <3>6. UpdateInv'
      BY <2>1, <3>2, <3>4, <3>5 DEF UpdateInv, Owed
    <3> QED BY <1>1, <2>1, <2>3, <3>6 DEF MirrorInv
  <2> QED BY <2>1, <2>2, <2>3 DEF MirrorInv
<1>7. CASE PastAnswer
  <2>1. /\ pc = "pastWait" /\ pc' = "pastHeader" /\ UNCHANGED <<posted, life, dat, header>>
        /\ call'.path = call.path /\ call'.base = call.base
    BY <1>2, <1>7 DEF PastAnswer
  <2>2. gzip' \in Content /\ gzip' \o buffer' = Full(posted)
    BY <1>7, WrittenThrough, FullContent DEF PastAnswer, TypeInv, TypeOK
  <2>3. Starts(Full(posted), posted) /\ Len(Full(posted)) = posted
    BY SoundBodies, FullContent DEF TypeInv, TypeOK
  <2>4. CASE call.path = "new"
    BY <1>1, <2>1, <2>2, <2>4 DEF MirrorInv
  <2>5. CASE call.path = "mod"
    <3>1. UpdateInv
      BY <2>1, <2>5 DEF MirrorInv
    <3>2. Upcoming' = Full(posted)
      BY <2>1, <2>2 DEF Upcoming
    <3>3. Len(call.base) <= posted
      BY <3>1, SoundIsShort, BoundsAssumption DEF MirrorInv, UpdateInv, TypeInv, TypeOK
    <3>4. UpdateInv'
      BY <2>1, <2>3, <3>1, <3>2, <3>3 DEF UpdateInv, Owed
    <3> QED BY <1>1, <2>1, <2>5, <3>4 DEF MirrorInv
  <2> QED BY <2>1, <2>4, <2>5 DEF MirrorInv
<1>8. ASSUME /\ NotModified \/ RangeNotSatisfiable \/ ModBroken \/ PastError \/ PastBroken
                \/ \E s \in {203, 302, 404} : ModError(s)
      PROVE  MirrorInv'
  <2>1. /\ pc' \notin {"idle", "newWait", "reconvert"} \cup Growing
        /\ pc \notin Growing \cup {"reconvert"}
        /\ UNCHANGED <<dat, sjis, gzip, header, buffer>>
        /\ call'.path = call.path /\ call'.base = call.base
    BY <1>2, <1>8 DEF NotModified, RangeNotSatisfiable, ModBroken, PastError, PastBroken,
         ModError, disk, memory, Statuses
  <2>2. Upcoming' = Upcoming
    BY <2>1 DEF Upcoming
  <2>3. CASE call.path = "new"
    BY <1>1, <1>2, <2>1, <2>3 DEF MirrorInv
  <2>4. CASE call.path = "mod"
    <3>1. UpdateInv
      BY <1>2, <2>4 DEF MirrorInv
    <3>2. UpdateInv'
      BY <1>0, <2>1, <2>2, <3>1, StillOwed DEF UpdateInv
    <3> QED BY <1>1, <2>1, <2>4, <3>2 DEF MirrorInv
  <2> QED BY <1>2, <2>3, <2>4 DEF MirrorInv
<1>9. CASE FullBody
  BY <1>9 DEF FullBody, Fault
<1> QED BY <1>3, <1>4, <1>5, <1>6, <1>7, <1>8, <1>9 DEF Fetch

(* The steps that store, except the last: the log to come is the same      *)
(* before and after each.                                                  *)
LEMMA MirrorStore ==
  ASSUME Faults \subseteq {"timeout"}, TypeInv, TypeInv', LogInv, MirrorInv, Store, ~Return
  PROVE  MirrorInv'
<1> USE AbsentIsNoContent DEF Growing, Goto, server, memory
<1>0. [Next]_vars
  BY DEF Next
<1>1. posted' >= 1
  BY <1>0, ServerMonotone DEF MirrorInv
<1>2. /\ pc # "idle" /\ pc' \notin {"idle", "newWait"}
      /\ UNCHANGED call /\ (header' = header \/ (header' = resp /\ resp # Absent))
  BY DEF Store, Append206, Reconvert206, Flush206, SavePastHeader, SaveHeader, StoreHeader,
         CloseGzip, OpenSjis, Decompress, OpenDat, ConvertSJISToUTF8
<1>3. /\ gzip \in Content \cup {Absent} /\ buffer \in Content /\ sjis \in Content \cup {Absent}
      /\ <<>> \in Content /\ \A s \in Content : s \o <<>> = s
  BY ChosenContent, EmptyConcat DEF TypeInv, TypeOK
<1>4. gzip # Absent => gzip' # Absent
  BY <1>3, ConcatContent
     DEF Store, Append206, Reconvert206, Flush206, SavePastHeader, SaveHeader,
         CloseGzip, OpenSjis, Decompress, OpenDat, ConvertSJISToUTF8
<1>5. CASE call.path = "new"
  BY <1>1, <1>2, <1>4, <1>5 DEF MirrorInv
<1>6. CASE call.path = "mod"
  <2>1. UpdateInv
    BY <1>2, <1>6 DEF MirrorInv
  <2>2. pc' # "reconvert" => dat' # Absent
    <3>1. dat' = dat \/ dat' = sjis \/ dat' = <<>> \/ pc' = "reconvert"
      BY DEF Store, Append206, Reconvert206, Flush206, SavePastHeader, SaveHeader,
             CloseGzip, OpenSjis, Decompress, OpenDat, ConvertSJISToUTF8
    <3>2. sjis # Absent /\ (pc = "reconvert" => dat' = sjis)
      BY <2>1 DEF UpdateInv, TypeInv, Files, Store, Append206, Reconvert206, Flush206,
             SavePastHeader, SaveHeader, CloseGzip, OpenSjis, Decompress, OpenDat,
             ConvertSJISToUTF8
    <3> QED BY <1>3, <2>1, <3>1, <3>2 DEF UpdateInv
  <2>3. Upcoming' = Upcoming
    <3>1. CASE Append206
      <4>1. PICK n \in 0 .. Len(buffer) :
              /\ sjis' = sjis \o SubSeq(buffer, 1, n)
              /\ buffer' = SubSeq(buffer, Len(SubSeq(buffer, 1, n)) + 1, Len(buffer))
        BY <3>1 DEF Append206, Prefix
      <4> DEFINE front == SubSeq(buffer, 1, n)
                 back == SubSeq(buffer, n + 1, Len(buffer))
      <4>2. front \in Content /\ back \in Content /\ front \o back = buffer /\ Len(front) = n
        BY <1>3, CutContent, Rejoin
      <4>3. sjis \in Content
        BY <1>3, <3>1 DEF Append206, TypeInv, Files
      <4>4. (sjis \o front) \o back = sjis \o (front \o back)
        BY <4>2, <4>3, ConcatAssoc
      <4>5. sjis' \o buffer' = sjis \o buffer
        BY <4>1, <4>2, <4>4
      <4> QED BY <3>1, <4>5 DEF Append206, Upcoming
    <3>2. CASE Reconvert206
      BY <3>2 DEF Reconvert206, Upcoming
    <3>3. CASE Flush206
      BY <3>3, <1>3 DEF Flush206, Upcoming, LogInv
    <3>4. CASE SavePastHeader \/ SaveHeader
      BY <3>4 DEF SavePastHeader, SaveHeader, Upcoming
    <3>5. CASE CloseGzip
      <4>1. /\ pc = "close" /\ pc' = "decompress" /\ UNCHANGED sjis /\ buffer' = <<>>
            /\ gzip' = IF buffer = <<>> THEN gzip ELSE gzip \o buffer
        BY <3>5 DEF CloseGzip
      <4>2. CASE gzip = Absent
        BY <4>1, <4>2 DEF Upcoming, TypeInv, Files
      <4>3. CASE gzip # Absent
        <5>1. gzip \o buffer \in Content /\ gzip' = gzip \o buffer
          BY <1>3, <4>1, <4>3, ConcatContent
        <5>2. gzip' # Absent /\ gzip' \o buffer' = gzip \o buffer
          BY <1>3, <4>1, <5>1
        <5> QED BY <4>1, <4>3, <5>2 DEF Upcoming
      <4> QED BY <4>2, <4>3
    <3>6. CASE OpenSjis \/ Decompress
      BY <3>6 DEF OpenSjis, Decompress, Upcoming, TypeInv, Files
    <3>7. CASE OpenDat \/ ConvertSJISToUTF8
      BY <3>7 DEF OpenDat, ConvertSJISToUTF8, Upcoming
    <3> QED BY <3>1, <3>2, <3>3, <3>4, <3>5, <3>6, <3>7 DEF Store
  <2>4. header' # Absent
    BY <1>2, <2>1 DEF UpdateInv
  <2>5. UpdateInv'
    BY <1>0, <1>2, <2>1, <2>2, <2>3, <2>4, StillOwed
  <2> QED BY <1>1, <1>2, <1>6, <2>5 DEF MirrorInv
<1> QED BY <1>2, <1>5, <1>6 DEF MirrorInv

(* Every step keeps MirrorInv.                                             *)
LEMMA MirrorNext ==
  ASSUME Faults \subseteq {"timeout"}, TypeInv, TypeInv', LogInv, MirrorInv, [Next]_vars
  PROVE  MirrorInv'
<1> USE AbsentIsNoContent DEF Growing, Goto, server
<1>1. posted' >= 1
  BY ServerMonotone DEF MirrorInv
<1>2. CASE Post \/ Drop \/ UNCHANGED vars
  <2>1. UNCHANGED <<dat, sjis, gzip, header, pc, buffer, call>> /\ Upcoming' = Upcoming
    BY <1>2 DEF Post, Drop, vars, disk, memory, Upcoming
  <2>2. CASE pc # "idle" /\ call.path = "mod"
    <3>1. UpdateInv
      BY <2>2 DEF MirrorInv
    <3>2. UpdateInv'
      BY <2>1, <3>1, StillOwed DEF UpdateInv
    <3> QED BY <1>1, <2>1, <2>2, <3>2 DEF MirrorInv
  <2>3. CASE pc = "idle" \/ call.path # "mod"
    BY <1>1, <2>1, <2>3 DEF MirrorInv
  <2> QED BY <2>2, <2>3
<1>3. CASE BeginNew
  BY <1>1, <1>3, ChosenContent DEF BeginNew, BeginCall, MirrorInv
<1>4. CASE BeginMod
  <2>1. /\ pc = "idle" /\ pc' = "modWait" /\ call'.path = "mod" /\ call'.base = sjis
        /\ dat # Absent /\ header # Absent /\ sjis # Absent
        /\ UNCHANGED <<posted, life, dat, sjis, gzip, header>>
    BY <1>4 DEF BeginMod, BeginCall, disk
  <2>2. gzip = Absent /\ Upcoming' = sjis
    BY <2>1 DEF LogInv, Upcoming
  <2>3. sjis \in Content /\ Sound(sjis, posted, life)
    BY <2>1 DEF TypeInv, TypeOK, LogInv
  <2>4. UpdateInv'
    BY <2>1, <2>2, <2>3 DEF UpdateInv, Owed
  <2> QED BY <1>1, <2>1, <2>4 DEF MirrorInv
<1>5. CASE Fetch
  BY <1>5, MirrorFetch
<1>6. CASE Return
  BY <1>1, <1>6 DEF Return, MirrorInv
<1>7. CASE Store /\ ~Return
  BY <1>7, MirrorStore
<1>8. CASE DeleteDatFile \/ Crash
  BY <1>8 DEF DeleteDatFile, Crash, Fault
<1> QED BY <1>2, <1>3, <1>4, <1>5, <1>6, <1>7, <1>8 DEF Next, Call

(* The update's debt holds in every reachable state.                       *)
LEMMA MirrorInvariant ==
  ASSUME Faults \subseteq {"timeout"}
  PROVE  Spec => []MirrorInv
<1>1. Init => MirrorInv
  BY MirrorInit
<1>2. TypeInv /\ TypeInv' /\ LogInv /\ MirrorInv /\ [Next]_vars => MirrorInv'
  BY MirrorNext
<1> QED BY <1>1, <1>2, LogInvariant, Typing, PTL DEF Spec

(***************************************************************************)
(* The refinement.                                                         *)
(***************************************************************************)
Shown == IF pc = "idle" THEN sjis ELSE call.base
Kept  == IF pc = "idle" THEN dat # Absent /\ header # Absent ELSE call.path = "mod"

(* A step that is neither the server's nor the end of a call is invisible. *)
LEMMA CallHidden ==
  ASSUME Faults \subseteq {"timeout"}, TypeInv, LogInv, MirrorInv,
         Call \/ Fetch \/ Store, ~Return
  PROVE  UNCHANGED <<posted, life, Shown, Kept>>
<1> USE HistoryKept DEF Goto, server
<1>1. call \in History
  BY DEF TypeInv, TypeOK
<1>2. CASE BeginNew
  BY <1>2 DEF BeginNew, BeginCall, Shown, Kept
<1>3. CASE BeginMod
  BY <1>3 DEF BeginMod, BeginCall, Shown, Kept
<1>4. CASE Fetch
  <2>1. /\ pc # "idle" /\ pc' # "idle" /\ UNCHANGED <<posted, life>>
        /\ call'.path = call.path /\ call'.base = call.base
    BY <1>1, <1>4
       DEF Fetch, NewAnswer, NewBroken, NewError, NotModified, PartialContent,
           RangeNotSatisfiable, FullBody, ModBroken, ModError, PastAnswer, PastError,
           PastBroken, Statuses
  <2> QED BY <2>1 DEF Shown, Kept
<1>5. CASE Store
  <2>1. pc # "idle" /\ pc' # "idle" /\ UNCHANGED <<posted, life, call>>
    BY <1>5 DEF Store, Append206, Reconvert206, Flush206, SavePastHeader, SaveHeader,
         CloseGzip, OpenSjis, Decompress, OpenDat, ConvertSJISToUTF8
  <2> QED BY <2>1 DEF Shown, Kept
<1> QED BY <1>2, <1>3, <1>4, <1>5 DEF Call

(* The end of a call is the mirror's Load, its Refresh, or changes nothing.*)
LEMMA ReturnShows ==
  ASSUME TypeInv, LogInv, MirrorInv, Return
  PROVE  \/ ~Kept /\ Kept' \in BOOLEAN /\ UNCHANGED <<posted, life>>
            /\ \/ \E n \in 0 .. posted : Shown' = Full(n)
               \/ life # "main" /\ Shown' = <<Junk>>
         \/ Kept /\ UNCHANGED <<posted, life, Kept>>
            /\ \E n \in Len(Shown) .. posted : Shown' = Full(n)
         \/ UNCHANGED <<posted, life, Shown, Kept>>
<1> USE AbsentIsNoContent DEF Growing, Unpacked, Buffering
<1>1. /\ pc = "cleanup" /\ pc' = "idle" /\ UNCHANGED <<posted, life, dat, sjis, header>>
      /\ posted \in Nat /\ sjis \in Content \cup {Absent} /\ buffer = <<>>
  BY BoundsAssumption DEF Return, Goto, server, memory, LogInv, TypeInv, TypeOK
<1>2. gzip # Absent => sjis = gzip /\ sjis # Absent
  BY <1>1 DEF LogInv
<1>3. Kept' \in BOOLEAN /\ Shown' = sjis
  BY <1>1 DEF Kept, Shown
<1>4. CASE call.path = "new"
  <2>1. sjis \in Content /\ Sound(sjis, posted, life) /\ ~Kept
    BY <1>1, <1>2, <1>4 DEF MirrorInv, LogInv, Kept
  <2>2. CASE Starts(sjis, posted)
    BY <1>1, <1>3, <2>1, <2>2, StartsIsFull
  <2>3. CASE sjis = <<Junk>> /\ life # "main"
    BY <1>1, <1>3, <2>1, <2>3
  <2> QED BY <2>1, <2>2, <2>3 DEF Sound
<1>5. CASE call.path = "mod"
  <2>1. UpdateInv
    BY <1>1, <1>5 DEF MirrorInv
  <2>2. Kept /\ Kept' = TRUE /\ Shown = call.base
    BY <1>1, <1>5, <2>1 DEF Kept, Shown, UpdateInv
  <2>3. Upcoming = sjis /\ sjis \in Content
    <3>1. sjis # Absent
      BY <1>1, <2>1 DEF UpdateInv, TypeInv, Files
    <3> QED BY <1>1, <1>2, <3>1, EmptyConcat DEF Upcoming
  <2>4. CASE sjis = call.base
    BY <1>1, <1>3, <2>2, <2>4
  <2>5. CASE Starts(sjis, posted) /\ Len(call.base) <= Len(sjis)
    <3>1. sjis = Full(Len(sjis)) /\ Len(sjis) \in 0 .. posted
      BY <1>1, <2>3, <2>5, StartsIsFull
    <3>2. Len(call.base) \in Nat
      BY <2>1, ChosenContent DEF UpdateInv
    <3>3. Len(sjis) \in Len(Shown) .. posted
      BY <1>1, <2>2, <2>5, <3>1, <3>2
    <3> QED BY <1>1, <1>3, <2>2, <3>1, <3>3
  <2> QED BY <2>1, <2>3, <2>4, <2>5 DEF UpdateInv, Owed
<1> QED BY <1>1, <1>4, <1>5 DEF MirrorInv

(* With broken connections as the only faults the reader sees what         *)
(* ThreadMirror promises: a beginning of the thread that, once an answer   *)
(* has been kept, only grows.                                              *)
THEOREM MirrorRefinement ==
  ASSUME Faults \subseteq {"timeout"}
  PROVE  Spec => MirrorsThread
<1>1. Init => Mirror!Init
  BY DEF Init, Mirror!Init
<1>2. TypeInv /\ LogInv /\ MirrorInv /\ [Next]_vars => [Mirror!Next]_(Mirror!vars)
  <2> SUFFICES ASSUME TypeInv, LogInv, MirrorInv, [Next]_vars
               PROVE  Mirror!Next \/ UNCHANGED Mirror!vars
    OBVIOUS
  <2>1. CASE Post
    BY <2>1 DEF Post, disk, memory, Mirror!Next, Mirror!Post
  <2>2. CASE Drop
    BY <2>2 DEF Drop, disk, memory, Mirror!Next, Mirror!Drop
  <2>3. CASE (Call \/ Fetch \/ Store) /\ ~Return
    <3>1. UNCHANGED <<posted, life, Shown, Kept>>
      BY <2>3, CallHidden
    <3> QED BY <3>1 DEF Shown, Kept, Mirror!vars
  <2>4. CASE Return
    BY <2>4, ReturnShows
       DEF Shown, Kept, Full, Junk, Mirror!vars, Mirror!Next, Mirror!Load, Mirror!Refresh,
           Mirror!Full, Mirror!Pages
  <2>5. CASE UNCHANGED vars
    BY <2>5 DEF vars, server, disk, Mirror!vars
  <2>6. CASE DeleteDatFile \/ Crash
    BY <2>6 DEF DeleteDatFile, Crash, Fault
  <2> QED BY <2>1, <2>2, <2>3, <2>4, <2>5, <2>6 DEF Next
<1>3. Spec => Mirror!Spec
  BY <1>1, <1>2, Typing, LogInvariant, MirrorInvariant, PTL DEF Spec, Mirror!Spec
<1> QED BY <1>3 DEF MirrorsThread
=============================================================================
