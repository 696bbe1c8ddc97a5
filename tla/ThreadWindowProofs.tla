------------------------- MODULE ThreadWindowProofs -------------------------
(***************************************************************************)
(* Theorems about the image viewer in the window of a thread, for any      *)
(* addresses, numbers of clicks and steps of zoom.                         *)
(***************************************************************************)
EXTENDS ThreadWindow, SelectionProofs

(***************************************************************************)
(* Facts about sequences.                                                  *)
(***************************************************************************)

(* A part of a sequence.                                                   *)
LEMMA PartOfSeq ==
  ASSUME NEW S, NEW s \in Seq(S), NEW m \in 1 .. Len(s) + 1, NEW n \in 0 .. Len(s)
  PROVE  /\ SubSeq(s, m, n) \in Seq(S)
         /\ Len(SubSeq(s, m, n)) = IF m <= n THEN n - m + 1 ELSE 0
         /\ \A k \in 1 .. n - m + 1 : SubSeq(s, m, n)[k] = s[m + k - 1]
<1>1. Len(s) \in Nat
  BY LenProperties
<1>2. m \in Int /\ n \in Int
  BY <1>1
<1>3. \A i \in m .. n : s[i] \in S
  BY <1>1, ElementOfSeq
<1> QED BY <1>2, <1>3, SubSeqProperties

(* The innermost call and those around it.                                 *)
LEMMA TopOfStack ==
  ASSUME NEW S, NEW s \in Seq(S), s # <<>>
  PROVE  Last(s) \in S /\ Front(s) \in Seq(S)
<1>1. Len(s) \in Nat /\ Len(s) >= 1
  BY EmptySeq, LenProperties
<1>2. Last(s) \in S
  BY <1>1, ElementOfSeq DEF Last
<1>3. 1 \in 1 .. Len(s) + 1 /\ Len(s) - 1 \in 0 .. Len(s)
  BY <1>1
<1>4. SubSeq(s, 1, Len(s) - 1) \in Seq(S)
  BY <1>3, PartOfSeq
<1> QED BY <1>2, <1>4 DEF Front

(* A page taken out.                                                       *)
LEMMA OneRemoved ==
  ASSUME NEW S, NEW s \in Seq(S), NEW i \in 1 .. Len(s)
  PROVE  /\ RemoveAt(s, i) \in Seq(S) /\ Len(RemoveAt(s, i)) = Len(s) - 1
         /\ \A n \in 1 .. Len(s) - 1 :
              RemoveAt(s, i)[n] = IF n < i THEN s[n] ELSE s[n + 1]
<1>1. Len(s) \in Nat
  BY LenProperties
<1> DEFINE front == SubSeq(s, 1, i - 1)
           back  == SubSeq(s, i + 1, Len(s))
<1>2. /\ front \in Seq(S) /\ Len(front) = i - 1
      /\ \A k \in 1 .. i - 1 : front[k] = s[k]
  <2>1. 1 \in 1 .. Len(s) + 1 /\ i - 1 \in 0 .. Len(s)
    BY <1>1
  <2>2. /\ front \in Seq(S) /\ Len(front) = IF 1 <= i - 1 THEN i - 1 - 1 + 1 ELSE 0
        /\ \A k \in 1 .. i - 1 - 1 + 1 : front[k] = s[1 + k - 1]
    BY <2>1, PartOfSeq
  <2> HIDE DEF front
  <2> QED BY <1>1, <2>2
<1>3. /\ back \in Seq(S) /\ Len(back) = Len(s) - i
      /\ \A k \in 1 .. Len(s) - i : back[k] = s[k + i]
  <2>1. i + 1 \in 1 .. Len(s) + 1 /\ Len(s) \in 0 .. Len(s)
    BY <1>1
  <2>2. /\ back \in Seq(S) /\ Len(back) = IF i + 1 <= Len(s) THEN Len(s) - (i + 1) + 1 ELSE 0
        /\ \A k \in 1 .. Len(s) - (i + 1) + 1 : back[k] = s[i + 1 + k - 1]
    BY <2>1, PartOfSeq
  <2> HIDE DEF back
  <2>3. \A k \in 1 .. Len(s) - i : k \in 1 .. Len(s) - (i + 1) + 1 /\ i + 1 + k - 1 = k + i
    BY <1>1
  <2> QED BY <1>1, <2>2, <2>3
<1>4. RemoveAt(s, i) = front \o back
  BY DEF RemoveAt
<1> HIDE DEF front, back
<1>5. /\ front \o back \in Seq(S) /\ Len(front \o back) = Len(s) - 1
      /\ \A n \in 1 .. Len(s) - 1 :
           (front \o back)[n] = IF n <= i - 1 THEN front[n] ELSE back[n - (i - 1)]
  <2>1. /\ front \o back \in Seq(S) /\ Len(front \o back) = Len(front) + Len(back)
        /\ \A n \in 1 .. Len(front) + Len(back) :
             (front \o back)[n] = IF n <= Len(front) THEN front[n] ELSE back[n - Len(front)]
    BY <1>2, <1>3, ConcatProperties
  <2>2. Len(front) + Len(back) = Len(s) - 1
    BY <1>1, <1>2, <1>3
  <2> QED BY <1>2, <2>1, <2>2
<1>6. ASSUME NEW n \in 1 .. Len(s) - 1
      PROVE  (front \o back)[n] = IF n < i THEN s[n] ELSE s[n + 1]
  <2>1. CASE n < i
    BY <1>1, <1>2, <1>5, <2>1
  <2>2. CASE ~(n < i)
    <3>1. n - (i - 1) \in 1 .. Len(s) - i /\ n - (i - 1) + i = n + 1 /\ ~(n <= i - 1)
      BY <1>1, <2>2
    <3> QED BY <1>3, <1>5, <2>2, <3>1
  <2> QED BY <2>1, <2>2
<1> QED BY <1>4, <1>5, <1>6

(* One more at the end.                                                    *)
LEMMA OneAppended ==
  ASSUME NEW S, NEW s \in Seq(S), NEW x \in S
  PROVE  Append(s, x) \in Seq(S) /\ Len(Append(s, x)) = Len(s) + 1 /\ Append(s, x) # <<>>
<1>1. Append(s, x) \in Seq(S) /\ Len(Append(s, x)) = Len(s) + 1 /\ Len(s) \in Nat
  BY LenProperties
<1> QED BY <1>1, EmptySeq

(***************************************************************************)
(* The invariant.  Pages and calls are described by what each of them      *)
(* needs of the cache, the table and the counts of clicks.                 *)
(***************************************************************************)
AnyPage == [href : Hrefs, pic : {"none", "part", "whole"}, zoom : Int,
            from : {"part", "whole"}, row : Nat, opened : Nat]

(* A page whose picture came from a whole file has it still, unless the    *)
(* address was clicked again.                                              *)
StandingPage ==
  {p \in AnyPage :
     /\ p.opened <= clicks[p.href] /\ rows[p.href] > 0
     /\ cache[FileName(p.href)] # "absent"
     /\ p.from = "whole" /\ clicks[p.href] = p.opened =>
          cache[FileName(p.href)] = "whole" /\ (p.pic = "whole" \/ p.zoom = -Shrink)}

(* A download has its file, and once it is recorded its row; one by ftp    *)
(* has no file and never reads.                                            *)
SoundCall ==
  {c \in Call : /\ c.href \notin Ftp => cache[FileName(c.href)] # "absent"
                /\ c.pc = "get" => c.href \notin Ftp
                /\ c.pc = "show" => rows[c.href] > 0}

ViewerInv ==
  /\ cache \in [Hrefs -> Files] /\ rows \in [Hrefs -> Nat] /\ clicks \in [Hrefs -> Nat]
  /\ pages \in Seq(StandingPage) /\ calls \in Seq(SoundCall)
  /\ sel \in 0 .. Len(pages) /\ (sel = 0 <=> pages = <<>>)
  /\ \A h \in Hrefs \ Ftp : rows[h] > 0 => cache[FileName(h)] # "absent"
  /\ \A h \in Ftp : cache[h] = "absent"

(* At first there are no pages, calls or rows.                             *)
LEMMA ViewerInit == Init => ViewerInv
BY EmptySeq, ImagesAssumption DEF Init, ViewerInv, Files

(* What the notebook can do with its pages: one of them is selected unless *)
(* there is none.                                                          *)
LEMMA ShowKeeps ==
  ASSUME ViewerInv, NEW ps \in Seq(StandingPage), NEW s \in 0 .. Len(ps),
         s = 0 <=> ps = <<>>, Show(ps, s)
  PROVE  ViewerInv'
<1>1. StandingPage' = StandingPage /\ SoundCall' = SoundCall
  BY DEF Show, StandingPage, SoundCall
<1> QED BY <1>1 DEF Show, ViewerInv

(* The innermost call is one of the calls.                                 *)
LEMMA TopIsSound ==
  ASSUME ViewerInv, calls # <<>>
  PROVE  Top \in SoundCall /\ Here \in Hrefs /\ Front(calls) \in Seq(SoundCall)
<1>1. Last(calls) \in SoundCall /\ Front(calls) \in Seq(SoundCall)
  BY TopOfStack DEF ViewerInv
<1>2. Top \in Call
  BY <1>1 DEF Top, SoundCall
<1> QED BY <1>1, <1>2 DEF Top, Here, Call

(* As long as no file shrinks and no row goes, pages and calls stay sound. *)
LEMMA GrowingKeeps ==
  ASSUME ViewerInv,
         \A h \in Hrefs : /\ cache[h] = "whole" => cache'[h] = "whole"
                          /\ cache[h] # "absent" => cache'[h] # "absent",
         rows' \in [Hrefs -> Nat], \A h \in Hrefs : rows[h] <= rows'[h],
         UNCHANGED clicks
  PROVE  StandingPage \subseteq StandingPage' /\ SoundCall \subseteq SoundCall'
<1>1. ASSUME NEW p \in StandingPage PROVE p \in StandingPage'
  <2>1. p \in AnyPage /\ p.href \in Hrefs
    BY DEF StandingPage, AnyPage
  <2> QED BY <2>1 DEF StandingPage, FileName, ViewerInv
<1>2. ASSUME NEW c \in SoundCall PROVE c \in SoundCall'
  <2>1. c \in Call /\ c.href \in Hrefs
    BY DEF SoundCall, Call
  <2> QED BY <2>1 DEF SoundCall, FileName, ViewerInv
<1> QED BY <1>1, <1>2

(* A step of the innermost call that takes nothing away from the files and *)
(* the table.                                                              *)
LEMMA TopMoves ==
  ASSUME ViewerInv, calls # <<>>, NEW call \in SoundCall', Go(call),
         cache' \in [Hrefs -> Files], rows' \in [Hrefs -> Nat],
         \A h \in Hrefs : /\ cache[h] = "whole" => cache'[h] = "whole"
                          /\ cache[h] # "absent" => cache'[h] # "absent"
                          /\ rows[h] <= rows'[h],
         \A h \in Hrefs \ Ftp : rows'[h] > 0 => cache'[h] # "absent",
         \A h \in Ftp : cache'[h] = "absent",
         UNCHANGED <<viewer, clicks>>
  PROVE  ViewerInv'
<1>1. StandingPage \subseteq StandingPage' /\ SoundCall \subseteq SoundCall'
  BY GrowingKeeps
<1>2. pages' \in Seq(StandingPage')
  BY <1>1, SeqMonotonic DEF ViewerInv, viewer
<1>3. calls' \in Seq(SoundCall')
  <2>1. Front(calls) \in Seq(SoundCall')
    BY <1>1, TopIsSound, SeqMonotonic
  <2> QED BY <2>1, OneAppended DEF Go
<1> QED BY <1>2, <1>3 DEF ViewerInv, viewer, FileName

(* A click truncates the file of its address and nothing else, and with it *)
(* the promise made to the pages of this address ends.                     *)
LEMMA ClickKeeps ==
  ASSUME ViewerInv, NEW h \in Hrefs, OnLeftClickHtmlWindow(h)
  PROVE  ViewerInv'
<1>1. /\ cache' = [cache EXCEPT ![h] = IF h \in Ftp THEN @ ELSE "empty"]
      /\ clicks' = [clicks EXCEPT ![h] = @ + 1] /\ UNCHANGED <<rows, pages, sel>>
  BY DEF OnLeftClickHtmlWindow, ViewerInv, viewer, FileName
<1>2. /\ cache' \in [Hrefs -> Files] /\ clicks' \in [Hrefs -> Nat]
      /\ \A g \in Hrefs : clicks[g] <= clicks'[g] /\ (g # h => cache'[g] = cache[g])
      /\ clicks[h] < clicks'[h]
      /\ \A g \in Hrefs : cache[g] # "absent" => cache'[g] # "absent"
  BY <1>1 DEF ViewerInv, Files
<1>3. StandingPage \subseteq StandingPage'
  <2> SUFFICES ASSUME NEW p \in StandingPage PROVE p \in StandingPage'
    OBVIOUS
  <2>1. p \in AnyPage /\ p.href \in Hrefs /\ p.opened \in Nat
    BY DEF StandingPage, AnyPage
  <2>2. CASE p.href = h
    BY <1>1, <1>2, <2>1, <2>2 DEF StandingPage, ViewerInv
  <2>3. CASE p.href # h
    BY <1>1, <1>2, <2>1, <2>3 DEF StandingPage, FileName
  <2> QED BY <2>2, <2>3
<1>4. pages' \in Seq(StandingPage')
  BY <1>1, <1>3, SeqMonotonic DEF ViewerInv
<1>5. ASSUME NEW c \in SoundCall, NEW l \in BOOLEAN
      PROVE  c \in SoundCall' /\ [c EXCEPT !.lost = l] \in SoundCall'
  <2>1. c \in Call /\ c.href \in Hrefs
    BY DEF SoundCall, Call
  <2>2. /\ [c EXCEPT !.lost = l] \in Call
        /\ [c EXCEPT !.lost = l].href = c.href /\ [c EXCEPT !.lost = l].pc = c.pc
    BY <2>1 DEF Call
  <2> QED BY <1>1, <1>2, <2>1, <2>2 DEF SoundCall, FileName
<1> DEFINE call == [pc |-> IF h \in Ftp THEN "save" ELSE "get",
                    href |-> h, begun |-> FALSE, lost |-> FALSE]
           stack == IF h \in Ftp THEN calls ELSE Truncated(calls, h)
<1>6. call \in SoundCall'
  BY <1>1 DEF SoundCall, Call, FileName, ViewerInv
<1>7. stack \in Seq(SoundCall')
  <2>1. calls \in Seq(SoundCall')
    BY <1>5, SeqMonotonic DEF ViewerInv
  <2>2. Truncated(calls, h) \in Seq(SoundCall')
    <3>1. Len(calls) \in Nat /\ \A n \in 1 .. Len(calls) : calls[n] \in SoundCall
      BY LenProperties, ElementOfSeq DEF ViewerInv
    <3>2. \A n \in 1 .. Len(calls) :
            (calls[n].lost \/ (calls[n].href = h /\ calls[n].begun)) \in BOOLEAN
      BY <3>1
    <3>3. \A n \in 1 .. Len(calls) :
            [calls[n] EXCEPT !.lost = @ \/ (calls[n].href = h /\ calls[n].begun)] \in SoundCall'
      BY <1>5, <3>1, <3>2
    <3>4. Truncated(calls, h) \in [1 .. Len(calls) -> SoundCall']
      BY <3>3 DEF Truncated
    <3> QED BY <3>1, <3>4, SeqDef
  <2> QED BY <2>1, <2>2
<1>8. calls' = Append(stack, call)
  BY DEF OnLeftClickHtmlWindow
<1>9. calls' \in Seq(SoundCall')
  <2> HIDE DEF call, stack
  <2> QED BY <1>6, <1>7, <1>8, OneAppended
<1> QED BY <1>1, <1>2, <1>4, <1>9 DEF ViewerInv, FileName

(* The page of an image that loads.                                        *)
NewPage(kind) == [href |-> Here, pic |-> kind, zoom |-> 0, from |-> kind,
                  row |-> rows[Here], opened |-> clicks[Here]]

Added(kind) ==
  pages' = Append(pages, NewPage(kind)) /\ sel' = IF pages = <<>> THEN 1 ELSE sel

(* Only a file with something in it loads.                                 *)
LEMMA ImageArrives ==
  ASSUME SetImageFile
  PROVE  \/ UNCHANGED <<pages, sel>>
         \/ \E kind \in {"part", "whole"} : kind = cache[Here] /\ Added(kind)
<1> DEFINE kind == IF Here \in Ftp THEN "absent" ELSE cache[Here]
<1>1. PICK ok \in Loads(kind) :
        \/ UNCHANGED <<pages, sel>>
        \/ ok /\ Added(kind)
  BY DEF SetImageFile, FileName, Added, NewPage
<1>2. ok => /\ Here \notin Ftp /\ cache[Here] \in {"part", "whole"}
  BY <1>1 DEF Loads
<1> QED BY <1>1, <1>2

(* The steps of a download, one case per action.                           *)
LEMMA DownloadKeeps == ViewerInv /\ Download => ViewerInv'
<1> SUFFICES ASSUME ViewerInv, Download PROVE ViewerInv'
  OBVIOUS
<1>1. ASSUME NEW h \in Hrefs, OnLeftClickHtmlWindow(h) PROVE ViewerInv'
  BY <1>1, ClickKeeps
<1>2. CASE Read
  <2>1. calls # <<>> /\ Go([Top EXCEPT !.begun = TRUE])
    BY <1>2 DEF Read, At
  <2>2. Top \in SoundCall /\ Top.href \in Hrefs /\ Here = Top.href
    BY <2>1, TopIsSound DEF Here
  <2>3. /\ cache' = [cache EXCEPT ![Top.href] = IF @ = "whole" THEN "whole" ELSE "part"]
        /\ UNCHANGED <<rows, viewer, clicks>>
    BY <1>2, <2>2 DEF Read, Store, FileName, ViewerInv
  <2>4. [Top EXCEPT !.begun = TRUE] \in SoundCall'
    BY <2>2, <2>3 DEF SoundCall, Call, FileName, ViewerInv
  <2>5. /\ cache' \in [Hrefs -> Files] /\ rows' \in [Hrefs -> Nat]
        /\ \A h \in Hrefs : /\ cache[h] = "whole" => cache'[h] = "whole"
                            /\ cache[h] # "absent" => cache'[h] # "absent"
                            /\ rows[h] <= rows'[h]
        /\ \A h \in Hrefs \ Ftp : rows'[h] > 0 => cache'[h] # "absent"
        /\ \A h \in Ftp : cache'[h] = "absent"
    BY <1>2, <2>2, <2>3, ImagesAssumption DEF Read, At, SoundCall, ViewerInv, Files, FileName
  <2> QED BY <2>1, <2>3, <2>4, <2>5, TopMoves
<1>3. CASE ReadAll
  <2>1. calls # <<>> /\ Go([Top EXCEPT !.pc = "save"])
    BY <1>3 DEF ReadAll, At
  <2>2. Top \in SoundCall /\ Top.href \in Hrefs /\ Here = Top.href
    BY <2>1, TopIsSound DEF Here
  <2>3. PICK kind \in Whole(cache[Top.href]) :
          cache' = [cache EXCEPT ![Top.href] = kind] /\ UNCHANGED <<rows, viewer, clicks>>
    BY <1>3, <2>2 DEF ReadAll, Store, FileName
  <2>4. /\ kind \in Files
        /\ cache[Top.href] = "whole" => kind = "whole"
        /\ cache[Top.href] # "absent" => kind # "absent"
    BY <2>2, <2>3 DEF Whole, Files, ViewerInv
  <2>5. [Top EXCEPT !.pc = "save"] \in SoundCall'
    BY <2>2, <2>3, <2>4 DEF SoundCall, Call, FileName, ViewerInv
  <2>6. /\ cache' \in [Hrefs -> Files] /\ rows' \in [Hrefs -> Nat]
        /\ \A h \in Hrefs : /\ cache[h] = "whole" => cache'[h] = "whole"
                            /\ cache[h] # "absent" => cache'[h] # "absent"
                            /\ rows[h] <= rows'[h]
        /\ \A h \in Hrefs \ Ftp : rows'[h] > 0 => cache'[h] # "absent"
        /\ \A h \in Ftp : cache'[h] = "absent"
    BY <1>3, <2>2, <2>3, <2>4, ImagesAssumption DEF ReadAll, At, SoundCall, ViewerInv, FileName
  <2> QED BY <2>1, <2>3, <2>5, <2>6, TopMoves
<1>4. CASE Broken
  <2>1. calls # <<>> /\ Go([Top EXCEPT !.pc = "save"]) /\ UNCHANGED <<cache, rows, viewer, clicks>>
    BY <1>4 DEF Broken, At
  <2>2. Top \in SoundCall
    BY <2>1, TopIsSound
  <2>3. [Top EXCEPT !.pc = "save"] \in SoundCall'
    BY <2>1, <2>2 DEF SoundCall, Call
  <2> QED BY <2>1, <2>3, TopMoves DEF ViewerInv, FileName
<1>5. CASE SaveImageFileInfoDB
  <2>1. calls # <<>> /\ Top.pc = "save" /\ Go([Top EXCEPT !.pc = "show"])
        /\ UNCHANGED <<cache, viewer, clicks>>
    BY <1>5 DEF SaveImageFileInfoDB, At
  <2>2. Top \in SoundCall /\ Top.href \in Hrefs /\ Here = Top.href
    BY <2>1, TopIsSound DEF Here
  <2>3. rows' = [rows EXCEPT ![Top.href] = @ + 1]
    BY <1>5, <2>2 DEF SaveImageFileInfoDB
  <2>4. [Top EXCEPT !.pc = "show"] \in SoundCall'
    <3>1. Top \in Call /\ [Top EXCEPT !.pc = "show"] \in Call
          /\ [Top EXCEPT !.pc = "show"].href = Top.href
          /\ [Top EXCEPT !.pc = "show"].pc = "show"
      BY <2>2 DEF SoundCall, Call
    <3>2. rows'[Top.href] > 0
      BY <2>2, <2>3 DEF ViewerInv
    <3> QED BY <2>1, <2>2, <3>1, <3>2 DEF SoundCall, FileName
  <2>5. Top.href \notin Ftp => cache[Top.href] # "absent"
    BY <2>2 DEF SoundCall, FileName
  <2>6. /\ cache' \in [Hrefs -> Files] /\ rows' \in [Hrefs -> Nat]
        /\ \A h \in Hrefs : /\ cache[h] = "whole" => cache'[h] = "whole"
                            /\ cache[h] # "absent" => cache'[h] # "absent"
                            /\ rows[h] <= rows'[h]
        /\ \A h \in Hrefs \ Ftp : rows'[h] > 0 => cache'[h] # "absent"
        /\ \A h \in Ftp : cache'[h] = "absent"
    BY <2>1, <2>2, <2>3, <2>5 DEF ViewerInv, FileName
  <2> QED BY <2>1, <2>4, <2>6, TopMoves
<1>6. CASE SetImageFile
  <2>1. calls # <<>> /\ Top.pc = "show" /\ calls' = Front(calls)
        /\ UNCHANGED <<cache, rows, clicks>>
    BY <1>6 DEF SetImageFile, At
  <2>2. Top \in SoundCall /\ Here \in Hrefs /\ Front(calls) \in Seq(SoundCall)
        /\ rows[Here] > 0
    <3>1. Top \in SoundCall /\ Here \in Hrefs /\ Front(calls) \in Seq(SoundCall)
      BY <2>1, TopIsSound
    <3> QED BY <2>1, <3>1 DEF SoundCall, Here
  <2>3. StandingPage' = StandingPage /\ SoundCall' = SoundCall
    BY <2>1 DEF StandingPage, SoundCall
  <2>4. CASE UNCHANGED <<pages, sel>>
    BY <2>1, <2>2, <2>3, <2>4 DEF ViewerInv
  <2>5. ASSUME NEW kind \in {"part", "whole"}, kind = cache[Here], Added(kind)
        PROVE  ViewerInv'
    <3> DEFINE page == NewPage(kind)
    <3>0. pages' = Append(pages, page) /\ sel' = IF pages = <<>> THEN 1 ELSE sel
      BY <2>5 DEF Added
    <3>1. page \in StandingPage
      BY <2>2, <2>5 DEF StandingPage, AnyPage, NewPage, FileName, ViewerInv
    <3>2. pages \in Seq(StandingPage) /\ Len(pages) \in Nat
      BY LenProperties DEF ViewerInv
    <3>3. Append(pages, page) \in Seq(StandingPage) /\ Len(Append(pages, page)) = Len(pages) + 1
          /\ Append(pages, page) # <<>>
      <4> HIDE DEF page
      <4> QED BY <3>1, <3>2, OneAppended
    <3> HIDE DEF page
    <3> QED BY <2>1, <2>2, <2>3, <3>0, <3>2, <3>3 DEF ViewerInv
  <2>6. \/ UNCHANGED <<pages, sel>>
        \/ \E kind \in {"part", "whole"} : kind = cache[Here] /\ Added(kind)
    BY <1>6, ImageArrives
  <2> QED BY <2>4, <2>5, <2>6
<1> QED BY <1>1, <1>2, <1>3, <1>4, <1>5, <1>6 DEF Download

(* Whatever the user does with the pages of the viewer keeps ViewerInv.    *)
LEMMA UseKeeps == ViewerInv /\ Use => ViewerInv'
<1> SUFFICES ASSUME ViewerInv, Use PROVE ViewerInv'
  OBVIOUS
<1>0. pages \in Seq(StandingPage) /\ Len(pages) \in Nat /\ (pages = <<>> <=> Len(pages) = 0)
  BY LenProperties, EmptySeq DEF ViewerInv
<1>1. <<>> \in Seq(StandingPage) /\ Len(<<>>) = 0 /\ 0 \in 0 .. Len(<<>>)
  BY EmptySeq
<1>2. CASE OnClose \/ AllThumbnailTabClose
  <2>1. Show(<<>>, 0)
    BY <1>2 DEF OnClose, AllThumbnailTabClose
  <2> QED BY <1>1, <2>1, ShowKeeps
<1>3. ASSUME pages # <<>> PROVE sel \in 1 .. Len(pages)
  BY <1>0, <1>3 DEF ViewerInv
<1>4. CASE OneThumbnailTabClose
  <2>1. sel \in 1 .. Len(pages) /\ Show(RemoveAt(pages, sel), IF sel = Len(pages) THEN sel - 1 ELSE sel)
    BY <1>3, <1>4 DEF OneThumbnailTabClose, Menu
  <2>2. RemoveAt(pages, sel) \in Seq(StandingPage) /\ Len(RemoveAt(pages, sel)) = Len(pages) - 1
    BY <1>0, <2>1, OneRemoved
  <2> DEFINE ps == RemoveAt(pages, sel)
             s  == IF sel = Len(pages) THEN sel - 1 ELSE sel
  <2>3. s \in 0 .. Len(ps) /\ (s = 0 <=> Len(ps) = 0)
    BY <1>0, <2>1, <2>2
  <2>4. ps = <<>> <=> Len(ps) = 0
    BY <2>2, EmptySeq
  <2> HIDE DEF ps, s
  <2>5. Show(ps, s)
    BY <2>1 DEF ps, s
  <2> QED BY <2>2, <2>3, <2>4, <2>5, ShowKeeps DEF ps
<1>5. CASE AllLeftThumbnailTabClose
  <2>1. sel \in 1 .. Len(pages) /\ Show(SubSeq(pages, sel, Len(pages)), 1)
    BY <1>3, <1>5 DEF AllLeftThumbnailTabClose, Menu
  <2> DEFINE ps == SubSeq(pages, sel, Len(pages))
  <2>2. sel \in 1 .. Len(pages) + 1 /\ Len(pages) \in 0 .. Len(pages)
    BY <1>0, <2>1
  <2>3. ps \in Seq(StandingPage) /\ Len(ps) = IF sel <= Len(pages) THEN Len(pages) - sel + 1 ELSE 0
    BY <1>0, <2>2, PartOfSeq
  <2>4. Show(ps, 1)
    BY <2>1
  <2> HIDE DEF ps
  <2>5. 1 \in 0 .. Len(ps) /\ ps # <<>>
    BY <1>0, <1>1, <2>1, <2>3
  <2>6. 1 = 0 <=> ps = <<>>
    BY <2>5
  <2> QED BY <2>3, <2>4, <2>5, <2>6, ShowKeeps
<1>6. CASE AllRightThumbnailTabClose
  <2>1. sel \in 1 .. Len(pages) /\ Show(SubSeq(pages, 1, sel), sel)
    BY <1>3, <1>6 DEF AllRightThumbnailTabClose, Menu
  <2> DEFINE ps == SubSeq(pages, 1, sel)
  <2>2. 1 \in 1 .. Len(pages) + 1 /\ sel \in 0 .. Len(pages)
    BY <1>0, <2>1
  <2>3. ps \in Seq(StandingPage) /\ Len(ps) = IF 1 <= sel THEN sel - 1 + 1 ELSE 0
    BY <1>0, <2>2, PartOfSeq
  <2>4. sel \in 0 .. Len(ps) /\ sel # 0 /\ ps # <<>>
    BY <1>0, <1>1, <2>1, <2>3
  <2> HIDE DEF ps
  <2> QED BY <2>1, <2>3, <2>4, ShowKeeps DEF ps
<1>7. CASE SelectLeftThumbnailTab
  <2>1. sel - 1 \in 1 .. Len(pages) /\ Show(pages, sel - 1)
    BY <1>0, <1>3, <1>7 DEF SelectLeftThumbnailTab, Menu
  <2> QED BY <1>0, <2>1, ShowKeeps
<1>8. CASE SelectRightThumbnailTab
  <2>1. sel + 1 \in 1 .. Len(pages) /\ Show(pages, sel + 1)
    BY <1>0, <1>3, <1>8 DEF SelectRightThumbnailTab, Menu
  <2> QED BY <1>0, <2>1, ShowKeeps
<1>9. ASSUME pages # <<>>, NEW page \in StandingPage, Looked(page) PROVE ViewerInv'
  <2>1. sel \in 1 .. Len(pages)
    BY <1>3, <1>9
  <2>2. /\ [pages EXCEPT ![sel] = page] \in Seq(StandingPage)
        /\ Len([pages EXCEPT ![sel] = page]) = Len(pages)
    BY <1>0, <2>1, ExceptSeq
  <2> DEFINE ps == [pages EXCEPT ![sel] = page]
  <2>3. sel \in 0 .. Len(ps) /\ sel # 0 /\ ps # <<>>
    BY <1>0, <1>1, <2>1, <2>2
  <2>4. Show(ps, sel)
    BY <1>9 DEF Looked
  <2> HIDE DEF ps
  <2> QED BY <2>2, <2>3, <2>4, ShowKeeps DEF ps
<1>10. ASSUME pages # <<>>
       PROVE  /\ pages[sel] \in StandingPage /\ pages[sel] \in AnyPage
              /\ pages[sel].href \in Hrefs /\ Cached = cache[pages[sel].href]
              /\ Cached \in Files
  <2>1. pages[sel] \in StandingPage
    BY <1>0, <1>3, <1>10, ElementOfSeq
  <2>2. pages[sel] \in AnyPage /\ pages[sel].href \in Hrefs
    BY <2>1 DEF StandingPage, AnyPage
  <2> QED BY <2>1, <2>2 DEF Cached, FileName, ViewerInv
<1>11. ASSUME NEW up \in BOOLEAN, Resize(up) PROVE ViewerInv'
  <2>1. pages # <<>>
    BY <1>11 DEF Resize, Menu
  <2> DEFINE zoom == pages[sel].zoom + IF up THEN 1 ELSE -1
             Resized(ok) == [pages[sel] EXCEPT
                               !.zoom = zoom,
                               !.pic = IF ok /\ zoom # -Shrink THEN Cached ELSE "none"]
  <2>2. PICK ok \in Loads(Cached) : Looked(Resized(ok))
    BY <1>11 DEF Resize
  <2>3. zoom \in Int
    BY <1>10, <2>1 DEF AnyPage
  <2>4. /\ ok => Cached \in {"part", "whole"}
        /\ Cached = "whole" => ok
    BY <2>2 DEF Loads
  <2>5. /\ Resized(ok).href = pages[sel].href /\ Resized(ok).from = pages[sel].from
        /\ Resized(ok).opened = pages[sel].opened /\ Resized(ok).zoom = zoom
        /\ Resized(ok).pic = IF ok /\ zoom # -Shrink THEN Cached ELSE "none"
        /\ Resized(ok) \in AnyPage
    BY <1>10, <2>1, <2>3, <2>4 DEF AnyPage
  <2> HIDE DEF zoom, Resized
  <2>6. Resized(ok) \in StandingPage
    BY <1>10, <2>1, <2>4, <2>5 DEF StandingPage, FileName
  <2> QED BY <1>9, <2>1, <2>2, <2>6
<1>12. CASE Reset
  <2>1. pages # <<>>
    BY <1>12 DEF Reset, Menu
  <2>2. PICK ok \in Loads(Cached) :
          Looked([pages[sel] EXCEPT !.zoom = IF ok THEN 0 ELSE @,
                                    !.pic = IF ok THEN Cached ELSE "none"])
    BY <1>12 DEF Reset
  <2>3. /\ ok \in BOOLEAN
        /\ ok => Cached \in {"part", "whole"}
        /\ Cached = "whole" => ok
    BY <2>2 DEF Loads
  <2> DEFINE zoom == IF ok THEN 0 ELSE pages[sel].zoom
             pic  == IF ok THEN Cached ELSE "none"
             page == [pages[sel] EXCEPT !.zoom = zoom, !.pic = pic]
  <2>4. zoom \in Int /\ pic \in {"none", "part", "whole"}
    BY <1>10, <2>1, <2>3 DEF AnyPage
  <2>5. Looked(page)
    <3>1. page = [pages[sel] EXCEPT !.zoom = IF ok THEN 0 ELSE @, !.pic = pic]
      OBVIOUS
    <3> QED BY <2>2, <3>1
  <2>6. ok => pic = Cached
    OBVIOUS
  <2> HIDE DEF zoom, pic
  <2>7. /\ page.href = pages[sel].href /\ page.from = pages[sel].from
        /\ page.opened = pages[sel].opened /\ page.pic = pic /\ page \in AnyPage
    BY <1>10, <2>1, <2>4 DEF AnyPage
  <2> HIDE DEF page
  <2>8. page \in StandingPage
    BY <1>10, <2>1, <2>3, <2>6, <2>7 DEF StandingPage, FileName
  <2> QED BY <1>9, <2>1, <2>5, <2>8
<1> QED BY <1>2, <1>4, <1>5, <1>6, <1>7, <1>8, <1>11, <1>12 DEF Use

(* The end of the program, in the middle of anything, and its start.       *)
LEMMA EndKeeps == ViewerInv /\ (End \/ OnInit) => ViewerInv'
<1> SUFFICES ASSUME ViewerInv, End \/ OnInit PROVE ViewerInv'
  OBVIOUS
<1>1. CASE End
  BY <1>1, EmptySeq DEF End, ViewerInv
<1>2. CASE OnInit
  <2>1. StandingPage' = StandingPage /\ SoundCall' = SoundCall
    BY <1>2 DEF OnInit, StandingPage, SoundCall
  <2> QED BY <1>2, <2>1 DEF OnInit, viewer, ViewerInv
<1> QED BY <1>1, <1>2

(* Every step of the window keeps the invariant of the viewer.             *)
LEMMA ViewerNext == ViewerInv /\ [WindowNext]_<<vars, dat>> => ViewerInv'
<1> SUFFICES ASSUME ViewerInv, [WindowNext]_<<vars, dat>> PROVE ViewerInv'
  OBVIOUS
<1>1. CASE Next
  BY <1>1, DownloadKeeps, UseKeeps, EndKeeps DEF Next
<1>2. ASSUME NEW start, NEW end, OnCellHover(start, end) PROVE ViewerInv'
  BY <1>2, EndKeeps DEF OnCellHover
<1>3. CASE UNCHANGED <<vars, dat>>
  <2>1. StandingPage' = StandingPage /\ SoundCall' = SoundCall
    BY <1>3 DEF vars, StandingPage, SoundCall
  <2> QED BY <1>3, <2>1 DEF vars, viewer, ViewerInv
<1> QED BY <1>1, <1>2, <1>3 DEF WindowNext

(* The invariant of the viewer in every reachable state of the window.     *)
LEMMA ViewerInvariant == WindowSpec => []ViewerInv
<1>1. WindowInit => ViewerInv
  BY ViewerInit DEF WindowInit
<1> QED BY <1>1, ViewerNext, PTL DEF WindowSpec

(* A picture from a whole file stays until its address is clicked again or *)
(* nothing is left of it to draw, whatever downloads run inside one        *)
(* another and wherever the program ends.                                  *)
THEOREM PicturesStand == WindowSpec => []PictureStands
<1>1. ViewerInv => PictureStands
  <2> SUFFICES ASSUME ViewerInv, NEW n \in 1 .. Len(pages) PROVE pages[n] \in StandingPage
    BY DEF PictureStands, StandingPage
  <2> QED BY ElementOfSeq DEF ViewerInv
<1> QED BY <1>1, ViewerInvariant, PTL

(* Wherever the program ends, only the rows written for ftp addresses lack *)
(* their files, and no page of the viewer is of such an address.           *)
THEOREM FtpRowsAloneLackFiles == WindowSpec => []OnlyFtpRowsLackFiles
<1>1. ViewerInv => OnlyFtpRowsLackFiles
  <2> SUFFICES ASSUME ViewerInv PROVE OnlyFtpRowsLackFiles
    OBVIOUS
  <2>1. \A n \in 1 .. Len(pages) : pages[n] \in StandingPage
    BY ElementOfSeq DEF ViewerInv
  <2>2. \A h \in Hrefs : rows[h] > 0 => (cache[FileName(h)] = "absent" <=> h \in Ftp)
    BY DEF ViewerInv, FileName
  <2> QED BY <2>1, <2>2 DEF OnlyFtpRowsLackFiles, StandingPage
<1> QED BY <1>1, ViewerInvariant, PTL

(***************************************************************************)
(* The calls that run, and how many there can be of an address.            *)
(***************************************************************************)
Unshown(h) == {n \in 1 .. Len(calls) : calls[n].href = h /\ calls[n].pc # "show"}

(* The callers wait for the network, and every click has written its row   *)
(* or has still to write it, unless the program ended before.              *)
CallsInv ==
  /\ \A n \in 1 .. Len(calls) - 1 : calls[n].pc = "get"
  /\ clicks \in [Hrefs -> 0 .. MaxClicks]
  /\ \A h \in Hrefs : rows[h] + Cardinality(Unshown(h)) <= clicks[h]

(* The calls are a stack of finitely many.                                 *)
LEMMA Stack ==
  ASSUME ViewerInv
  PROVE  /\ calls \in Seq(Call) /\ Len(calls) \in Nat
         /\ \A n \in 1 .. Len(calls) : calls[n] \in Call
         /\ \A h : IsFiniteSet(Unshown(h)) /\ Cardinality(Unshown(h)) \in Nat
<1>1. calls \in Seq(Call)
  <2>1. SoundCall \subseteq Call
    BY DEF SoundCall
  <2> QED BY <2>1, SeqMonotonic DEF ViewerInv
<1>2. Len(calls) \in Nat /\ \A n \in 1 .. Len(calls) : calls[n] \in Call
  BY <1>1, LenProperties, ElementOfSeq
<1>3. ASSUME NEW h PROVE IsFiniteSet(Unshown(h)) /\ Cardinality(Unshown(h)) \in Nat
  <2>1. Unshown(h) \in SUBSET (1 .. Len(calls))
    BY DEF Unshown
  <2> QED BY <1>2, <2>1, Places, FS_CardinalityType
<1> QED BY <1>1, <1>2, <1>3

(* The innermost call and those around it, by their places.                *)
LEMMA StackPlaces ==
  ASSUME ViewerInv, calls # <<>>
  PROVE  /\ Len(calls) >= 1 /\ Top = calls[Len(calls)] /\ Top \in Call
         /\ Len(Front(calls)) = Len(calls) - 1
         /\ \A n \in 1 .. Len(calls) - 1 : Front(calls)[n] = calls[n]
         /\ \A call \in Call :
              /\ Len(Append(Front(calls), call)) = Len(calls)
              /\ \A n \in 1 .. Len(calls) - 1 : Append(Front(calls), call)[n] = calls[n]
              /\ Append(Front(calls), call)[Len(calls)] = call
<1>1. calls \in Seq(Call) /\ Len(calls) \in Nat /\ \A n \in 1 .. Len(calls) : calls[n] \in Call
  BY Stack
<1>2. Len(calls) >= 1
  BY <1>1, EmptySeq
<1>3. Top = calls[Len(calls)] /\ Top \in Call
  BY <1>1, <1>2 DEF Top, Last
<1>4. /\ Front(calls) \in Seq(Call) /\ Len(Front(calls)) = Len(calls) - 1
      /\ \A n \in 1 .. Len(calls) - 1 : Front(calls)[n] = calls[n]
  <2> DEFINE k == Len(calls) - 1
  <2>1. 1 \in Int /\ k \in Int /\ \A n \in 1 .. k : calls[n] \in Call
    BY <1>1
  <2>2. /\ SubSeq(calls, 1, k) \in Seq(Call)
        /\ Len(SubSeq(calls, 1, k)) = IF 1 <= k THEN k - 1 + 1 ELSE 0
        /\ \A n \in 1 .. k - 1 + 1 : SubSeq(calls, 1, k)[n] = calls[1 + n - 1]
    <3> HIDE DEF k
    <3> QED BY <2>1, SubSeqProperties
  <2>3. k \in Nat
    BY <1>1, <1>2
  <2>4. Front(calls) = SubSeq(calls, 1, k)
    BY DEF Front
  <2> HIDE DEF k
  <2>5. /\ Front(calls) \in Seq(Call) /\ Len(Front(calls)) = k
        /\ \A n \in 1 .. k : Front(calls)[n] = calls[n]
    <3>1. k - 1 + 1 = k /\ \A n \in 1 .. k : 1 + n - 1 = n
      BY <2>3
    <3> QED BY <2>2, <2>3, <2>4, <3>1
  <2> QED BY <2>5 DEF k
<1>5. ASSUME NEW call \in Call
      PROVE  /\ Len(Append(Front(calls), call)) = Len(calls)
             /\ \A n \in 1 .. Len(calls) - 1 : Append(Front(calls), call)[n] = calls[n]
             /\ Append(Front(calls), call)[Len(calls)] = call
  <2>1. /\ Len(Append(Front(calls), call)) = Len(Front(calls)) + 1
        /\ \A n \in 1 .. Len(Front(calls)) : Append(Front(calls), call)[n] = Front(calls)[n]
        /\ Append(Front(calls), call)[Len(Front(calls)) + 1] = call
    BY <1>4, AppendProperties
  <2> QED BY <1>1, <1>2, <1>4, <2>1
<1> QED BY <1>2, <1>3, <1>4, <1>5

(* A step of the innermost call: it still has to write its row, or writes  *)
(* it now.                                                                 *)
LEMMA CallMoves ==
  ASSUME ViewerInv, CallsInv, calls # <<>>, NEW call \in Call, call.href = Here, Go(call),
         Top.pc # "show", UNCHANGED clicks,
         \/ UNCHANGED rows /\ call.pc # "show"
         \/ call.pc = "show" /\ rows' = [rows EXCEPT ![Here] = @ + 1]
  PROVE  CallsInv'
<1> DEFINE L == Len(calls)
<1>1. /\ L \in Nat /\ L >= 1 /\ Top = calls[L] /\ Here \in Hrefs
      /\ Len(calls') = L /\ calls'[L] = call
      /\ \A n \in 1 .. L - 1 : calls'[n] = calls[n]
  BY Stack, StackPlaces, TopIsSound DEF Go
<1>2. \A n \in 1 .. L : n = L \/ n \in 1 .. L - 1
  BY <1>1
<1> HIDE DEF L
<1>3. ASSUME NEW h \in Hrefs PROVE rows'[h] + Cardinality(Unshown(h)') <= clicks'[h]
  <2>1. IsFiniteSet(Unshown(h)) /\ Cardinality(Unshown(h)) \in Nat
        /\ rows[h] \in Nat /\ clicks[h] \in Nat /\ rows[h] + Cardinality(Unshown(h)) <= clicks[h]
    BY Stack DEF CallsInv, ViewerInv
  <2>2. CASE UNCHANGED rows /\ call.pc # "show"
    <3>1. Unshown(h)' = Unshown(h)
      BY <1>1, <1>2, <2>2 DEF Unshown, Here, L
    <3> QED BY <2>1, <2>2, <3>1
  <2>3. CASE call.pc = "show" /\ rows' = [rows EXCEPT ![Here] = @ + 1] /\ h = Here
    <3>1. L \in Unshown(h)
      BY <1>1, <2>3 DEF Unshown, Here, L
    <3>2. Unshown(h)' = Unshown(h) \ {L}
      BY <1>1, <1>2, <2>3 DEF Unshown, L
    <3>3. Cardinality(Unshown(h)') = Cardinality(Unshown(h)) - 1
      BY <2>1, <3>1, <3>2, FS_RemoveElement
    <3>4. rows'[h] = rows[h] + 1
      BY <1>1, <2>3 DEF ViewerInv
    <3> QED BY <2>1, <3>3, <3>4
  <2>4. CASE call.pc = "show" /\ rows' = [rows EXCEPT ![Here] = @ + 1] /\ h # Here
    <3>1. Unshown(h)' = Unshown(h)
      BY <1>1, <1>2, <2>4 DEF Unshown, Here, L
    <3>2. rows'[h] = rows[h]
      BY <1>1, <2>4 DEF ViewerInv
    <3> QED BY <2>1, <3>1, <3>2
  <2> QED BY <2>2, <2>3, <2>4
<1>4. \A n \in 1 .. Len(calls') - 1 : calls'[n].pc = "get"
  BY <1>1 DEF CallsInv, L
<1> QED BY <1>3, <1>4 DEF CallsInv

(* A click on an address is possible as long as clicks on it are few.      *)
LEMMA ClicksBounded ==
  ASSUME clicks \in [Hrefs -> 0 .. MaxClicks], NEW h \in Hrefs, Clicks < MaxClicks
  PROVE  clicks[h] < MaxClicks
<1> DEFINE S == {c \in Hrefs \X (1 .. MaxClicks) : c[2] <= clicks[c[1]]}
           f == [n \in 1 .. MaxClicks |-> <<h, n>>]
<1> SUFFICES ASSUME clicks[h] = MaxClicks PROVE FALSE
  BY ImagesAssumption
<1>1. MaxClicks \in Nat /\ IsFiniteSet(1 .. MaxClicks) /\ Cardinality(1 .. MaxClicks) = MaxClicks
  BY ImagesAssumption, FS_Interval
<1>2. IsFiniteSet(S)
  BY <1>1, ImagesAssumption, FS_Product, FS_Subset
<1>3. f \in [1 .. MaxClicks -> S]
  BY <1>1
<1>4. \A m \in 1 .. MaxClicks, n \in 1 .. MaxClicks : f[m] = f[n] => m = n
  OBVIOUS
<1>5. Clicks = Cardinality(S)
  BY DEF Clicks
<1> HIDE DEF S, f
<1>6. f \in Injection(1 .. MaxClicks, S)
  BY <1>3, <1>4 DEF Injection, IsInjective
<1>7. MaxClicks <= Cardinality(S) /\ Cardinality(S) \in Nat
  BY <1>1, <1>2, <1>6, FS_Injection, FS_CardinalityType
<1> QED BY <1>1, <1>5, <1>7

(* A click is one more call and one more to be recorded.                   *)
LEMMA ClickCounted ==
  ASSUME ViewerInv, CallsInv, NEW h \in Hrefs, OnLeftClickHtmlWindow(h)
  PROVE  CallsInv' /\ Len(calls') = Len(calls) + 1
<1> DEFINE L == Len(calls)
           call == [pc |-> IF h \in Ftp THEN "save" ELSE "get",
                    href |-> h, begun |-> FALSE, lost |-> FALSE]
           stack == IF h \in Ftp THEN calls ELSE Truncated(calls, h)
<1>1. /\ L \in Nat /\ \A n \in 1 .. L : calls[n] \in Call
      /\ calls' = Append(stack, call) /\ UNCHANGED rows
      /\ clicks' = [clicks EXCEPT ![h] = @ + 1] /\ Clicks < MaxClicks
  BY Stack DEF OnLeftClickHtmlWindow
<1>2. /\ stack \in Seq(Call) /\ Len(stack) = L
      /\ \A n \in 1 .. L : stack[n].href = calls[n].href /\ stack[n].pc = calls[n].pc
  <2>1. CASE h \in Ftp
    BY <2>1, Stack
  <2>2. CASE h \notin Ftp
    <3>1. ASSUME NEW n \in 1 .. L
          PROVE  /\ Truncated(calls, h)[n] \in Call
                 /\ Truncated(calls, h)[n].href = calls[n].href
                 /\ Truncated(calls, h)[n].pc = calls[n].pc
      <4>1. calls[n] \in Call /\ calls[n].lost \in BOOLEAN /\ calls[n].begun \in BOOLEAN
        BY <1>1 DEF Call
      <4>2. (calls[n].lost \/ (calls[n].href = h /\ calls[n].begun)) \in BOOLEAN
        OBVIOUS
      <4>3. Truncated(calls, h)[n] =
              [calls[n] EXCEPT !.lost = @ \/ (calls[n].href = h /\ calls[n].begun)]
        BY DEF Truncated
      <4> QED BY <4>1, <4>2, <4>3 DEF Call
    <3>2. Truncated(calls, h) \in [1 .. L -> Call]
      BY <3>1 DEF Truncated
    <3>3. Truncated(calls, h) \in Seq(Call) /\ Len(Truncated(calls, h)) = L
      <4>1. \A f \in [1 .. L -> Call] : f \in Seq(Call) /\ Len(f) = L
        BY <1>1, SeqDef
      <4> QED BY <3>2, <4>1
    <3> QED BY <2>2, <3>1, <3>3
  <2> QED BY <2>1, <2>2
<1>3. call \in Call /\ call.href = h /\ call.pc # "show"
  BY DEF Call
<1> HIDE DEF stack, call
<1>4. /\ Len(calls') = L + 1 /\ calls'[L + 1] = call
      /\ \A n \in 1 .. L : calls'[n].href = calls[n].href /\ calls'[n].pc = calls[n].pc
  BY <1>1, <1>2, <1>3, AppendProperties
<1>5. \A n \in 1 .. L : calls[n].pc = "get"
  <2>1. calls # <<>> => calls[L].pc = "get"
    BY StackPlaces DEF OnLeftClickHtmlWindow, Listening, Top
  <2>2. \A n \in 1 .. L : n = L \/ n \in 1 .. L - 1
    BY <1>1
  <2>3. calls = <<>> => 1 .. L = {}
    BY EmptySeq
  <2> QED BY <2>1, <2>2, <2>3 DEF CallsInv
<1>6. clicks' \in [Hrefs -> 0 .. MaxClicks] /\ clicks'[h] = clicks[h] + 1
      /\ \A g \in Hrefs : g # h => clicks'[g] = clicks[g]
  <2>1. clicks[h] < MaxClicks /\ clicks[h] + 1 \in 0 .. MaxClicks
    BY <1>1, ClicksBounded, ImagesAssumption DEF CallsInv
  <2> QED BY <1>1, <2>1 DEF CallsInv
<1>7. ASSUME NEW g \in Hrefs PROVE rows'[g] + Cardinality(Unshown(g)') <= clicks'[g]
  <2>1. IsFiniteSet(Unshown(g)) /\ Cardinality(Unshown(g)) \in Nat
        /\ rows[g] \in Nat /\ clicks[g] \in Nat /\ rows[g] + Cardinality(Unshown(g)) <= clicks[g]
    BY Stack DEF CallsInv, ViewerInv
  <2>2. \A n \in 1 .. L + 1 : n \in 1 .. L \/ n = L + 1
    BY <1>1
  <2>3. CASE g = h
    <3>1. Unshown(g)' = Unshown(g) \cup {L + 1}
      BY <1>1, <1>3, <1>4, <2>2, <2>3 DEF Unshown
    <3>2. L + 1 \notin Unshown(g)
      BY <1>1 DEF Unshown
    <3>3. Cardinality(Unshown(g)') = Cardinality(Unshown(g)) + 1
      BY <2>1, <3>1, <3>2, FS_AddElement
    <3> QED BY <1>1, <1>6, <2>1, <2>3, <3>3
  <2>4. CASE g # h
    <3>1. Unshown(g)' = Unshown(g)
      BY <1>1, <1>3, <1>4, <2>2, <2>4 DEF Unshown
    <3> QED BY <1>1, <1>6, <2>1, <2>4, <3>1
  <2> QED BY <2>3, <2>4
<1>8. \A n \in 1 .. Len(calls') - 1 : calls'[n].pc = "get"
  BY <1>1, <1>4, <1>5
<1> QED BY <1>4, <1>6, <1>7, <1>8 DEF CallsInv

(* A call that has shown its image is gone.                                *)
LEMMA CallReturns ==
  ASSUME ViewerInv, CallsInv, calls # <<>>, Top.pc = "show", calls' = Front(calls),
         UNCHANGED <<rows, clicks>>
  PROVE  CallsInv' /\ Len(calls') = Len(calls) - 1
<1> DEFINE L == Len(calls)
<1>1. /\ L \in Nat /\ L >= 1 /\ Top = calls[L] /\ Len(calls') = L - 1
      /\ \A n \in 1 .. L - 1 : calls'[n] = calls[n]
  BY Stack, StackPlaces
<1>2. \A n \in 1 .. L : n = L \/ n \in 1 .. L - 1
  BY <1>1
<1> HIDE DEF L
<1>3. ASSUME NEW h \in Hrefs PROVE Unshown(h)' = Unshown(h)
  BY <1>1, <1>2 DEF Unshown, L
<1>4. \A n \in 1 .. Len(calls') - 1 : calls'[n].pc = "get"
  BY <1>1 DEF CallsInv, L
<1> QED BY <1>1, <1>3, <1>4 DEF CallsInv, L

(* What happens to the calls: nothing, the end of all of them, a click, a  *)
(* step of the innermost one or its return.                                *)
LEMMA CallsNext ==
  ViewerInv /\ CallsInv /\ (Next \/ UNCHANGED vars) => CallsInv'
<1> SUFFICES ASSUME ViewerInv, CallsInv, Next \/ UNCHANGED vars PROVE CallsInv'
  OBVIOUS
<1>1. ASSUME UNCHANGED <<rows, calls, clicks>> PROVE CallsInv'
  BY <1>1 DEF CallsInv, Unshown
<1>2. CASE Use \/ OnInit \/ UNCHANGED vars
  BY <1>1, <1>2 DEF Use, OnClose, AllThumbnailTabClose, OneThumbnailTabClose,
     AllLeftThumbnailTabClose, AllRightThumbnailTabClose, SelectLeftThumbnailTab,
     SelectRightThumbnailTab, Resize, Reset, Looked, Show, OnInit, vars
<1>3. CASE End
  <2>1. calls' = <<>> /\ Len(calls') = 0 /\ 1 .. Len(calls') = {} /\ UNCHANGED <<rows, clicks>>
    BY <1>3 DEF End
  <2>2. ASSUME NEW h \in Hrefs PROVE rows'[h] + Cardinality(Unshown(h)') <= clicks'[h]
    <3>1. Unshown(h)' = {} /\ Cardinality({}) = 0
      BY <2>1, FS_EmptySet DEF Unshown
    <3>2. Cardinality(Unshown(h)) \in Nat /\ rows[h] \in Nat /\ clicks[h] \in Nat
          /\ rows[h] + Cardinality(Unshown(h)) <= clicks[h]
      BY Stack DEF CallsInv, ViewerInv
    <3> QED BY <2>1, <3>1, <3>2
  <2> QED BY <2>1, <2>2 DEF CallsInv
<1>4. ASSUME NEW h \in Hrefs, OnLeftClickHtmlWindow(h) PROVE CallsInv'
  BY <1>4, ClickCounted
<1>5. CASE Read \/ ReadAll \/ Broken \/ SaveImageFileInfoDB
  <2>1. /\ calls # <<>> /\ Top.pc # "show" /\ UNCHANGED clicks
        /\ \/ UNCHANGED rows /\ Go([Top EXCEPT !.begun = TRUE]) /\ Top.pc = "get"
           \/ UNCHANGED rows /\ Go([Top EXCEPT !.pc = "save"])
           \/ rows' = [rows EXCEPT ![Here] = @ + 1] /\ Go([Top EXCEPT !.pc = "show"])
    BY <1>5 DEF Read, ReadAll, Broken, SaveImageFileInfoDB, At
  <2>2. Top \in Call /\ Here = Top.href
    BY <2>1, StackPlaces DEF Here
  <2>3. ASSUME UNCHANGED rows, Go([Top EXCEPT !.begun = TRUE]), Top.pc = "get" PROVE CallsInv'
    <3>1. /\ [Top EXCEPT !.begun = TRUE] \in Call /\ [Top EXCEPT !.begun = TRUE].href = Here
          /\ [Top EXCEPT !.begun = TRUE].pc # "show"
      BY <2>2, <2>3 DEF Call
    <3> QED BY <2>1, <2>3, <3>1, CallMoves
  <2>4. ASSUME UNCHANGED rows, Go([Top EXCEPT !.pc = "save"]) PROVE CallsInv'
    <3>1. /\ [Top EXCEPT !.pc = "save"] \in Call /\ [Top EXCEPT !.pc = "save"].href = Here
          /\ [Top EXCEPT !.pc = "save"].pc # "show"
      BY <2>2 DEF Call
    <3> QED BY <2>1, <2>4, <3>1, CallMoves
  <2>5. ASSUME rows' = [rows EXCEPT ![Here] = @ + 1], Go([Top EXCEPT !.pc = "show"])
        PROVE  CallsInv'
    <3>1. /\ [Top EXCEPT !.pc = "show"] \in Call /\ [Top EXCEPT !.pc = "show"].href = Here
          /\ [Top EXCEPT !.pc = "show"].pc = "show"
      BY <2>2 DEF Call
    <3> QED BY <2>1, <2>5, <3>1, CallMoves
  <2> QED BY <2>1, <2>3, <2>4, <2>5
<1>6. CASE SetImageFile
  BY <1>6, CallReturns DEF SetImageFile, At
<1> QED BY <1>2, <1>3, <1>4, <1>5, <1>6 DEF Next, Download

(***************************************************************************)
(* The pages of the notebook, each with a row of the table of its own.     *)
(***************************************************************************)
Recorded(page) ==
  /\ page.row <= rows[page.href]
  /\ calls # <<>> /\ Top.pc = "show" /\ Here = page.href => page.row < rows[Here]

NotebookInv ==
  /\ pages \in Seq(Page)
  /\ \A m \in 1 .. Len(pages), n \in 1 .. Len(pages) :
       pages[m].href = pages[n].href /\ pages[m].row = pages[n].row => m = n
  /\ \A n \in 1 .. Len(pages) : Recorded(pages[n])

(* The pages that remain, and where they were.                             *)
Remain(was) ==
  /\ was \in [1 .. Len(pages') -> 1 .. Len(pages)]
  /\ \A m \in 1 .. Len(pages'), n \in 1 .. Len(pages') : was[m] = was[n] => m = n
  /\ \A n \in 1 .. Len(pages') : pages'[n] = pages[was[n]]

(* A list whose elements are of a kind is a list of this kind.             *)
LEMMA ListOf ==
  ASSUME NEW S, NEW T, NEW s \in Seq(S), \A n \in 1 .. Len(s) : s[n] \in T
  PROVE  s \in Seq(T)
<1>1. Len(s) \in Nat /\ s \in [1 .. Len(s) -> S]
  BY LenProperties
<1>2. s \in [1 .. Len(s) -> T]
  BY <1>1
<1> QED BY <1>1, <1>2, SeqDef

(* Pages that remain keep their rows.                                      *)
LEMMA RemainKeeps ==
  ASSUME NotebookInv, NEW S, pages' \in Seq(S), NEW was, Remain(was), UNCHANGED <<rows, calls>>
  PROVE  NotebookInv'
<1>1. \A n \in 1 .. Len(pages) : pages[n] \in Page
  BY ElementOfSeq DEF NotebookInv
<1>2. \A n \in 1 .. Len(pages') : was[n] \in 1 .. Len(pages) /\ pages'[n] = pages[was[n]]
  BY DEF Remain
<1>3. pages' \in Seq(Page)
  BY <1>1, <1>2, ListOf
<1>4. ASSUME NEW n \in 1 .. Len(pages') PROVE Recorded(pages[n])'
  <2>1. Recorded(pages[was[n]])
    BY <1>2 DEF NotebookInv
  <2> QED BY <1>2, <2>1 DEF Recorded, Top, Here
<1>5. ASSUME NEW m \in 1 .. Len(pages'), NEW n \in 1 .. Len(pages'),
             pages'[m].href = pages'[n].href, pages'[m].row = pages'[n].row
      PROVE  m = n
  <2>1. /\ was[m] \in 1 .. Len(pages) /\ was[n] \in 1 .. Len(pages)
        /\ pages[was[m]].href = pages[was[n]].href /\ pages[was[m]].row = pages[was[n]].row
    BY <1>2, <1>5
  <2>2. was[m] = was[n]
    BY <2>1 DEF NotebookInv
  <2> QED BY <2>2 DEF Remain
<1> QED BY <1>3, <1>4, <1>5 DEF NotebookInv

(* One page is selected unless there is none.                              *)
LEMMA OneSelected ==
  ASSUME ViewerInv
  PROVE  /\ Len(pages) \in Nat /\ pages \in Seq(StandingPage)
         /\ pages # <<>> => sel \in 1 .. Len(pages)
  BY LenProperties, EmptySeq DEF ViewerInv

(* What the three ways to close pages leave.                               *)
LEMMA OneCloses ==
  ASSUME ViewerInv, OneThumbnailTabClose
  PROVE  /\ sel \in 1 .. Len(pages) /\ Len(pages) \in Nat /\ Len(pages') = Len(pages) - 1
         /\ \A n \in 1 .. Len(pages) - 1 : pages'[n] = IF n < sel THEN pages[n] ELSE pages[n + 1]
         /\ sel' = IF sel = Len(pages) THEN sel - 1 ELSE sel
         /\ UNCHANGED <<rows, calls, clicks>>
BY OneSelected, OneRemoved DEF OneThumbnailTabClose, Menu, Show

(* Closing the pages to the left shows the first of those that remain.     *)
LEMMA LeftCloses ==
  ASSUME ViewerInv, AllLeftThumbnailTabClose
  PROVE  /\ sel \in 1 .. Len(pages) /\ Len(pages) \in Nat /\ Len(pages') = Len(pages) - sel + 1
         /\ \A n \in 1 .. Len(pages) - sel + 1 : pages'[n] = pages[sel + n - 1]
         /\ sel' = 1
         /\ UNCHANGED <<rows, calls, clicks>>
<1>1. sel \in 1 .. Len(pages) /\ Len(pages) \in Nat /\ pages \in Seq(StandingPage)
  BY OneSelected DEF AllLeftThumbnailTabClose, Menu
<1>2. pages' = SubSeq(pages, sel, Len(pages)) /\ sel' = 1 /\ UNCHANGED <<rows, calls, clicks>>
  BY DEF AllLeftThumbnailTabClose, Show
<1>3. sel \in 1 .. Len(pages) + 1 /\ Len(pages) \in 0 .. Len(pages) /\ sel <= Len(pages)
  BY <1>1
<1> QED BY <1>1, <1>2, <1>3, PartOfSeq

(* Closing those to the right moves nothing.                               *)
LEMMA RightCloses ==
  ASSUME ViewerInv, AllRightThumbnailTabClose
  PROVE  /\ sel \in 1 .. Len(pages) /\ Len(pages) \in Nat /\ Len(pages') = sel
         /\ \A n \in 1 .. sel : pages'[n] = pages[n]
         /\ sel' = sel
         /\ UNCHANGED <<rows, calls, clicks>>
<1>1. sel \in 1 .. Len(pages) /\ Len(pages) \in Nat /\ pages \in Seq(StandingPage)
  BY OneSelected DEF AllRightThumbnailTabClose, Menu
<1>2. pages' = SubSeq(pages, 1, sel) /\ sel' = sel /\ UNCHANGED <<rows, calls, clicks>>
  BY DEF AllRightThumbnailTabClose, Show
<1>3. 1 \in 1 .. Len(pages) + 1 /\ sel \in 0 .. Len(pages) /\ 1 <= sel
  BY <1>1
<1>4. /\ Len(SubSeq(pages, 1, sel)) = sel - 1 + 1
      /\ \A n \in 1 .. sel - 1 + 1 : SubSeq(pages, 1, sel)[n] = pages[1 + n - 1]
  BY <1>1, <1>3, PartOfSeq
<1>5. sel - 1 + 1 = sel /\ \A n \in 1 .. sel : 1 + n - 1 = n
  BY <1>1
<1> QED BY <1>1, <1>2, <1>4, <1>5

(* The page that is looked at stays the page of its row.                   *)
LEMMA LookKeeps ==
  ASSUME ViewerInv, NotebookInv, NEW page \in Page, pages # <<>>, Looked(page),
         page.href = pages[sel].href, page.row = pages[sel].row
  PROVE  NotebookInv' /\ Len(pages') = Len(pages)
<1>1. /\ sel \in 1 .. Len(pages) /\ pages' = [pages EXCEPT ![sel] = page]
      /\ UNCHANGED <<rows, calls>> /\ pages \in Seq(Page) /\ Len(pages) \in Nat
  BY OneSelected DEF Looked, Show, NotebookInv
<1>2. /\ pages' \in Seq(Page) /\ Len(pages') = Len(pages)
      /\ \A n \in 1 .. Len(pages) : pages'[n] = IF n = sel THEN page ELSE pages[n]
  BY <1>1, ExceptSeq
<1>3. \A n \in 1 .. Len(pages) :
        pages'[n].href = pages[n].href /\ pages'[n].row = pages[n].row
  BY <1>2
<1>4. ASSUME NEW n \in 1 .. Len(pages') PROVE Recorded(pages[n])'
  <2>1. Recorded(pages[n]) /\ pages'[n].href = pages[n].href /\ pages'[n].row = pages[n].row
    BY <1>2, <1>3 DEF NotebookInv
  <2> QED BY <1>1, <2>1 DEF Recorded, Top, Here
<1>5. ASSUME NEW m \in 1 .. Len(pages'), NEW n \in 1 .. Len(pages'),
             pages'[m].href = pages'[n].href, pages'[m].row = pages'[n].row
      PROVE  m = n
  BY <1>2, <1>3, <1>5 DEF NotebookInv
<1> QED BY <1>2, <1>4, <1>5 DEF NotebookInv

(* Resized or reset, a page has a magnification between the last steps.    *)
LEMMA ResizeLooks ==
  ASSUME ViewerInv, NotebookInv, Resize(TRUE) \/ Resize(FALSE) \/ Reset
  PROVE  /\ pages # <<>>
         /\ \E page \in Page :
              Looked(page) /\ page.href = pages[sel].href /\ page.row = pages[sel].row
<1>1. pages # <<>>
  BY DEF Resize, Reset, Menu
<1>2. pages[sel] \in Page /\ pages[sel].href \in Hrefs /\ Cached = cache[pages[sel].href]
      /\ Cached \in Files
  <2>1. sel \in 1 .. Len(pages)
    BY <1>1, OneSelected
  <2>2. pages[sel] \in Page
    BY <2>1, ElementOfSeq DEF NotebookInv
  <2> QED BY <2>2 DEF Page, Cached, FileName, ViewerInv
<1>3. ASSUME NEW up \in BOOLEAN, Resize(up)
      PROVE  \E page \in Page :
               Looked(page) /\ page.href = pages[sel].href /\ page.row = pages[sel].row
  <2> DEFINE zoom == pages[sel].zoom + IF up THEN 1 ELSE -1
             pic(ok) == IF ok /\ zoom # -Shrink THEN Cached ELSE "none"
             page(ok) == [pages[sel] EXCEPT !.zoom = zoom, !.pic = pic(ok)]
  <2>1. PICK ok \in Loads(Cached) : Looked(page(ok))
    BY <1>3 DEF Resize
  <2>2. zoom \in -Shrink .. Grow
    <3>1. pages[sel].zoom \in -Shrink .. Grow /\ pages[sel].zoom # -Shrink /\ pages[sel].zoom # Grow
      BY <1>2, <1>3 DEF Resize, Page
    <3>2. Shrink \in Nat /\ Grow \in Nat
      BY ImagesAssumption
    <3> QED BY <3>1, <3>2
  <2>3. pic(ok) \in {"none", "part", "whole"}
    BY <1>2, <2>1 DEF Loads, Files
  <2> HIDE DEF zoom, pic
  <2>4. page(ok) \in Page /\ page(ok).href = pages[sel].href /\ page(ok).row = pages[sel].row
    BY <1>2, <2>2, <2>3 DEF Page
  <2> QED BY <2>1, <2>4
<1>4. ASSUME Reset
      PROVE  \E page \in Page :
               Looked(page) /\ page.href = pages[sel].href /\ page.row = pages[sel].row
  <2> DEFINE zoom(ok) == IF ok THEN 0 ELSE pages[sel].zoom
             pic(ok) == IF ok THEN Cached ELSE "none"
             page(ok) == [pages[sel] EXCEPT !.zoom = zoom(ok), !.pic = pic(ok)]
  <2>1. PICK ok \in Loads(Cached) :
          Looked([pages[sel] EXCEPT !.zoom = IF ok THEN 0 ELSE @, !.pic = pic(ok)])
    BY <1>4 DEF Reset
  <2>2. zoom(ok) \in -Shrink .. Grow
    BY <1>2, ImagesAssumption DEF Page
  <2>3. pic(ok) \in {"none", "part", "whole"}
    BY <1>2, <2>1 DEF Loads, Files
  <2>4. Looked(page(ok))
    BY <2>1
  <2> HIDE DEF zoom, pic
  <2>5. page(ok) \in Page /\ page(ok).href = pages[sel].href /\ page(ok).row = pages[sel].row
    BY <1>2, <2>2, <2>3 DEF Page
  <2> QED BY <2>4, <2>5
<1> QED BY <1>1, <1>3, <1>4

(* A row that is written is newer than those of the pages.                 *)
LEMMA PagesStay ==
  ASSUME ViewerInv, NotebookInv, UNCHANGED pages,
         rows' \in [Hrefs -> Nat], \A h \in Hrefs : rows[h] <= rows'[h],
         calls' # <<>> /\ Top'.pc = "show" => rows[Here'] < rows'[Here']
  PROVE  NotebookInv'
<1>1. ASSUME NEW n \in 1 .. Len(pages) PROVE Recorded(pages[n])'
  <2>1. pages[n] \in Page /\ pages[n].row <= rows[pages[n].href]
    BY ElementOfSeq DEF NotebookInv, Recorded
  <2>2. pages[n].href \in Hrefs /\ pages[n].row \in Nat
    BY <2>1, ImagesAssumption DEF Page
  <2>3. rows[pages[n].href] \in Nat /\ rows'[pages[n].href] \in Nat
        /\ rows[pages[n].href] <= rows'[pages[n].href]
    BY <2>2 DEF ViewerInv
  <2> QED BY <2>1, <2>2, <2>3 DEF Recorded, Top, Here
<1> QED BY <1>1 DEF NotebookInv

(* The innermost call after a step of it.                                  *)
LEMMA LastOfAppended ==
  ASSUME NEW S, NEW s \in Seq(S), NEW x \in S
  PROVE  Last(Append(s, x)) = x
<1>1. Len(s) \in Nat /\ Len(Append(s, x)) = Len(s) + 1 /\ Append(s, x)[Len(s) + 1] = x
  BY AppendProperties, LenProperties
<1> QED BY <1>1 DEF Last

(* The call put in the place of the innermost one is the innermost.        *)
LEMMA TopMoved ==
  ASSUME ViewerInv, calls # <<>>, NEW call \in Call, Go(call)
  PROVE  Top' = call
<1>1. Front(calls) \in Seq(SoundCall) /\ SoundCall \subseteq Call
  BY TopIsSound DEF SoundCall
<1>2. Front(calls) \in Seq(Call)
  BY <1>1, SeqMonotonic
<1> QED BY <1>2, LastOfAppended DEF Go, Top

(* Every step keeps the notebook: an image arrives with the row written    *)
(* just before, and what is closed takes none of the others with it.       *)
LEMMA NotebookNext ==
  ViewerInv /\ CallsInv /\ NotebookInv /\ ViewerInv' /\ (Next \/ UNCHANGED vars)
    => NotebookInv'
<1> SUFFICES ASSUME ViewerInv, CallsInv, NotebookInv, ViewerInv', Next \/ UNCHANGED vars
             PROVE  NotebookInv'
  OBVIOUS
<1>0. \E S : pages' \in Seq(S)
  BY DEF ViewerInv
<1>1. ASSUME UNCHANGED <<pages, rows, calls>> PROVE NotebookInv'
  BY <1>1 DEF NotebookInv, Recorded, Top, Here
<1>2. CASE OnInit \/ UNCHANGED vars \/ SelectLeftThumbnailTab \/ SelectRightThumbnailTab
  BY <1>1, <1>2 DEF OnInit, vars, viewer, SelectLeftThumbnailTab, SelectRightThumbnailTab, Show
<1>3. CASE OnClose \/ AllThumbnailTabClose \/ End
  <2>1. pages' = <<>> /\ Len(<<>>) = 0 /\ <<>> \in Seq(Page)
    BY <1>3, EmptySeq DEF OnClose, AllThumbnailTabClose, End, Show
  <2> QED BY <2>1 DEF NotebookInv
<1>4. CASE OneThumbnailTabClose
  <2> DEFINE was == [n \in 1 .. Len(pages') |-> IF n < sel THEN n ELSE n + 1]
  <2>1. Remain(was)
    BY <1>4, OneCloses DEF Remain
  <2> QED BY <1>0, <1>4, <2>1, OneCloses, RemainKeeps
<1>5. CASE AllLeftThumbnailTabClose
  <2> DEFINE was == [n \in 1 .. Len(pages') |-> sel + n - 1]
  <2>1. Remain(was)
    BY <1>5, LeftCloses DEF Remain
  <2> QED BY <1>0, <1>5, <2>1, LeftCloses, RemainKeeps
<1>6. CASE AllRightThumbnailTabClose
  <2> DEFINE was == [n \in 1 .. Len(pages') |-> n]
  <2>1. Remain(was)
    BY <1>6, RightCloses DEF Remain
  <2> QED BY <1>0, <1>6, <2>1, RightCloses, RemainKeeps
<1>7. CASE Resize(TRUE) \/ Resize(FALSE) \/ Reset
  BY <1>7, ResizeLooks, LookKeeps
<1>8. ASSUME NEW h \in Hrefs, OnLeftClickHtmlWindow(h) PROVE NotebookInv'
  <2>1. Top'.pc # "show"
    <3> DEFINE call == [pc |-> IF h \in Ftp THEN "save" ELSE "get",
                        href |-> h, begun |-> FALSE, lost |-> FALSE]
    <3>1. Len(calls') = Len(calls) + 1 /\ Len(calls) \in Nat
      BY <1>8, ClickCounted, Stack
    <3>2. calls' = Append(IF h \in Ftp THEN calls ELSE Truncated(calls, h), call)
      BY <1>8 DEF OnLeftClickHtmlWindow
    <3>3. calls'[Len(calls')].pc # "show"
      BY <3>1, <3>2
    <3> QED BY <3>3 DEF Top, Last
  <2>2. UNCHANGED <<pages, rows>> /\ \A g \in Hrefs : rows[g] <= rows[g]
    BY <1>8 DEF OnLeftClickHtmlWindow, viewer, ViewerInv
  <2> QED BY <2>1, <2>2, PagesStay DEF ViewerInv
<1>9. CASE Read \/ ReadAll \/ Broken
  <2>1. /\ calls # <<>> /\ UNCHANGED <<pages, rows>> /\ Top.pc = "get"
        /\ Go([Top EXCEPT !.begun = TRUE]) \/ Go([Top EXCEPT !.pc = "save"])
    BY <1>9 DEF Read, ReadAll, Broken, At, viewer
  <2>2. Top \in Call
    BY <2>1, StackPlaces
  <2>3. Top' = [Top EXCEPT !.begun = TRUE] \/ Top' = [Top EXCEPT !.pc = "save"]
    <3>1. [Top EXCEPT !.begun = TRUE] \in Call /\ [Top EXCEPT !.pc = "save"] \in Call
      BY <2>2 DEF Call
    <3> QED BY <2>1, <3>1, TopMoved
  <2>4. Top'.pc # "show"
    BY <2>1, <2>2, <2>3 DEF Call
  <2>5. \A h \in Hrefs : rows[h] <= rows[h]
    BY DEF ViewerInv
  <2> QED BY <2>1, <2>4, <2>5, PagesStay DEF ViewerInv
<1>10. CASE SaveImageFileInfoDB
  <2>1. /\ calls # <<>> /\ UNCHANGED pages /\ Go([Top EXCEPT !.pc = "show"])
        /\ rows' = [rows EXCEPT ![Here] = @ + 1]
    BY <1>10 DEF SaveImageFileInfoDB, At, viewer
  <2>2. Top \in Call /\ Here \in Hrefs /\ Here = Top.href
    BY <2>1, StackPlaces DEF Here, Call
  <2>3. Top' = [Top EXCEPT !.pc = "show"]
    <3>1. [Top EXCEPT !.pc = "show"] \in Call
      BY <2>2 DEF Call
    <3> QED BY <2>1, <3>1, TopMoved
  <2>4. Here' = Here
    BY <2>2, <2>3 DEF Here, Call
  <2>5. /\ rows' \in [Hrefs -> Nat] /\ rows[Here] < rows'[Here]
        /\ \A h \in Hrefs : rows[h] <= rows'[h]
    BY <2>1, <2>2 DEF ViewerInv
  <2> QED BY <2>1, <2>4, <2>5, PagesStay
<1>11. CASE SetImageFile
  <2>1. /\ calls # <<>> /\ Top.pc = "show" /\ calls' = Front(calls)
        /\ UNCHANGED <<rows, clicks>>
    BY <1>11 DEF SetImageFile, At
  <2>2. calls' # <<>> => Top'.pc = "get"
    <3>1. /\ Len(calls') = Len(calls) - 1 /\ Len(calls) \in Nat
          /\ \A n \in 1 .. Len(calls) - 1 : calls'[n] = calls[n] /\ calls[n].pc = "get"
      BY <2>1, StackPlaces, Stack DEF CallsInv
    <3>2. calls' # <<>> => Len(calls') # 0
      <4>1. calls' \in Seq(SoundCall')
        BY DEF ViewerInv
      <4> QED BY <4>1, EmptySeq
    <3>3. Top' = calls'[Len(calls')]
      BY DEF Top, Last
    <3> QED BY <3>1, <3>2, <3>3
  <2>3. \A n \in 1 .. Len(pages) :
          pages[n] \in Page /\ pages[n].row <= rows[pages[n].href]
          /\ (pages[n].href = Here => pages[n].row # rows[Here])
    <3> SUFFICES ASSUME NEW n \in 1 .. Len(pages)
                 PROVE  pages[n] \in Page /\ pages[n].row <= rows[pages[n].href]
                        /\ (pages[n].href = Here => pages[n].row # rows[Here])
      OBVIOUS
    <3>1. pages[n] \in Page /\ Recorded(pages[n])
      BY ElementOfSeq DEF NotebookInv
    <3>2. pages[n].row \in Nat /\ pages[n].href \in Hrefs
      BY <3>1, ImagesAssumption DEF Page
    <3> QED BY <2>1, <3>1, <3>2 DEF Recorded, ViewerInv
  <2>4. CASE UNCHANGED <<pages, sel>>
    <3>1. \A h \in Hrefs : rows[h] <= rows[h]
      BY DEF ViewerInv
    <3> QED BY <2>1, <2>2, <2>4, <3>1, PagesStay DEF ViewerInv
  <2>5. ASSUME NEW kind \in {"part", "whole"}, Added(kind) PROVE NotebookInv'
    <3> DEFINE page == NewPage(kind)
               L == Len(pages)
    <3>1. page \in Page /\ page.href = Here /\ page.row = rows[Here]
      <4>1. Top \in SoundCall /\ Here \in Hrefs
        BY <2>1, TopIsSound
      <4>2. rows[Here] >= 1 /\ rows[Here] \in Nat
        BY <2>1, <4>1 DEF SoundCall, Here, ViewerInv
      <4>3. rows[Here] <= clicks[Here] /\ clicks[Here] \in 0 .. MaxClicks
        BY <4>1, <4>2, Stack DEF CallsInv
      <4>4. rows[Here] \in 1 .. MaxClicks /\ clicks[Here] \in 1 .. MaxClicks
        BY <4>2, <4>3, ImagesAssumption
      <4>5. 0 \in -Shrink .. Grow
        BY ImagesAssumption
      <4> QED BY <4>1, <4>4, <4>5 DEF NewPage, Page
    <3>2. pages \in Seq(Page) /\ L \in Nat /\ pages' = Append(pages, page)
      BY <2>5, LenProperties DEF NotebookInv, Added
    <3> HIDE DEF page, L
    <3>3. /\ pages' \in Seq(Page) /\ Len(pages') = L + 1 /\ pages'[L + 1] = page
          /\ \A n \in 1 .. L : pages'[n] = pages[n]
      BY <3>1, <3>2, AppendProperties DEF L
    <3>4. \A n \in 1 .. L + 1 : n \in 1 .. L \/ n = L + 1
      BY <3>2
    <3>5. ASSUME NEW m \in 1 .. L + 1, NEW n \in 1 .. L + 1,
                 pages'[m].href = pages'[n].href, pages'[m].row = pages'[n].row
          PROVE  m = n
      BY <2>3, <3>1, <3>3, <3>4, <3>5 DEF NotebookInv, L
    <3>6. ASSUME NEW n \in 1 .. L + 1 PROVE pages'[n].row <= rows[pages'[n].href]
      <4>1. rows[Here] <= rows[Here]
        BY <2>1, TopIsSound DEF ViewerInv
      <4> QED BY <2>3, <3>1, <3>3, <3>4, <4>1 DEF L
    <3>7. \A n \in 1 .. Len(pages') : Recorded(pages[n])'
      BY <2>1, <2>2, <3>3, <3>6 DEF Recorded
    <3> QED BY <3>3, <3>5, <3>7 DEF NotebookInv
  <2> QED BY <1>11, <2>4, <2>5, ImageArrives
<1> QED
  BY <1>2, <1>3, <1>4, <1>5, <1>6, <1>7, <1>8, <1>9, <1>10, <1>11 DEF Next, Download, Use

(* The bounds on calls and pages.                                          *)
BoundsInv ==
  /\ running \in BOOLEAN /\ frozen \in Nat /\ kills \in 0 .. MaxKills
  /\ Len(calls) + Len(pages) <= MaxPages

(* Every step keeps the bounds: a call that returns gives its place to the *)
(* page it adds.                                                           *)
LEMMA BoundsNext ==
  ViewerInv /\ CallsInv /\ NotebookInv /\ BoundsInv /\ (Next \/ UNCHANGED vars) => BoundsInv'
<1> SUFFICES ASSUME ViewerInv, CallsInv, NotebookInv, BoundsInv, Next \/ UNCHANGED vars
             PROVE  BoundsInv'
  OBVIOUS
<1>0. Len(calls) \in Nat /\ Len(pages) \in Nat /\ MaxPages \in Nat /\ MaxKills \in Nat
  BY Stack, OneSelected, ImagesAssumption
<1>1. CASE OnInit \/ UNCHANGED vars \/ SelectLeftThumbnailTab \/ SelectRightThumbnailTab
  BY <1>1 DEF OnInit, vars, viewer, SelectLeftThumbnailTab, SelectRightThumbnailTab, Show, BoundsInv
<1>2. CASE OnClose \/ AllThumbnailTabClose
  <2>1. Len(pages') = 0 /\ UNCHANGED <<running, frozen, kills, calls>>
    BY <1>2 DEF OnClose, AllThumbnailTabClose, Show
  <2> QED BY <1>0, <2>1 DEF BoundsInv
<1>3. CASE End
  <2>1. /\ Len(pages') = 0 /\ Len(calls') = 0 /\ running' = FALSE /\ frozen' = 0
        /\ kills' = kills + 1 /\ kills < MaxKills
    BY <1>3 DEF End
  <2>2. kills' \in 0 .. MaxKills
    BY <1>0, <2>1 DEF BoundsInv
  <2>3. Len(calls') + Len(pages') <= MaxPages
    BY <1>0, <2>1
  <2> QED BY <2>1, <2>2, <2>3 DEF BoundsInv
<1>4. CASE OneThumbnailTabClose \/ AllLeftThumbnailTabClose \/ AllRightThumbnailTabClose
  <2>1. Len(pages') <= Len(pages) /\ Len(pages') \in Nat
    BY <1>0, <1>4, OneCloses, LeftCloses, RightCloses
  <2>2. UNCHANGED <<running, frozen, kills, calls>>
    BY <1>4 DEF OneThumbnailTabClose, AllLeftThumbnailTabClose, AllRightThumbnailTabClose, Show
  <2> QED BY <1>0, <2>1, <2>2 DEF BoundsInv
<1>5. CASE Resize(TRUE) \/ Resize(FALSE) \/ Reset
  <2>1. Len(pages') = Len(pages)
    BY <1>5, ResizeLooks, LookKeeps
  <2>2. UNCHANGED <<running, frozen, kills, calls>>
    BY <1>5 DEF Resize, Reset, Looked, Show
  <2> QED BY <2>1, <2>2 DEF BoundsInv
<1>6. ASSUME NEW h \in Hrefs, OnLeftClickHtmlWindow(h) PROVE BoundsInv'
  <2>1. Len(calls') = Len(calls) + 1
    BY <1>6, ClickCounted
  <2>2. UNCHANGED <<running, frozen, kills, pages>> /\ Len(calls) + Len(pages) < MaxPages
    BY <1>6 DEF OnLeftClickHtmlWindow, viewer
  <2> QED BY <1>0, <2>1, <2>2 DEF BoundsInv
<1>7. CASE Read \/ ReadAll \/ Broken \/ SaveImageFileInfoDB
  <2>1. /\ calls # <<>> /\ UNCHANGED <<running, frozen, kills, pages>>
        /\ \/ Go([Top EXCEPT !.begun = TRUE]) \/ Go([Top EXCEPT !.pc = "save"])
           \/ Go([Top EXCEPT !.pc = "show"])
    BY <1>7 DEF Read, ReadAll, Broken, SaveImageFileInfoDB, At, viewer
  <2>2. Top \in Call
    BY <2>1, StackPlaces
  <2>3. /\ [Top EXCEPT !.begun = TRUE] \in Call /\ [Top EXCEPT !.pc = "save"] \in Call
        /\ [Top EXCEPT !.pc = "show"] \in Call
    BY <2>2 DEF Call
  <2>4. \A call \in Call : Go(call) => Len(calls') = Len(calls)
    BY <2>1, StackPlaces DEF Go
  <2>5. Len(calls') = Len(calls)
    BY <2>1, <2>3, <2>4
  <2> QED BY <2>1, <2>5 DEF BoundsInv
<1>8. CASE SetImageFile
  <2>1. Len(calls') = Len(calls) - 1 /\ UNCHANGED <<running, kills>>
        /\ (frozen' = frozen \/ frozen' = frozen + 1)
    BY <1>8, CallReturns DEF SetImageFile, At
  <2>2. Len(pages') = Len(pages) \/ Len(pages') = Len(pages) + 1
    <3>1. \A page : Len(Append(pages, page)) = Len(pages) + 1
      BY OneSelected
    <3> QED BY <1>8, <3>1, ImageArrives DEF Added
  <2> QED BY <1>0, <2>1, <2>2 DEF BoundsInv
<1> QED BY <1>1, <1>2, <1>3, <1>4, <1>5, <1>6, <1>7, <1>8 DEF Next, Download, Use

(***************************************************************************)
(* The invariant of the window, and what it says.                          *)
(***************************************************************************)
WindowInv == ViewerInv /\ CallsInv /\ NotebookInv /\ BoundsInv /\ dat \in Logs

(* A step of the window is one of the viewer; a popup that reads outside   *)
(* the log may be its end.                                                 *)
LEMMA WindowSteps == [WindowNext]_<<vars, dat>> => (Next \/ UNCHANGED vars) /\ UNCHANGED dat
BY DEF WindowNext, OnCellHover, Next

(* Any clicks, downloads inside one another, closed pages and ends of the  *)
(* program keep the invariant.                                             *)
THEOREM WindowInvariant == WindowSpec => []WindowInv
<1>1. WindowInit => WindowInv
  <2> SUFFICES ASSUME WindowInit PROVE WindowInv
    OBVIOUS
  <2>1. ViewerInv /\ dat \in Logs /\ calls = <<>> /\ pages = <<>> /\ Len(<<>>) = 0
    BY ViewerInit DEF WindowInit, Init
  <2>2. \A h : Unshown(h) = {} /\ Cardinality({}) = 0
    BY <2>1, FS_EmptySet DEF Unshown
  <2>3. CallsInv
    <3>1. /\ rows = [h \in Hrefs |-> 0] /\ clicks = [h \in Hrefs |-> 0]
          /\ MaxClicks \in Nat /\ Len(calls) = 0
      BY <2>1, ImagesAssumption DEF WindowInit, Init
    <3>2. 1 .. Len(calls) - 1 = {} /\ 0 \in 0 .. MaxClicks
      BY <3>1
    <3>3. clicks \in [Hrefs -> 0 .. MaxClicks]
      BY <3>1, <3>2
    <3>4. ASSUME NEW h \in Hrefs PROVE rows[h] + Cardinality(Unshown(h)) <= clicks[h]
      <4>1. rows[h] = 0 /\ clicks[h] = 0 /\ Cardinality(Unshown(h)) = 0
        BY <2>2, <3>1
      <4> QED BY <4>1
    <3> QED BY <3>2, <3>3, <3>4 DEF CallsInv
  <2>4. NotebookInv
    BY <2>1, EmptySeq DEF NotebookInv
  <2>5. BoundsInv
    BY <2>1, ImagesAssumption DEF WindowInit, Init, BoundsInv
  <2> QED BY <2>1, <2>3, <2>4, <2>5 DEF WindowInv
<1>2. WindowInv /\ [WindowNext]_<<vars, dat>> => WindowInv'
  <2> SUFFICES ASSUME WindowInv, [WindowNext]_<<vars, dat>> PROVE WindowInv'
    OBVIOUS
  <2>1. (Next \/ UNCHANGED vars) /\ UNCHANGED dat
    BY WindowSteps
  <2>2. ViewerInv'
    BY ViewerNext DEF WindowInv
  <2> QED BY <2>1, <2>2, CallsNext, NotebookNext, BoundsNext DEF WindowInv
<1> QED BY <1>1, <1>2, PTL DEF WindowSpec

(* Every variable has its type, with the bounds; only the innermost call   *)
(* does anything but wait, and a page is selected unless there is none.    *)
THEOREM WindowTypes == WindowSpec => []WindowTypeOK
<1>1. WindowInv => WindowTypeOK
  <2> SUFFICES ASSUME WindowInv PROVE WindowTypeOK
    OBVIOUS
  <2> USE DEF WindowInv
  <2>1. calls \in Seq(Call) /\ Len(calls) \in Nat /\ Len(pages) \in Nat
    BY Stack, OneSelected
  <2>2. Len(pages) <= MaxPages
    BY <2>1, ImagesAssumption DEF BoundsInv
  <2>3. rows \in [Hrefs -> 0 .. MaxClicks]
    <3>1. ASSUME NEW h \in Hrefs PROVE rows[h] \in 0 .. MaxClicks
      BY Stack, ImagesAssumption DEF CallsInv, ViewerInv
    <3> QED BY <3>1 DEF ViewerInv
  <2> QED BY <2>1, <2>2, <2>3 DEF ViewerInv, CallsInv, NotebookInv, BoundsInv, TypeOK, WindowTypeOK
<1> QED BY <1>1, WindowInvariant, PTL

(* An image that arrives, and pages closed on either side, leave the page  *)
(* that is looked at; if it goes while others remain, it goes alone, and   *)
(* its neighbour is shown.                                                 *)
KeepsSelection ==
  (pages # <<>> /\ pages' # <<>> /\ Len(pages') # Len(pages)) =>
    IF pages[sel] \in Range(pages')
    THEN pages'[sel'] = pages[sel]
    ELSE /\ Len(pages') = Len(pages) - 1
         /\ pages'[sel'] = pages[IF sel = Len(pages) THEN sel - 1 ELSE sel + 1]

(* Each way a page comes or goes does so.                                  *)
LEMMA StepKeepsSelection ==
  ASSUME WindowInv, ViewerInv', Next
  PROVE  KeepsSelection
<1> USE DEF WindowInv
<1> SUFFICES ASSUME pages # <<>>, pages' # <<>>, Len(pages') # Len(pages)
             PROVE  KeepsSelection
  BY DEF KeepsSelection
<1>1. sel \in 1 .. Len(pages) /\ Len(pages) \in Nat
  BY OneSelected
<1>2. /\ Len(pages') \in Nat /\ Len(pages') >= 1
      /\ \A x : x \in Range(pages') <=> \E n \in 1 .. Len(pages') : x = pages'[n]
  <2>1. pages' \in Seq(StandingPage')
    BY DEF ViewerInv
  <2> DEFINE ps == pages'
             S == StandingPage'
  <2> HIDE DEF ps, S
  <2>2. ps \in Seq(S) /\ ps # <<>>
    BY <2>1 DEF ps, S
  <2>3. Len(ps) \in Nat /\ DOMAIN ps = 1 .. Len(ps) /\ Len(ps) >= 1
    BY <2>2, EmptySeq, LenProperties
  <2> QED BY <2>3 DEF Range, ps
<1>3. ASSUME sel' \in 1 .. Len(pages'), pages'[sel'] = pages[sel] PROVE KeepsSelection
  BY <1>2, <1>3 DEF KeepsSelection
<1>4. CASE OneThumbnailTabClose
  <2>1. /\ Len(pages') = Len(pages) - 1
        /\ \A n \in 1 .. Len(pages) - 1 : pages'[n] = IF n < sel THEN pages[n] ELSE pages[n + 1]
        /\ sel' = IF sel = Len(pages) THEN sel - 1 ELSE sel
    BY <1>4, OneCloses
  <2>2. pages[sel] \notin Range(pages')
    <3> SUFFICES ASSUME NEW n \in 1 .. Len(pages'), pages[sel] = pages'[n] PROVE FALSE
      BY <1>2
    <3>1. PICK k \in 1 .. Len(pages) : k # sel /\ pages'[n] = pages[k]
      <4>1. CASE n < sel
        BY <1>1, <2>1, <4>1
      <4>2. CASE ~(n < sel)
        <5>1. n + 1 \in 1 .. Len(pages) /\ n + 1 # sel /\ pages'[n] = pages[n + 1]
          BY <1>1, <2>1, <4>2
        <5> QED BY <5>1
      <4> QED BY <4>1, <4>2
    <3>2. k = sel
      BY <1>1, <3>1 DEF NotebookInv
    <3> QED BY <3>1, <3>2
  <2>3. pages'[sel'] = pages[IF sel = Len(pages) THEN sel - 1 ELSE sel + 1]
    <3>1. CASE sel = Len(pages)
      <4>1. sel' = sel - 1 /\ sel - 1 \in 1 .. Len(pages) - 1 /\ sel - 1 < sel
        BY <1>1, <1>2, <2>1, <3>1
      <4> QED BY <2>1, <3>1, <4>1
    <3>2. CASE sel # Len(pages)
      <4>1. sel' = sel /\ sel \in 1 .. Len(pages) - 1 /\ ~(sel < sel)
        BY <1>1, <2>1, <3>2
      <4> QED BY <2>1, <3>2, <4>1
    <3> QED BY <3>1, <3>2
  <2> QED BY <2>1, <2>2, <2>3 DEF KeepsSelection
<1>5. CASE AllLeftThumbnailTabClose
  <2>1. sel' = 1 /\ Len(pages') = Len(pages) - sel + 1
        /\ \A n \in 1 .. Len(pages) - sel + 1 : pages'[n] = pages[sel + n - 1]
    BY <1>5, LeftCloses
  <2>2. sel' \in 1 .. Len(pages') /\ sel + 1 - 1 = sel /\ 1 \in 1 .. Len(pages) - sel + 1
    BY <1>1, <2>1
  <2>3. pages'[1] = pages[sel + 1 - 1]
    BY <2>1, <2>2
  <2> QED BY <1>3, <2>1, <2>2, <2>3
<1>6. CASE AllRightThumbnailTabClose
  <2>1. sel' = sel /\ Len(pages') = sel /\ \A n \in 1 .. sel : pages'[n] = pages[n]
    BY <1>6, RightCloses
  <2> QED BY <1>1, <1>3, <2>1
<1>7. CASE SetImageFile
  <2>1. PICK page : pages' = Append(pages, page) /\ sel' = sel
    BY <1>7, ImageArrives DEF Added
  <2>2. Len(pages') = Len(pages) + 1 /\ \A n \in 1 .. Len(pages) : pages'[n] = pages[n]
    BY <1>1, <2>1, OneSelected
  <2>3. sel' \in 1 .. Len(pages') /\ pages'[sel'] = pages[sel]
    BY <1>1, <2>1, <2>2
  <2> QED BY <1>3, <2>3
<1>8. ASSUME pages' = <<>> \/ UNCHANGED pages PROVE FALSE
  BY <1>8
<1>9. CASE Resize(TRUE) \/ Resize(FALSE) \/ Reset
  BY <1>9, ResizeLooks, LookKeeps
<1> QED
  BY <1>4, <1>5, <1>6, <1>7, <1>8, <1>9 DEF Next, Download, Use, OnClose,
     AllThumbnailTabClose, SelectLeftThumbnailTab, SelectRightThumbnailTab, Show,
     OnLeftClickHtmlWindow, Read, ReadAll, Broken, SaveImageFileInfoDB, End, OnInit, viewer

(* Images that arrive and pages that are closed leave the user at the page *)
(* that is looked at, or at its neighbour if it was closed.                *)
THEOREM SelectionIsKept == WindowSpec => SelectionKept
<1>1. WindowInv /\ [WindowNext]_<<vars, dat>> => [KeepsSelection]_vars
  BY StepKeepsSelection, ViewerNext, WindowSteps DEF WindowInv
<1> QED BY <1>1, WindowInvariant, PTL DEF WindowSpec, SelectionKept, KeepsSelection

(***************************************************************************)
(* Popups.                                                                 *)
(***************************************************************************)
(* What FlattenSeq computes turn by turn is its result.                    *)
LEMMA Flattened ==
  ASSUME NEW s, Len(s) \in Nat \ {0}, NEW f,
         f = [i \in 1 .. Len(s) |-> IF i = 1 THEN s[i] ELSE f[i - 1] \o s[i]]
  PROVE  FlattenSeq(s) = f[Len(s)]
<1> DEFINE Turns(g) == g = [i \in 1 .. Len(s) |-> IF i = 1 THEN s[i] ELSE g[i - 1] \o s[i]]
<1>1. ASSUME NEW g, Turns(g) PROVE g = f
  <2> DEFINE T == {i \in 1 .. Len(s) : g[i] # f[i]}
  <2>1. CASE T = {}
    <3>1. g = [i \in 1 .. Len(s) |-> g[i]] /\ f = [i \in 1 .. Len(s) |-> f[i]]
      BY <1>1
    <3>2. \A i \in 1 .. Len(s) : g[i] = f[i]
      BY <2>1
    <3> QED BY <3>1, <3>2, Zenon
  <2>2. CASE T # {}
    <3>1. PICK m \in T : \A i \in T : m <= i
      <4>1. T \in SUBSET Nat
        OBVIOUS
      <4> HIDE DEF T
      <4> QED BY <2>2, <4>1, LeastNumber
    <3>2. CASE m = 1
      BY <1>1, <3>2
    <3>3. CASE m # 1
      <4>1. m - 1 \in 1 .. Len(s) /\ ~(m <= m - 1)
        BY <3>1, <3>3
      <4>2. g[m - 1] = f[m - 1]
        BY <3>1, <4>1
      <4>3. g[m] = g[m - 1] \o s[m] /\ f[m] = f[m - 1] \o s[m]
        BY <1>1, <3>1, <3>3
      <4> QED BY <3>1, <4>2, <4>3
    <3> QED BY <3>2, <3>3
  <2> QED BY <2>1, <2>2
<1> QED BY <1>1 DEF FlattenSeq

(* The texts of a range of responses.                                      *)
Lines(log, a, b) == Picked(log, {n \in a .. b : log[n] # ErrorLine})

ResponseLog == Seq(Nat \cup {ErrorLine})

(* What a line adds.                                                       *)
LEMMA TextIsLog ==
  ASSUME NEW log \in ResponseLog, NEW n \in 1 .. Len(log)
  PROVE  Text(log[n]) \in ResponseLog
<1>1. log[n] \in Nat \cup {ErrorLine}
  BY ElementOfSeq DEF ResponseLog
<1>2. <<>> \in ResponseLog /\ <<log[n]>> \in ResponseLog
  BY <1>1, EmptySeq DEF ResponseLog
<1> QED BY <1>2 DEF Text

(* An empty range has none; one line more adds its text, if it has any.    *)
LEMMA OneMoreLine ==
  ASSUME NEW log \in ResponseLog, NEW a \in 1 .. Len(log), NEW b \in a - 1 .. Len(log)
  PROVE  /\ Lines(log, a, b) \in ResponseLog
         /\ b < a => Lines(log, a, b) = <<>>
         /\ b >= a => Lines(log, a, b) = Lines(log, a, b - 1) \o Text(log[b])
<1> DEFINE P(n) == {i \in a .. n : log[i] # ErrorLine}
<1>1. Len(log) \in Nat /\ log \in Seq(Nat \cup {ErrorLine})
  BY LenProperties DEF ResponseLog
<1>2. ASSUME NEW n \in a - 1 .. Len(log)
      PROVE  P(n) \in SUBSET (1 .. Len(log)) /\ Lines(log, a, n) \in ResponseLog
  <2>1. P(n) \in SUBSET (1 .. Len(log))
    BY <1>1
  <2> QED BY <1>1, <2>1, PickedLists DEF Lines, ResponseLog
<1>3. CASE b < a
  <2>1. P(b) = {}
    BY <1>1, <1>3
  <2>2. Lines(log, a, b) = Picked(log, {})
    BY <2>1 DEF Lines
  <2> QED BY <1>1, <1>2, <1>3, <2>2, NothingAscends
<1>4. CASE b >= a
  <2>1. b - 1 \in a - 1 .. Len(log) /\ b \in 1 .. Len(log) /\ b \in Int
    BY <1>1, <1>4
  <2>2. CASE log[b] = ErrorLine
    <3>1. P(b) = P(b - 1)
      BY <1>1, <2>1, <2>2
    <3>2. Lines(log, a, b) = Lines(log, a, b - 1)
      BY <3>1 DEF Lines
    <3> QED BY <1>2, <1>4, <2>1, <2>2, <3>2, ConcatEmptySeq DEF Text, ResponseLog
  <2>3. CASE log[b] # ErrorLine
    <3>1. P(b) = P(b - 1) \cup {b} /\ \A i \in P(b - 1) : i < b
      BY <1>1, <1>4, <2>1, <2>3
    <3>2. P(b - 1) \in SUBSET (1 .. Len(log))
      BY <1>2, <2>1
    <3>3. Picked(log, P(b - 1) \cup {b}) = Append(Picked(log, P(b - 1)), log[b])
      <4> HIDE DEF P
      <4> QED BY <1>1, <2>1, <3>1, <3>2, PickedExtended
    <3>4. Lines(log, a, b) = Append(Lines(log, a, b - 1), log[b])
      BY <3>1, <3>3 DEF Lines
    <3>5. Lines(log, a, b - 1) \in ResponseLog /\ log[b] \in Nat \cup {ErrorLine}
      BY <1>1, <1>2, <2>1, ElementOfSeq
    <3>6. Text(log[b]) = <<log[b]>>
      BY <2>3 DEF Text
    <3> QED BY <1>2, <1>4, <3>4, <3>5, <3>6, AppendIsConcat DEF ResponseLog
  <2> QED BY <2>2, <2>3
<1> QED BY <1>1, <1>2, <1>3, <1>4

(* The loop over a range collects, turn by turn, the texts so far.         *)
LEMMA TextsOfRange ==
  ASSUME NEW log \in ResponseLog, NEW a \in 1 .. Len(log), NEW k \in 1 .. Len(log) + 1 - a
  PROVE  FlattenSeq([i \in 1 .. k |-> Text(log[a + i - 1])]) = Lines(log, a, a + k - 1)
<1> DEFINE s == [i \in 1 .. k |-> Text(log[a + i - 1])]
           f == [i \in 1 .. k |-> Lines(log, a, a + i - 1)]
<1>1. Len(log) \in Nat /\ k \in Nat /\ k # 0 /\ Len(s) = k
  BY LenProperties DEF ResponseLog
<1>2. ASSUME NEW i \in 1 .. k
      PROVE  f[i] = IF i = 1 THEN s[i] ELSE f[i - 1] \o s[i]
  <2>1. a + i - 1 \in a .. Len(log) /\ a + i - 1 \in a - 1 .. Len(log) /\ a + i - 1 >= a
        /\ a - 1 \in a - 1 .. Len(log)
    BY <1>1
  <2>2. Lines(log, a, a + i - 1) = Lines(log, a, a + i - 1 - 1) \o Text(log[a + i - 1])
    <3> DEFINE b == a + i - 1
    <3> SUFFICES Lines(log, a, b) = Lines(log, a, b - 1) \o Text(log[b])
      OBVIOUS
    <3> HIDE DEF b
    <3> QED BY <2>1, OneMoreLine DEF b
  <2>3. CASE i = 1
    <3>1. a + i - 1 = a /\ a + i - 1 - 1 = a - 1 /\ a - 1 < a
      BY <1>1, <2>3
    <3>2. Lines(log, a, a - 1) = <<>>
      BY <2>1, <3>1, OneMoreLine
    <3>3. Text(log[a]) \in ResponseLog
      BY TextIsLog
    <3>4. <<>> \o Text(log[a]) = Text(log[a])
      BY <3>3, ConcatEmptySeq DEF ResponseLog
    <3> QED BY <2>2, <2>3, <3>1, <3>2, <3>4
  <2>4. CASE i # 1
    <3>1. i - 1 \in 1 .. k /\ a + (i - 1) - 1 = a + i - 1 - 1
      BY <1>1, <2>4
    <3> QED BY <2>2, <2>4, <3>1
  <2> QED BY <2>3, <2>4
<1>3. f = [i \in 1 .. Len(s) |-> IF i = 1 THEN s[i] ELSE f[i - 1] \o s[i]]
  <2>1. f = [i \in 1 .. k |-> f[i]]
    OBVIOUS
  <2> HIDE DEF f, s
  <2> QED BY <1>1, <1>2, <2>1
<1>4. FlattenSeq(s) = f[Len(s)]
  <2> HIDE DEF f, s
  <2> QED BY <1>1, <1>3, Flattened
<1> QED BY <1>1, <1>4

ThreadLogs == {log \in ResponseLog : \A n \in 1 .. Len(log) : log[n] \in {n, ErrorLine}}

(* The texts of a range are of responses in it, and the last is that of    *)
(* its last response, if it is one.                                        *)
LEMMA LinesAreResponses ==
  ASSUME NEW log \in ThreadLogs, NEW a \in 1 .. Len(log), NEW b \in a .. Len(log)
  PROVE  /\ ToSet(Lines(log, a, b)) \subseteq a .. b
         /\ log[b] # ErrorLine => Last(Lines(log, a, b)) = b
<1> DEFINE P == {n \in a .. b : log[n] # ErrorLine}
<1>1. /\ log \in ResponseLog /\ log \in Seq(Nat \cup {ErrorLine}) /\ Len(log) \in Nat
      /\ \A n \in 1 .. Len(log) : log[n] \in {n, ErrorLine}
  BY LenProperties DEF ThreadLogs, ResponseLog
<1>2. P \in SUBSET (1 .. Len(log)) /\ \A n \in P : log[n] = n
  BY <1>1
<1>3. /\ Picked(log, P) \in Seq(Nat \cup {ErrorLine}) /\ Len(Picked(log, P)) = Cardinality(P)
      /\ \A n \in 1 .. Cardinality(P) :
           Ascending(P)[n] \in P /\ Picked(log, P)[n] = log[Ascending(P)[n]]
  <2> HIDE DEF P
  <2> QED BY <1>1, <1>2, PickedLists
<1>4. \A n \in 1 .. Len(Picked(log, P)) : Picked(log, P)[n] \in P
  <2> HIDE DEF P
  <2> QED BY <1>2, <1>3
<1>5. ToSet(Lines(log, a, b)) \subseteq a .. b
  <2>1. Lines(log, a, b) = Picked(log, P)
    BY DEF Lines
  <2>2. P \subseteq a .. b
    OBVIOUS
  <2> HIDE DEF P
  <2>3. DOMAIN Picked(log, P) = 1 .. Len(Picked(log, P))
    BY <1>3, LenProperties
  <2> QED BY <1>4, <2>1, <2>2, <2>3 DEF ToSet
<1>6. ASSUME log[b] # ErrorLine PROVE Last(Lines(log, a, b)) = b
  <2>1. b \in a - 1 .. Len(log) /\ b - 1 \in a - 1 .. Len(log) /\ b >= a /\ b \in Nat
        /\ log[b] = b
    BY <1>1, <1>6
  <2>2. Lines(log, a, b) = Lines(log, a, b - 1) \o <<b>>
    <3>1. Lines(log, a, b) = Lines(log, a, b - 1) \o Text(log[b])
      BY <1>1, <2>1, OneMoreLine
    <3> QED BY <1>6, <2>1, <3>1 DEF Text
  <2> DEFINE before == Lines(log, a, b - 1)
  <2>3. before \in Seq(Nat \cup {ErrorLine})
    <3> DEFINE c == b - 1
    <3>1. c \in a - 1 .. Len(log)
      BY <2>1
    <3> HIDE DEF c
    <3>2. Lines(log, a, c) \in ResponseLog
      BY <1>1, <3>1, OneMoreLine
    <3> QED BY <3>2 DEF c, ResponseLog
  <2> HIDE DEF before
  <2>4. Append(before, b) = before \o <<b>>
    BY <2>1, <2>3, AppendIsConcat
  <2>5. Len(before) \in Nat /\ Len(Append(before, b)) = Len(before) + 1
        /\ Append(before, b)[Len(before) + 1] = b
    BY <2>1, <2>3, AppendProperties, LenProperties
  <2>6. Last(Append(before, b)) = b
    BY <2>5 DEF Last
  <2> QED BY <2>2, <2>4, <2>6 DEF before
<1> QED BY <1>5, <1>6

(* A popup that has, for every response of a range, an item with the texts *)
(* up to this response shows the range.                                    *)
LEMMA ItemsShow ==
  ASSUME NEW log \in ThreadLogs, NEW a \in 1 .. Len(log), NEW b \in a .. Len(log), NEW popup,
         popup = [k \in 1 .. b + 1 - a |->
                    [number |-> a + k - 1, texts |-> Lines(log, a, a + k - 1)]]
  PROVE  Shows(popup, log, a, b)
<1>1. Len(log) \in Nat /\ b + 1 - a \in Nat /\ b + 1 - a >= 1
  BY LenProperties DEF ThreadLogs, ResponseLog
<1>2. Len(popup) = b + 1 - a
  BY <1>1
<1>3. ASSUME NEW k \in 1 .. b + 1 - a
      PROVE  /\ popup[k].number = a + k - 1 /\ popup[k].texts = Lines(log, a, a + k - 1)
             /\ ToSet(popup[k].texts) \subseteq a .. popup[k].number
             /\ log[popup[k].number] # ErrorLine => Last(popup[k].texts) = popup[k].number
  <2> DEFINE c == a + k - 1
  <2>1. popup[k].number = c /\ popup[k].texts = Lines(log, a, c)
    OBVIOUS
  <2>2. c \in a .. Len(log)
    BY <1>1
  <2> HIDE DEF c
  <2>3. /\ ToSet(Lines(log, a, c)) \subseteq a .. c
        /\ log[c] # ErrorLine => Last(Lines(log, a, c)) = c
    BY <2>2, LinesAreResponses
  <2> QED BY <2>1, <2>3 DEF c
<1>4. Last(popup).texts = Picked(log, {n \in a .. b : log[n] # ErrorLine})
  <2>1. Last(popup) = popup[b + 1 - a] /\ b + 1 - a \in 1 .. b + 1 - a /\ a + (b + 1 - a) - 1 = b
    BY <1>1, <1>2 DEF Last
  <2>2. Last(popup).texts = Lines(log, a, b)
    BY <1>3, <2>1
  <2> QED BY <2>2 DEF Lines
<1> QED BY <1>2, <1>3, <1>4 DEF Shows

(* The popup for a response, or a range of them, that the log has shows    *)
(* these responses, whatever the log is.                                   *)
THEOREM PopupsShowResponses == WindowSpec => []PopupShowsResponses
<1>1. dat \in Logs => PopupShowsResponses
  <2> SUFFICES ASSUME dat \in Logs, dat # NoLog, NEW start \in 1 .. MaxRes, start <= Len(dat)
               PROVE  /\ Shows(FindAnchoredResponse(dat, start, NoEnd), dat, start, start)
                      /\ \A end \in start .. MaxRes : end <= Len(dat) =>
                           Shows(FindAnchoredResponse(dat, start, end), dat, start, end)
    BY DEF PopupShowsResponses
  <2>1. dat \in ThreadLogs /\ dat \in ResponseLog
    BY LogsAssumption DEF ThreadLogs, ResponseLog
  <2>2. Len(dat) \in Nat /\ start \in 1 .. Len(dat) /\ MaxRes \in Nat
        /\ ~(start > MaxRes) /\ start \in Nat
    BY <2>1, LenProperties, AnchorsAssumption DEF ResponseLog
  <2>3. Shows(FindAnchoredResponse(dat, start, NoEnd), dat, start, start)
    <3> DEFINE popup == FindAnchoredResponse(dat, start, NoEnd)
    <3>1. popup = <<[number |-> start, texts |-> Text(dat[start])]>>
      BY <2>2 DEF FindAnchoredResponse, OneResponse
    <3>2. Lines(dat, start, start) = Text(dat[start])
      <4>1. start \in start - 1 .. Len(dat) /\ start - 1 \in start - 1 .. Len(dat)
            /\ start >= start /\ start - 1 < start
        BY <2>2
      <4>2. Lines(dat, start, start) = Lines(dat, start, start - 1) \o Text(dat[start])
            /\ Lines(dat, start, start - 1) = <<>>
        BY <2>1, <2>2, <4>1, OneMoreLine
      <4>3. Text(dat[start]) \in ResponseLog
        BY <2>1, <2>2, TextIsLog
      <4> QED BY <4>2, <4>3, ConcatEmptySeq DEF ResponseLog
    <3>3. popup = [k \in 1 .. start + 1 - start |->
                     [number |-> start + k - 1, texts |-> Lines(dat, start, start + k - 1)]]
      <4>1. start + 1 - start = 1 /\ \A k \in 1 .. 1 : k = 1 /\ start + k - 1 = start
        BY <2>2
      <4> HIDE DEF popup
      <4> QED BY <3>1, <3>2, <4>1
    <3>4. start \in start .. Len(dat)
      BY <2>2
    <3> HIDE DEF popup
    <3>5. Shows(popup, dat, start, start)
      BY <2>1, <2>2, <3>3, <3>4, ItemsShow
    <3> QED BY <3>5 DEF popup
  <2>4. ASSUME NEW end \in start .. MaxRes, end <= Len(dat)
        PROVE  Shows(FindAnchoredResponse(dat, start, end), dat, start, end)
    <3> DEFINE popup == FindAnchoredResponse(dat, start, end)
    <3>1. popup = SeveralResponses(dat, start, end)
      BY <2>2, <2>4, AnchorsAssumption DEF FindAnchoredResponse
    <3>2. ASSUME NEW k \in 1 .. end + 1 - start
          PROVE  FlattenSeq([i \in 1 .. k |-> Text(dat[start + i - 1])])
                   = Lines(dat, start, start + k - 1)
      <4>1. k \in 1 .. Len(dat) + 1 - start
        BY <2>2, <2>4
      <4> QED BY <2>1, <2>2, <4>1, TextsOfRange
    <3>3. popup = [k \in 1 .. end + 1 - start |->
                     [number |-> start + k - 1, texts |-> Lines(dat, start, start + k - 1)]]
      BY <3>1, <3>2 DEF SeveralResponses
    <3>4. end \in start .. Len(dat)
      BY <2>2, <2>4
    <3> HIDE DEF popup
    <3>5. Shows(popup, dat, start, end)
      BY <2>1, <2>2, <3>3, <3>4, ItemsShow
    <3> QED BY <3>5 DEF popup
  <2> QED BY <2>3, <2>4
<1>2. WindowInit => dat \in Logs
  BY DEF WindowInit
<1>3. dat \in Logs /\ [WindowNext]_<<vars, dat>> => (dat \in Logs)'
  BY DEF WindowNext, OnCellHover
<1> QED BY <1>1, <1>2, <1>3, PTL DEF WindowSpec
=============================================================================
