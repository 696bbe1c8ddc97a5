-------------------------- MODULE ThreadTabsProofs --------------------------
(***************************************************************************)
(* Proofs about ThreadTabs for any threads, titles and bounds.             *)
(***************************************************************************)
EXTENDS ThreadTabs, SelectionProofs

(***************************************************************************)
(* Sequences                                                               *)
(***************************************************************************)
(* Without its i-th element a sequence is one shorter and the elements     *)
(* behind move up.                                                         *)
LEMMA RemoveAtProperties ==
  ASSUME NEW S, NEW s \in Seq(S), NEW i \in 1 .. Len(s)
  PROVE  /\ RemoveAt(s, i) \in Seq(S)
         /\ Len(RemoveAt(s, i)) = Len(s) - 1
         /\ \A j \in 1 .. (Len(s) - 1) :
              RemoveAt(s, i)[j] = IF j < i THEN s[j] ELSE s[j + 1]
<1> DEFINE front == SubSeq(s, 1, i - 1)
           back  == SubSeq(s, i + 1, Len(s))
<1>0. Len(s) \in Nat /\ \A j \in 1 .. Len(s) : s[j] \in S
  BY LenProperties, ElementOfSeq
<1>1. /\ front \in Seq(S) /\ Len(front) = i - 1
      /\ \A j \in 1 .. (i - 1) : front[j] = s[j]
  BY <1>0, SubSeqProperties
<1>2. /\ back \in Seq(S) /\ Len(back) = Len(s) - i
      /\ \A j \in 1 .. (Len(s) - i) : back[j] = s[i + j]
  BY <1>0, SubSeqProperties
<1> HIDE DEF front, back
<1>3. /\ front \o back \in Seq(S)
      /\ Len(front \o back) = Len(s) - 1
      /\ \A j \in 1 .. (Len(s) - 1) :
           (front \o back)[j] = IF j <= i - 1 THEN front[j] ELSE back[j - (i - 1)]
  <2>1. /\ front \o back \in Seq(S) /\ Len(front \o back) = Len(front) + Len(back)
        /\ \A j \in 1 .. Len(front) + Len(back) :
             (front \o back)[j] = IF j <= Len(front) THEN front[j] ELSE back[j - Len(front)]
    BY <1>1, <1>2, ConcatProperties
  <2>2. Len(front) + Len(back) = Len(s) - 1
    BY <1>0, <1>1, <1>2
  <2> QED BY <1>1, <2>1, <2>2
<1>4. ASSUME NEW j \in 1 .. (Len(s) - 1)
      PROVE  (front \o back)[j] = IF j < i THEN s[j] ELSE s[j + 1]
  <2>1. CASE j < i
    BY <2>1, <1>0, <1>1, <1>3
  <2>2. CASE ~(j < i)
    <3>1. j - (i - 1) \in 1 .. (Len(s) - i) /\ i + (j - (i - 1)) = j + 1
      BY <2>2, <1>0
    <3>2. back[j - (i - 1)] = s[i + (j - (i - 1))]
      BY <1>2, <3>1
    <3>3. ~(j <= i - 1)
      BY <2>2
    <3>4. (front \o back)[j] = back[j - (i - 1)]
      BY <1>3, <3>3
    <3> QED BY <2>2, <3>1, <3>2, <3>4
  <2> QED BY <2>1, <2>2
<1> QED BY <1>3, <1>4 DEF RemoveAt, front, back

(* Elements of an appended sequence.                                       *)
LEMMA AppendElements ==
  ASSUME NEW S, NEW s \in Seq(S), NEW e \in S
  PROVE  /\ Append(s, e) \in Seq(S) /\ Len(Append(s, e)) = Len(s) + 1
         /\ \A j \in 1 .. (Len(s) + 1) :
              Append(s, e)[j] = IF j = Len(s) + 1 THEN e ELSE s[j]
         /\ Len(s) \in Nat
BY AppendProperties, LenProperties

(***************************************************************************)
(* The notebook                                                            *)
(***************************************************************************)
(* A notebook is empty exactly when it has no pages.                       *)
LEMMA EmptyNotebook ==
  ASSUME NEW S, NEW s \in Seq(S)
  PROVE  /\ Len(s) \in Nat /\ (s = <<>> <=> Len(s) = 0)
         /\ \A i \in 1 .. Len(s) : s[i] \in S
BY LenProperties, EmptySeq, ElementOfSeq

(* DeletePage keeps the selection on a page, and takes out the page with   *)
(* the index it is given or none.                                          *)
LEMMA DeletePageProperties ==
  ASSUME TypeOK, NEW i \in Nat, DeletePage(i)
  PROVE  /\ pages' \in Seq(Page) /\ Len(pages') <= MaxPages
         /\ sel' \in 0 .. Len(pages') /\ (sel' = 0 <=> pages' = <<>>)
         /\ i \in 1 .. Len(pages) =>
              /\ Len(pages') = Len(pages) - 1
              /\ \A j \in 1 .. Len(pages') :
                   pages'[j] = IF j < i THEN pages[j] ELSE pages[j + 1]
         /\ i \notin 1 .. Len(pages) => UNCHANGED notebook
<1>1. /\ pages \in Seq(Page) /\ Len(pages) \in Nat /\ Len(pages) <= MaxPages
      /\ sel \in 0 .. Len(pages) /\ (sel = 0 <=> Len(pages) = 0)
      /\ MaxPages \in Nat
  BY EmptyNotebook, BoundsAssumption DEF TypeOK
<1>2. CASE i \in 1 .. Len(pages)
  <2>1. /\ pages' = RemoveAt(pages, i)
        /\ sel' = IF i < sel \/ sel = Len(pages) THEN sel - 1 ELSE sel
    BY <1>2 DEF DeletePage
  <2>2. /\ pages' \in Seq(Page) /\ Len(pages') = Len(pages) - 1
        /\ \A j \in 1 .. (Len(pages) - 1) :
             pages'[j] = IF j < i THEN pages[j] ELSE pages[j + 1]
    BY <1>1, <1>2, <2>1, RemoveAtProperties
  <2>3. sel' \in 0 .. Len(pages') /\ (sel' = 0 <=> Len(pages') = 0)
    BY <1>1, <1>2, <2>1, <2>2
  <2> QED BY <1>1, <1>2, <2>2, <2>3, EmptyNotebook
<1>3. CASE i \notin 1 .. Len(pages)
  BY <1>1, <1>3, EmptyNotebook DEF DeletePage, notebook, TypeOK
<1> QED BY <1>2, <1>3

(* A page that is added comes last and is selected.                        *)
LEMMA AddPageProperties ==
  ASSUME TypeOK, Len(pages) < MaxPages, NEW title \in Titles, NEW info \in Infos,
         SetThreadContentToNoteBook(title, info)
  PROVE  /\ pages' \in Seq(Page) /\ Len(pages') <= MaxPages
         /\ sel' \in 0 .. Len(pages') /\ (sel' = 0 <=> pages' = <<>>)
         /\ Len(pages) \in Nat /\ Len(pages') = Len(pages) + 1
         /\ \A j \in 1 .. Len(pages') :
              pages'[j] = IF j = Len(pages) + 1 THEN [title |-> title, shown |-> info]
                          ELSE pages[j]
         /\ tiHash' \in [Titles -> Infos] /\ treeQueued' \in BOOLEAN
<1>1. [title |-> title, shown |-> info] \in Page
  BY DEF Page
<1>2. /\ pages' = Append(pages, [title |-> title, shown |-> info])
      /\ sel' = Len(pages) + 1 /\ treeQueued' = TRUE
      /\ tiHash' = [tiHash EXCEPT ![title] = info]
  BY DEF SetThreadContentToNoteBook
<1>3. pages \in Seq(Page) /\ tiHash \in [Titles -> Infos] /\ MaxPages \in Nat
  BY BoundsAssumption DEF TypeOK
<1>4. /\ pages' \in Seq(Page) /\ Len(pages') = Len(pages) + 1 /\ Len(pages) \in Nat
      /\ \A j \in 1 .. (Len(pages) + 1) :
           pages'[j] = IF j = Len(pages) + 1 THEN [title |-> title, shown |-> info]
                       ELSE pages[j]
  BY <1>1, <1>2, <1>3, AppendElements
<1> QED BY <1>2, <1>3, <1>4, EmptyNotebook

(* The handler for a tab about to close puts the selected tab's entry of   *)
(* tiHash, whatever it is, in front of the closed threads.                 *)
LEMMA HandlerProperties ==
  ASSUME TypeOK, sel # 0, OnAboutCloseThreadNoteBook
  PROVE  /\ pages[sel].title \in Titles
         /\ closed' \in Seq(Row) /\ Len(closed') <= MenuSize
         /\ \A n \in 1 .. Len(closed') :
              \/ closed'[n] = [title |-> pages[sel].title, info |-> tiHash[pages[sel].title]]
              \/ \E k \in 1 .. Len(closed) : closed'[n] = closed[k]
         /\ tiHash' = [tiHash EXCEPT ![pages[sel].title] = Blank]
         /\ tiHash' \in [Titles -> Infos] /\ treeQueued' = TRUE
<1> DEFINE title == pages[sel].title
           row   == [title |-> title, info |-> tiHash[title]]
           rows  == <<row>> \o closed
<1>1. title \in Titles /\ closed \in Seq(Row) /\ tiHash \in [Titles -> Infos]
  <2>1. sel \in 1 .. Len(pages) /\ pages \in Seq(Page)
    BY EmptyNotebook DEF TypeOK
  <2>2. pages[sel] \in Page
    BY <2>1, EmptyNotebook
  <2> QED BY <2>2 DEF TypeOK, Page
<1>2. row \in Row
  BY <1>1 DEF Row
<1> HIDE DEF row
<1>3. /\ <<row>> \in Seq(Row) /\ Len(<<row>>) = 1 /\ <<row>>[1] = row
  BY <1>2
<1>4. /\ rows \in Seq(Row) /\ Len(rows) = 1 + Len(closed) /\ Len(closed) \in Nat
      /\ \A i \in 1 .. Len(rows) : rows[i] = IF i = 1 THEN row ELSE closed[i - 1]
  <2>1. /\ rows \in Seq(Row) /\ Len(rows) = Len(<<row>>) + Len(closed)
        /\ \A i \in 1 .. (Len(<<row>>) + Len(closed)) :
             rows[i] = IF i <= Len(<<row>>) THEN <<row>>[i] ELSE closed[i - Len(<<row>>)]
    BY <1>1, <1>3, ConcatProperties
  <2>2. Len(closed) \in Nat
    BY <1>1, EmptyNotebook
  <2> QED BY <1>3, <2>1, <2>2
<1> HIDE DEF rows
<1> DEFINE n == IF Len(rows) < MenuSize THEN Len(rows) ELSE MenuSize
<1>5. n \in Nat /\ n <= Len(rows) /\ n <= MenuSize
  BY <1>4, BoundsAssumption
<1>6. closed' = SubSeq(rows, 1, n) /\ tiHash' = [tiHash EXCEPT ![title] = Blank]
      /\ treeQueued' = TRUE
  BY DEF OnAboutCloseThreadNoteBook, SetThreadInfo, Newest, rows, row
<1> HIDE DEF n
<1>7. /\ closed' \in Seq(Row) /\ Len(closed') = n
      /\ \A i \in 1 .. n : closed'[i] = rows[i]
  <2>1. \A i \in 1 .. n : rows[i] \in Row
    BY <1>4, <1>5, EmptyNotebook
  <2>2. /\ SubSeq(rows, 1, n) \in Seq(Row)
        /\ Len(SubSeq(rows, 1, n)) = IF 1 <= n THEN n - 1 + 1 ELSE 0
        /\ \A i \in 1 .. (n - 1 + 1) : SubSeq(rows, 1, n)[i] = rows[1 + i - 1]
    BY <1>5, <2>1, SubSeqProperties
  <2> QED BY <1>5, <1>6, <2>2
<1>8. ASSUME NEW i \in 1 .. Len(closed')
      PROVE  closed'[i] = row \/ \E k \in 1 .. Len(closed) : closed'[i] = closed[k]
  <2>1. i \in 1 .. Len(rows) /\ closed'[i] = rows[i]
    BY <1>4, <1>5, <1>7
  <2>2. CASE i = 1
    BY <1>4, <2>1, <2>2
  <2>3. CASE i # 1
    <3>1. i - 1 \in 1 .. Len(closed)
      BY <1>4, <2>1, <2>3
    <3> QED BY <1>4, <2>1, <2>3, <3>1
  <2> QED BY <2>2, <2>3
<1>9. tiHash' \in [Titles -> Infos]
  BY <1>1, <1>6 DEF Infos
<1> QED BY <1>1, <1>5, <1>6, <1>7, <1>8, <1>9 DEF row

(* A reload changes what the selected page displays and no label.          *)
LEMMA ReloadProperties ==
  ASSUME TypeOK, NEW title \in Titles \cup {NoTitle}, ReloadThread(title)
  PROVE  /\ pages' \in Seq(Page) /\ Len(pages') = Len(pages)
         /\ (pages' = <<>> <=> pages = <<>>)
         /\ \A j \in 1 .. Len(pages) :
              /\ pages'[j].title = pages[j].title
              /\ pages'[j].shown =
                   IF j # sel THEN pages[j].shown
                   ELSE IF title = NoTitle THEN Blank ELSE tiHash[title]
         /\ logs' \in SUBSET Infos
<1> DEFINE info == IF title = NoTitle THEN Blank ELSE tiHash[title]
           page == [pages[sel] EXCEPT !.shown = info]
<1>1. info \in Infos
  BY DEF TypeOK, Infos
<1>2. /\ pages \in Seq(Page) /\ Len(pages) \in Nat
      /\ sel \in 0 .. Len(pages) /\ (sel = 0 <=> Len(pages) = 0)
      /\ \A j \in 1 .. Len(pages) : pages[j] \in Page
  BY EmptyNotebook DEF TypeOK
<1>3. /\ pages' = IF sel = 0 THEN pages ELSE [pages EXCEPT ![sel] = page]
      /\ logs' = logs \cup {info}
  BY DEF ReloadThread
<1>4. CASE sel = 0
  BY <1>1, <1>2, <1>3, <1>4 DEF TypeOK
<1>5. CASE sel # 0
  <2>1. sel \in 1 .. Len(pages) /\ pages[sel] \in Page
    BY <1>2, <1>5
  <2>2. page \in Page /\ page.title = pages[sel].title /\ page.shown = info
    BY <1>1, <2>1 DEF Page
  <2> HIDE DEF page, info
  <2>3. /\ pages' \in Seq(Page) /\ Len(pages') = Len(pages)
        /\ \A j \in 1 .. Len(pages) : pages'[j] = IF j = sel THEN page ELSE pages[j]
    BY <1>2, <1>3, <1>5, <2>1, <2>2, ExceptSeq
  <2>4. (pages' = <<>> <=> pages = <<>>) /\ logs' \in SUBSET Infos
    BY <1>1, <1>2, <1>3, <2>3, EmptyNotebook DEF TypeOK
  <2> QED BY <2>2, <2>3, <2>4 DEF info
<1> QED BY <1>4, <1>5

(***************************************************************************)
(* Type correctness.  The handler for a closing tab needs a selected page, *)
(* so the loops must be known not to run the notebook empty; and the loop  *)
(* that restores a session must be known to fit into the notebook.         *)
(***************************************************************************)
(* Where a page of the running bulk close stood when the loop began.       *)
Origin(j) ==
  CASE loop.op = "right" -> IF loop.i <= loop.select \/ j <= loop.select THEN j
                            ELSE j + loop.i - loop.select - 1
    [] loop.op = "except" -> IF loop.i <= loop.select THEN j + loop.i - 1
                             ELSE IF j = 1 THEN loop.select ELSE j + loop.i - 1
    [] OTHER -> j + loop.i - 1

Remaining ==
  CASE loop.op = "right" -> IF loop.i <= loop.select THEN Len(before)
                            ELSE Len(before) + 1 + loop.select - loop.i
    [] loop.op = "except" -> IF loop.i > Len(before) THEN 1 ELSE Len(before) + 1 - loop.i
    [] OTHER -> Len(before) + 1 - loop.i

BulkLoop ==
  /\ running
  /\ loop.select \in 1 .. Len(before)
  /\ loop.last = IF loop.op = "left" THEN loop.select - 1 ELSE Len(before)
  /\ loop.i \in 1 .. loop.last + 1
  /\ loop.op = "except" => (loop.deleted <=> loop.i > loop.select)
  /\ Len(pages) = Remaining
  /\ \A j \in 1 .. Len(pages) : Origin(j) \in 1 .. Len(before) /\ pages[j] = before[Origin(j)]

RestoreLoop ==
  /\ loop.last = Len(session) /\ loop.i \in 1 .. loop.last + 1
  /\ Len(pages) < loop.i

TabInv ==
  /\ TypeOK
  /\ ~running => pages = <<>> /\ loop.op = "none"
  /\ loop.op = "restore" => RestoreLoop
  /\ loop.op \in BulkOps => BulkLoop

(* The application starts with an empty notebook and no loop.              *)
LEMMA TabInit == Init => TabInv
<1> SUFFICES ASSUME Init PROVE TabInv
  OBVIOUS
<1>1. /\ <<>> \in Seq(Page) /\ <<>> \in Seq(Row) /\ <<>> \in Seq(Titles \cup {NoTitle})
      /\ Len(<<>>) = 0
  BY EmptySeq
<1>2. /\ tiHash \in [Titles -> Infos] /\ Idle.op = "none"
      /\ Idle \in [op : BulkOps \cup {"none", "restore"}, i : Nat, last : Nat,
                   select : Nat, deleted : BOOLEAN]
  BY DEF Init, Infos, Idle
<1>3. TypeOK
  BY <1>1, <1>2, BoundsAssumption DEF Init, TypeOK
<1> QED BY <1>2, <1>3 DEF Init, TabInv, BulkOps

(* A step that leaves the notebook, the session and the loops alone.       *)
LEMMA LoopsUntouched ==
  ASSUME TabInv, TypeOK', UNCHANGED <<running, pages, session, loop, before>>
  PROVE  TabInv'
<1>1. Remaining' = Remaining
  BY DEF Remaining
<1>2. \A j : Origin(j)' = Origin(j)
  BY DEF Origin
<1>3. BulkLoop => BulkLoop'
  BY <1>1, <1>2 DEF BulkLoop
<1>4. RestoreLoop => RestoreLoop'
  BY DEF RestoreLoop
<1> QED BY <1>3, <1>4 DEF TabInv

(* A step between two loops that leaves the application running.           *)
LEMMA NoLoop ==
  ASSUME TypeOK', running', loop'.op = "none"
  PROVE  TabInv'
BY DEF TabInv, BulkOps

(* What a step that closes the selected tab's thread may rely on.          *)
LEMMA Selected ==
  ASSUME TypeOK, sel # 0
  PROVE  /\ sel \in 1 .. Len(pages) /\ pages[sel].title \in Titles
         /\ pages[sel].shown \in Infos /\ Len(pages) \in Nat \ {0}
         /\ tiHash[pages[sel].title] \in Infos
<1>1. /\ sel \in 1 .. Len(pages) /\ Len(pages) \in Nat \ {0} /\ pages[sel] \in Page
      /\ tiHash \in [Titles -> Infos]
  BY EmptyNotebook DEF TypeOK
<1> QED BY <1>1 DEF Page

(* What every turn of a bulk close starts from.                            *)
LEMMA TurnFacts ==
  ASSUME TabInv, NEW op \in BulkOps, Turn(op)
  PROVE  /\ running /\ loop.op = op /\ BulkLoop
         /\ Len(before) \in Nat /\ Len(pages) \in Nat
         /\ loop.select \in 1 .. Len(before) /\ loop.i \in 1 .. Len(before)
         /\ loop.i <= loop.last /\ loop.last \in Nat /\ loop.deleted \in BOOLEAN
         /\ Len(pages) >= 1 /\ sel # 0
<1>1. /\ running /\ loop.op = op /\ BulkLoop /\ TypeOK /\ loop.i <= loop.last
  BY DEF TabInv, Turn, BulkLoop
<1>2. /\ Len(before) \in Nat /\ Len(pages) \in Nat /\ (sel = 0 <=> Len(pages) = 0)
      /\ loop.last \in Nat /\ loop.deleted \in BOOLEAN
  BY <1>1, EmptyNotebook DEF TypeOK
<1>3. /\ loop.select \in 1 .. Len(before) /\ loop.i \in 1 .. Len(before)
  BY <1>1, <1>2 DEF BulkLoop
<1>4. Len(pages) >= 1
  BY <1>1, <1>2, <1>3 DEF BulkLoop, Remaining, BulkOps
<1> QED BY <1>1, <1>2, <1>3, <1>4

Loops ==
  [op : BulkOps \cup {"none", "restore"}, i : Nat, last : Nat, select : Nat, deleted : BOOLEAN]

(* The next turn counts one further.                                       *)
LEMMA NextTurn ==
  ASSUME TypeOK, NEW b \in BOOLEAN,
         \/ loop' = [loop EXCEPT !.i = @ + 1, !.deleted = b]
         \/ loop' = [loop EXCEPT !.i = @ + 1] /\ b = loop.deleted
  PROVE  /\ loop'.op = loop.op /\ loop'.i = loop.i + 1 /\ loop'.last = loop.last
         /\ loop'.select = loop.select /\ loop'.deleted = b
         /\ loop' \in Loops
<1>1. loop \in Loops
  BY DEF TypeOK, Loops
<1>2. loop.i \in Nat /\ loop.i + 1 \in Nat
  BY <1>1 DEF Loops
<1> QED BY <1>1, <1>2 DEF Loops

(* Arithmetic of a notebook whose first i pages are gone.                  *)
LEMMA Shift ==
  ASSUME NEW i \in Nat, NEW n \in Nat, NEW j \in 1 .. (n - i)
  PROVE  /\ j \in Nat /\ j + 1 \in 1 .. (n + 1 - i) /\ j + i \in 1 .. n
         /\ (j + 1) + i - 1 = j + i /\ ~(j < 1)
OBVIOUS

(* Closing all tabs but the selected one: the pages left of it go first,   *)
(* then those on its right.                                                *)
LEMMA ExceptTurn ==
  ASSUME TabInv, ExcepSelThreadTabClose
  PROVE  TabInv'
<1> DEFINE d == IF loop.i # loop.select /\ ~loop.deleted THEN 1 ELSE 2
<1>1. /\ running /\ loop.op = "except" /\ BulkLoop /\ TypeOK
      /\ Len(before) \in Nat /\ Len(pages) \in Nat
      /\ loop.select \in 1 .. Len(before) /\ loop.i \in 1 .. Len(before)
      /\ Len(pages) >= 1 /\ sel # 0 /\ loop.deleted \in BOOLEAN
  BY TurnFacts DEF ExcepSelThreadTabClose, BulkOps, TabInv
<1>2. /\ OnAboutCloseThreadNoteBook /\ DeletePage(d)
      /\ loop' = [loop EXCEPT !.i = @ + 1, !.deleted = loop.deleted \/ loop.i = loop.select]
      /\ UNCHANGED <<running, session, logs, tree, reloads, replies, threadTitle, before>>
  BY DEF ExcepSelThreadTabClose, disk, reply
<1>3. /\ loop'.op = "except" /\ loop'.i = loop.i + 1 /\ loop'.last = loop.last
      /\ loop'.select = loop.select
      /\ (loop'.deleted <=> loop.deleted \/ loop.i = loop.select)
      /\ loop' \in Loops
  <2>1. (loop.deleted \/ loop.i = loop.select) \in BOOLEAN
    OBVIOUS
  <2> QED BY <1>1, <1>2, <2>1, NextTurn
<1>4. (loop.deleted <=> loop.i > loop.select) /\ d = IF loop.i < loop.select THEN 1 ELSE 2
  BY <1>1 DEF BulkLoop
<1> HIDE DEF d
<1>5. /\ pages' \in Seq(Page) /\ Len(pages') <= MaxPages
      /\ sel' \in 0 .. Len(pages') /\ (sel' = 0 <=> pages' = <<>>)
      /\ d \in 1 .. Len(pages) =>
           /\ Len(pages') = Len(pages) - 1
           /\ \A j \in 1 .. Len(pages') :
                pages'[j] = IF j < d THEN pages[j] ELSE pages[j + 1]
      /\ d \notin 1 .. Len(pages) => pages' = pages
  BY <1>1, <1>2, <1>4, DeletePageProperties DEF notebook
<1>6. TypeOK'
  BY <1>1, <1>2, <1>3, <1>5, HandlerProperties DEF TypeOK, Loops
<1>7. /\ Remaining = Len(before) + 1 - loop.i /\ Len(pages) = Remaining
      /\ Remaining' = IF loop.i + 1 > Len(before) THEN 1 ELSE Len(before) - loop.i
  BY <1>1, <1>2, <1>3 DEF Remaining, BulkLoop
<1>8. Len(pages') = Remaining'
  <2>1. CASE loop.i = Len(before)
    BY <1>1, <1>4, <1>5, <1>7, <2>1
  <2>2. CASE loop.i < Len(before)
    BY <1>1, <1>4, <1>5, <1>7, <2>2
  <2> QED BY <1>1, <2>1, <2>2
<1>9. ASSUME NEW j \in 1 .. Len(pages')
      PROVE  Origin(j)' \in 1 .. Len(before) /\ pages'[j] = before[Origin(j)']
  <2>1. Origin(j)' = IF loop.i + 1 <= loop.select THEN j + loop.i
                     ELSE IF j = 1 THEN loop.select ELSE j + loop.i
    BY <1>1, <1>2, <1>3 DEF Origin
  <2>2. \A k \in 1 .. Len(pages) :
          pages[k] = before[IF loop.i <= loop.select THEN k + loop.i - 1
                            ELSE IF k = 1 THEN loop.select ELSE k + loop.i - 1]
    BY <1>1 DEF BulkLoop, Origin
  <2>3. Len(pages') \in Nat
    BY <1>5, EmptyNotebook
  <2>4. CASE loop.i < loop.select
    <3>1. /\ j + 1 \in 1 .. Len(pages) /\ pages'[j] = pages[j + 1]
          /\ j \in Nat /\ j + loop.i \in 1 .. Len(before) /\ (j + 1) + loop.i - 1 = j + loop.i
      <4>1. d = 1 /\ d \in 1 .. Len(pages)
        BY <1>1, <1>4, <2>4
      <4>2. /\ Len(pages') = Len(before) - loop.i
            /\ pages'[j] = IF j < 1 THEN pages[j] ELSE pages[j + 1]
        BY <1>1, <1>5, <1>7, <4>1
      <4>3. j \in 1 .. (Len(before) - loop.i) /\ Len(pages) = Len(before) + 1 - loop.i
        BY <1>7, <4>2
      <4>4. loop.i \in Nat /\ Len(before) \in Nat
        BY <1>1
      <4>5. /\ j \in Nat /\ j + 1 \in 1 .. (Len(before) + 1 - loop.i)
            /\ j + loop.i \in 1 .. Len(before) /\ (j + 1) + loop.i - 1 = j + loop.i /\ ~(j < 1)
        BY <4>3, <4>4, Shift
      <4> QED BY <4>2, <4>3, <4>5
    <3> QED BY <1>1, <2>1, <2>2, <2>4, <3>1
  <2>5. CASE loop.i >= loop.select /\ loop.i < Len(before)
    <3>1. /\ 1 \in 1 .. Len(pages) /\ j + 1 \in 1 .. Len(pages)
          /\ pages'[j] = IF j = 1 THEN pages[1] ELSE pages[j + 1]
          /\ j \in Nat /\ j + loop.i \in 1 .. Len(before) /\ (j + 1) + loop.i - 1 = j + loop.i
      <4>1. d = 2 /\ d \in 1 .. Len(pages)
        BY <1>1, <1>4, <1>7, <2>5
      <4>2. /\ Len(pages') = Len(before) - loop.i
            /\ pages'[j] = IF j < 2 THEN pages[j] ELSE pages[j + 1]
        BY <1>1, <1>5, <1>7, <4>1
      <4>3. j \in 1 .. (Len(before) - loop.i) /\ Len(pages) = Len(before) + 1 - loop.i
        BY <1>7, <4>2
      <4>4. 1 \in 1 .. Len(pages) /\ (j < 2 <=> j = 1)
        BY <1>1, <4>3
      <4> QED BY <1>1, <4>2, <4>3, <4>4, Shift
    <3>2. pages[1] = before[loop.select]
      BY <1>1, <2>2, <2>5, <3>1
    <3>3. j # 1 => pages[j + 1] = before[j + loop.i]
      BY <1>1, <2>2, <2>5, <3>1
    <3> QED BY <1>1, <2>1, <2>5, <3>1, <3>2, <3>3
  <2>6. CASE loop.i >= loop.select /\ loop.i = Len(before)
    <3>1. j = 1 /\ pages' = pages
      BY <1>1, <1>4, <1>5, <1>7, <1>8, <2>6
    <3> QED BY <1>1, <1>7, <2>1, <2>2, <2>6, <3>1
  <2> QED BY <1>1, <2>4, <2>5, <2>6
<1>10. BulkLoop'
  BY <1>1, <1>2, <1>3, <1>4, <1>8, <1>9 DEF BulkLoop
<1> QED BY <1>1, <1>2, <1>3, <1>6, <1>10 DEF TabInv, BulkOps

(* The loops over all tabs and over those to the left take the first page  *)
(* at every turn.                                                          *)
LEMMA FrontTurn ==
  ASSUME TabInv, NEW op \in {"all", "left"}, Turn(op), DeletePage(1),
         loop' = [loop EXCEPT !.i = @ + 1], running' = running, before' = before
  PROVE  /\ pages' \in Seq(Page) /\ Len(pages') <= MaxPages
         /\ sel' \in 0 .. Len(pages') /\ (sel' = 0 <=> pages' = <<>>)
         /\ loop' \in Loops /\ loop'.op = op /\ running' /\ BulkLoop'
<1>1. /\ running /\ loop.op = op /\ BulkLoop /\ TypeOK
      /\ Len(before) \in Nat /\ Len(pages) \in Nat
      /\ loop.select \in 1 .. Len(before) /\ loop.i \in 1 .. Len(before)
      /\ Len(pages) >= 1 /\ loop.i <= loop.last /\ loop.last \in Nat
  BY TurnFacts DEF BulkOps, TabInv
<1>2. /\ loop'.op = op /\ loop'.i = loop.i + 1 /\ loop'.last = loop.last
      /\ loop'.select = loop.select /\ loop' \in Loops
  <2>1. loop.deleted \in BOOLEAN
    BY <1>1 DEF TypeOK
  <2> QED BY <1>1, <2>1, NextTurn
<1>3. /\ pages' \in Seq(Page) /\ Len(pages') <= MaxPages
      /\ sel' \in 0 .. Len(pages') /\ (sel' = 0 <=> pages' = <<>>)
      /\ Len(pages') = Len(pages) - 1
      /\ \A j \in 1 .. Len(pages') : pages'[j] = IF j < 1 THEN pages[j] ELSE pages[j + 1]
  BY <1>1, DeletePageProperties
<1>4. /\ Len(pages) = Len(before) + 1 - loop.i /\ Len(pages') = Len(before) - loop.i
      /\ Len(pages') = Remaining'
  <2>1. Remaining = Len(before) + 1 - loop.i /\ Len(pages) = Remaining
    BY <1>1 DEF Remaining, BulkLoop
  <2>2. Remaining' = Len(before) + 1 - (loop.i + 1)
    BY <1>2 DEF Remaining
  <2> QED BY <1>1, <1>3, <2>1, <2>2
<1>5. ASSUME NEW j \in 1 .. Len(pages')
      PROVE  Origin(j)' \in 1 .. Len(before) /\ pages'[j] = before[Origin(j)']
  <2>1. loop.i \in Nat /\ Len(before) \in Nat /\ j \in 1 .. (Len(before) - loop.i)
    BY <1>1, <1>4
  <2>2. /\ j \in Nat /\ j + 1 \in 1 .. (Len(before) + 1 - loop.i)
        /\ j + loop.i \in 1 .. Len(before) /\ (j + 1) + loop.i - 1 = j + loop.i /\ ~(j < 1)
    BY <2>1, Shift
  <2>3. Origin(j)' = j + (loop.i + 1) - 1 /\ Origin(j + 1) = (j + 1) + loop.i - 1
    BY <1>1, <1>2 DEF Origin
  <2>4. pages'[j] = pages[j + 1] /\ pages[j + 1] = before[Origin(j + 1)]
    BY <1>1, <1>3, <1>4, <2>2 DEF BulkLoop
  <2>5. Origin(j)' = j + loop.i /\ Origin(j + 1) = j + loop.i
    BY <1>1, <2>1, <2>2, <2>3
  <2> QED BY <2>2, <2>4, <2>5
<1>6. BulkLoop'
  <2>1. loop'.i \in 1 .. loop'.last + 1
    BY <1>1, <1>2
  <2>2. loop.last = IF loop.op = "left" THEN loop.select - 1 ELSE Len(before)
    BY <1>1 DEF BulkLoop
  <2> QED BY <1>1, <1>2, <1>4, <1>5, <2>1, <2>2 DEF BulkLoop
<1> QED BY <1>1, <1>2, <1>3, <1>6

(* Closing all tabs.                                                       *)
LEMMA AllTurn ==
  ASSUME TabInv, AllThreadTabClose
  PROVE  TabInv'
<1>1. /\ Turn("all") /\ OnAboutCloseThreadNoteBook /\ DeletePage(1)
      /\ loop' = [loop EXCEPT !.i = @ + 1]
      /\ UNCHANGED <<running, session, logs, tree, reloads, replies, threadTitle, before>>
  BY DEF AllThreadTabClose, disk, reply
<1>2. TypeOK /\ sel # 0
  BY <1>1, TurnFacts DEF TabInv, BulkOps
<1>3. /\ pages' \in Seq(Page) /\ Len(pages') <= MaxPages
      /\ sel' \in 0 .. Len(pages') /\ (sel' = 0 <=> pages' = <<>>)
      /\ loop' \in Loops /\ loop'.op = "all" /\ running' /\ BulkLoop'
  BY <1>1, FrontTurn
<1>4. TypeOK'
  BY <1>1, <1>2, <1>3, HandlerProperties DEF TypeOK, Loops
<1> QED BY <1>3, <1>4 DEF TabInv, BulkOps

(* Closing the tabs to the left of the selected one.                       *)
LEMMA LeftTurn ==
  ASSUME TabInv, AllLeftThreadTabClose
  PROVE  TabInv'
<1>1. /\ Turn("left") /\ DeletePage(1) /\ loop' = [loop EXCEPT !.i = @ + 1]
      /\ UNCHANGED <<running, tiHash, closed, session, logs, tree, treeQueued, reloads,
                     replies, threadTitle, before>>
  BY DEF AllLeftThreadTabClose, disk, reply, books, events
<1>2. TypeOK
  BY DEF TabInv
<1>3. /\ pages' \in Seq(Page) /\ Len(pages') <= MaxPages
      /\ sel' \in 0 .. Len(pages') /\ (sel' = 0 <=> pages' = <<>>)
      /\ loop' \in Loops /\ loop'.op = "left" /\ running' /\ BulkLoop'
  BY <1>1, FrontTurn
<1>4. TypeOK'
  BY <1>1, <1>2, <1>3 DEF TypeOK, Loops
<1> QED BY <1>3, <1>4 DEF TabInv, BulkOps

(* Closing the tabs to the right: nothing happens until the count has      *)
(* passed the selected page, then its neighbour goes at every turn.        *)
LEMMA RightTurn ==
  ASSUME TabInv, AllRightThreadTabClose
  PROVE  TabInv'
<1>1. /\ Turn("right") /\ loop' = [loop EXCEPT !.i = @ + 1]
      /\ IF loop.i > loop.select THEN DeletePage(loop.select + 1) ELSE UNCHANGED notebook
      /\ UNCHANGED <<running, tiHash, closed, session, logs, tree, treeQueued, reloads,
                     replies, threadTitle, before>>
  BY DEF AllRightThreadTabClose, disk, reply, books, events
<1>2. /\ running /\ loop.op = "right" /\ BulkLoop /\ TypeOK
      /\ Len(before) \in Nat /\ Len(pages) \in Nat
      /\ loop.select \in 1 .. Len(before) /\ loop.i \in 1 .. Len(before)
      /\ loop.i <= loop.last /\ loop.last \in Nat
  BY <1>1, TurnFacts DEF BulkOps, TabInv
<1>3. /\ loop'.op = "right" /\ loop'.i = loop.i + 1 /\ loop'.last = loop.last
      /\ loop'.select = loop.select /\ loop' \in Loops
  <2>1. loop.deleted \in BOOLEAN
    BY <1>2 DEF TypeOK
  <2> QED BY <1>1, <1>2, <2>1, NextTurn
<1>4. /\ Len(pages) = IF loop.i <= loop.select THEN Len(before)
                      ELSE Len(before) + 1 + loop.select - loop.i
      /\ \A k \in 1 .. Len(pages) :
           LET from == IF loop.i <= loop.select \/ k <= loop.select THEN k
                       ELSE k + loop.i - loop.select - 1
           IN  from \in 1 .. Len(before) /\ pages[k] = before[from]
      /\ loop.last = Len(before)
  BY <1>2 DEF BulkLoop, Remaining, Origin
<1>5. /\ Remaining' = IF loop.i + 1 <= loop.select THEN Len(before)
                      ELSE Len(before) + 1 + loop.select - (loop.i + 1)
      /\ \A j : Origin(j)' = IF loop.i + 1 <= loop.select \/ j <= loop.select THEN j
                             ELSE j + (loop.i + 1) - loop.select - 1
  BY <1>1, <1>3 DEF Remaining, Origin
<1>6. CASE loop.i <= loop.select
  <2>1. pages' = pages /\ sel' = sel
    BY <1>1, <1>2, <1>6 DEF notebook
  <2>2. Remaining' = Len(pages) /\ Len(pages) = Len(before)
    BY <1>2, <1>4, <1>5, <1>6
  <2>3. ASSUME NEW j \in 1 .. Len(pages)
        PROVE  Origin(j)' = j /\ j \in 1 .. Len(before) /\ pages[j] = before[j]
    BY <1>2, <1>4, <1>5, <1>6, <2>2
  <2>4. BulkLoop'
    BY <1>1, <1>2, <1>3, <1>4, <2>1, <2>2, <2>3 DEF BulkLoop
  <2>5. TypeOK'
    BY <1>1, <1>2, <1>3, <2>1 DEF TypeOK, Loops
  <2> QED BY <1>1, <1>2, <1>3, <2>4, <2>5 DEF TabInv, BulkOps
<1>7. CASE loop.i > loop.select
  <2>1. loop.select + 1 \in 1 .. Len(pages) /\ loop.select + 1 \in Nat
    BY <1>2, <1>4, <1>7
  <2>2. /\ pages' \in Seq(Page) /\ Len(pages') <= MaxPages
        /\ sel' \in 0 .. Len(pages') /\ (sel' = 0 <=> pages' = <<>>)
        /\ Len(pages') = Len(pages) - 1
        /\ \A j \in 1 .. Len(pages') :
             pages'[j] = IF j < loop.select + 1 THEN pages[j] ELSE pages[j + 1]
    BY <1>1, <1>2, <1>7, <2>1, DeletePageProperties
  <2>3. Len(pages') = Remaining'
    BY <1>2, <1>4, <1>5, <1>7, <2>2
  <2>4. ASSUME NEW j \in 1 .. Len(pages')
        PROVE  Origin(j)' \in 1 .. Len(before) /\ pages'[j] = before[Origin(j)']
    <3>1. j \in 1 .. Len(pages) /\ j + 1 \in 1 .. Len(pages) /\ j \in Nat
      BY <1>2, <2>2
    <3>2. CASE j <= loop.select
      <4>1. pages'[j] = pages[j] /\ Origin(j)' = j
        BY <1>2, <1>5, <2>2, <3>1, <3>2
      <4> QED BY <1>2, <1>4, <3>1, <3>2, <4>1
    <3>3. CASE ~(j <= loop.select)
      <4>1. pages'[j] = pages[j + 1] /\ Origin(j)' = j + loop.i - loop.select
        <5>1. ~(j < loop.select + 1) /\ ~(loop.i + 1 <= loop.select \/ j <= loop.select)
          BY <1>2, <1>7, <3>1, <3>3
        <5>2. pages'[j] = pages[j + 1] /\ Origin(j)' = j + (loop.i + 1) - loop.select - 1
          BY <1>5, <2>2, <5>1
        <5> QED BY <1>2, <3>1, <5>2
      <4>2. (j + 1) + loop.i - loop.select - 1 = j + loop.i - loop.select
        BY <1>2, <3>1
      <4>3. ~(loop.i <= loop.select \/ j + 1 <= loop.select)
        BY <1>2, <1>7, <3>1, <3>3
      <4>4. /\ (j + 1) + loop.i - loop.select - 1 \in 1 .. Len(before)
            /\ pages[j + 1] = before[(j + 1) + loop.i - loop.select - 1]
        BY <1>4, <3>1, <4>3
      <4> QED BY <4>1, <4>2, <4>4
    <3> QED BY <3>2, <3>3
  <2>5. BulkLoop'
    BY <1>1, <1>2, <1>3, <1>4, <2>3, <2>4 DEF BulkLoop
  <2>6. TypeOK'
    BY <1>1, <1>2, <1>3, <2>2 DEF TypeOK, Loops
  <2> QED BY <1>1, <1>2, <1>3, <2>5, <2>6 DEF TabInv, BulkOps
<1> QED BY <1>2, <1>6, <1>7

(* A bulk close starts with the notebook as it is.                         *)
LEMMA BulkBegins ==
  ASSUME TabInv, NEW op \in BulkOps, BeginBulk(op)
  PROVE  TabInv'
<1>1. /\ TypeOK /\ running /\ sel # 0 /\ before' = pages
      /\ loop' = [op |-> op, i |-> 1, select |-> sel, deleted |-> FALSE,
                  last |-> IF op = "left" THEN sel - 1 ELSE Len(pages)]
      /\ UNCHANGED <<running, pages, sel, tiHash, closed, session, logs, tree, treeQueued,
                     reloads, replies, threadTitle>>
  BY DEF TabInv, BeginBulk, Ready, notebook, books, events, reply, disk
<1>2. sel \in 1 .. Len(pages) /\ Len(pages) \in Nat \ {0} /\ pages \in Seq(Page)
  BY <1>1, Selected DEF TypeOK
<1>3. /\ loop'.op = op /\ loop'.i = 1 /\ loop'.select = sel /\ loop'.deleted = FALSE
      /\ loop'.last = IF op = "left" THEN sel - 1 ELSE Len(pages)
  BY <1>1
<1>4. loop' \in Loops
  BY <1>1, <1>2 DEF Loops
<1>5. Remaining' = Len(pages)
  BY <1>1, <1>2, <1>3 DEF Remaining
<1>6. \A j \in 1 .. Len(pages) : Origin(j)' = j
  BY <1>2, <1>3 DEF Origin
<1>7. BulkLoop'
  BY <1>1, <1>2, <1>3, <1>5, <1>6 DEF BulkLoop
<1>8. TypeOK'
  BY <1>1, <1>2, <1>4 DEF TypeOK, Loops
<1> QED BY <1>1, <1>3, <1>7, <1>8 DEF TabInv, BulkOps

(* The steps of the loop that restores a session.                          *)
LEMMA RestoreSteps ==
  ASSUME TabInv, SetPreviousUserLookedTab \/ RestoreTab \/ EndRestore
  PROVE  TabInv'
<1>0. /\ TypeOK /\ pages \in Seq(Page) /\ Len(pages) \in Nat /\ Len(session) \in Nat
      /\ session \in Seq(Row) /\ Len(session) <= MaxPages /\ MaxPages \in Nat
      /\ Idle \in Loops /\ Idle.op = "none" /\ Idle.i = 1
  BY EmptyNotebook, BoundsAssumption DEF TabInv, TypeOK, Idle, Loops
<1>1. CASE SetPreviousUserLookedTab
  <2>1. /\ ~running /\ running' = TRUE
        /\ loop' = [Idle EXCEPT !.op = "restore", !.last = Len(session)]
        /\ UNCHANGED <<pages, sel, tiHash, closed, session, logs, tree, treeQueued,
                       reloads, replies, threadTitle, before>>
    BY <1>1 DEF SetPreviousUserLookedTab, notebook, books, events, reply, disk
  <2>2. loop' \in Loops /\ loop'.op = "restore" /\ loop'.i = 1 /\ loop'.last = Len(session)
    BY <1>0, <2>1 DEF Loops, Idle
  <2>3. Len(pages) = 0
    BY <1>0, <2>1, EmptyNotebook DEF TabInv
  <2>4. RestoreLoop'
    BY <1>0, <2>1, <2>2, <2>3 DEF RestoreLoop
  <2>5. TypeOK'
    BY <1>0, <2>1, <2>2 DEF TypeOK, Loops
  <2> QED BY <2>1, <2>2, <2>4, <2>5 DEF TabInv, BulkOps
<1>2. CASE RestoreTab
  <2> DEFINE row == session[loop.i]
  <2>1. /\ loop.op = "restore" /\ loop.i <= loop.last /\ RestoreLoop
        /\ loop' = [loop EXCEPT !.i = @ + 1]
        /\ IF Restorable(row) THEN SetThreadContentToNoteBook(row.title, row.info)
           ELSE UNCHANGED <<pages, sel, tiHash, treeQueued>>
        /\ UNCHANGED <<running, closed, session, logs, tree, reloads, replies, threadTitle,
                       before>>
    BY <1>2 DEF RestoreTab, Turn, TabInv, disk, reply, notebook
  <2>2. /\ loop.i \in 1 .. Len(session) /\ Len(pages) < loop.i /\ loop.last = Len(session)
    BY <1>0, <2>1 DEF RestoreLoop
  <2>3. row \in Row
    BY <1>0, <2>2, EmptyNotebook
  <2>4. row.title \in Titles /\ row.info \in Infos
    BY <2>3 DEF Row
  <2>5. /\ loop'.op = "restore" /\ loop'.i = loop.i + 1 /\ loop'.last = loop.last
        /\ loop' \in Loops
    <3>1. loop.deleted \in BOOLEAN
      BY <1>0 DEF TypeOK
    <3> QED BY <1>0, <2>1, <3>1, NextTurn
  <2> HIDE DEF row
  <2>6. running
    BY <2>1 DEF TabInv
  <2>7. CASE Restorable(row)
    <3>1. Len(pages) < MaxPages /\ SetThreadContentToNoteBook(row.title, row.info)
      BY <1>0, <2>1, <2>2, <2>7
    <3>2. /\ pages' \in Seq(Page) /\ Len(pages') <= MaxPages
          /\ sel' \in 0 .. Len(pages') /\ (sel' = 0 <=> pages' = <<>>)
          /\ Len(pages') = Len(pages) + 1
          /\ tiHash' \in [Titles -> Infos] /\ treeQueued' \in BOOLEAN
      BY <1>0, <2>4, <3>1, AddPageProperties
    <3>3. TypeOK'
      BY <1>0, <2>1, <2>5, <3>2 DEF TypeOK, Loops
    <3>4. RestoreLoop'
      BY <1>0, <2>1, <2>2, <2>5, <3>2 DEF RestoreLoop
    <3> QED BY <2>1, <2>5, <2>6, <3>3, <3>4 DEF TabInv, BulkOps
  <2>8. CASE ~Restorable(row)
    <3>1. UNCHANGED <<pages, sel, tiHash, treeQueued>>
      BY <2>1, <2>8
    <3>2. TypeOK'
      BY <1>0, <2>1, <2>5, <3>1 DEF TypeOK, Loops
    <3>3. RestoreLoop'
      BY <1>0, <2>1, <2>2, <2>5, <3>1 DEF RestoreLoop
    <3> QED BY <2>1, <2>5, <2>6, <3>2, <3>3 DEF TabInv, BulkOps
  <2> QED BY <2>7, <2>8
<1>3. CASE EndRestore
  <2>1. /\ running /\ loop' = Idle /\ treeQueued' = TRUE
        /\ UNCHANGED <<running, pages, sel, tiHash, closed, session, logs, tree, reloads,
                       replies, threadTitle, before>>
    BY <1>3 DEF EndRestore, TabInv, notebook, books, reply, disk
  <2>2. TypeOK'
    BY <1>0, <2>1 DEF TypeOK, Loops
  <2> QED BY <1>0, <2>1, <2>2, NoLoop
<1> QED BY <1>1, <1>2, <1>3

(* A step that neither begins nor continues a loop and keeps the window.   *)
QuietStep ==
  /\ Ready
  /\ UNCHANGED <<running, loop, before>>

(* Such a step has only its types to keep.                                 *)
LEMMA QuietInv ==
  ASSUME TypeOK', QuietStep
  PROVE  TabInv'
BY NoLoop DEF QuietStep, Ready

(* The handlers that open, select and close one tab keep the types.        *)
LEMMA TabsStep ==
  ASSUME TabInv, Tabs
  PROVE  TabInv'
<1>0. /\ TypeOK /\ pages \in Seq(Page) /\ Len(pages) \in Nat
  BY EmptyNotebook DEF TabInv, TypeOK
<1>1. ASSUME NEW thread \in Threads, OnLeftClickAtListCtrl2ch(thread)
      PROVE  TabInv'
  <2>1. /\ QuietStep /\ Len(pages) < MaxPages
        /\ SetThreadContentToNoteBook(TitleOf[thread], thread)
        /\ logs' = logs \cup {thread}
        /\ UNCHANGED <<closed, session, tree, reloads, replies, threadTitle>>
    BY <1>1 DEF OnLeftClickAtListCtrl2ch, CanOpen, QuietStep, reply, bulk
  <2>2. TitleOf[thread] \in Titles /\ thread \in Infos
    BY TitlesAssumption DEF Infos
  <2>3. TypeOK'
    BY <1>0, <2>1, <2>2, AddPageProperties DEF TypeOK, QuietStep, Infos
  <2> QED BY <2>1, <2>3, QuietInv
<1>2. ASSUME NEW n \in 1 .. Len(closed), OnUserLastClosedThreadClick(n)
      PROVE  TabInv'
  <2>1. /\ QuietStep /\ Len(pages) < MaxPages
        /\ SetThreadContentToNoteBook(closed[n].title, closed[n].info)
        /\ UNCHANGED <<closed, session, logs, tree, reloads, replies, threadTitle>>
    BY <1>2 DEF OnUserLastClosedThreadClick, CanOpen, QuietStep, reply, bulk, disk
  <2>2. closed[n] \in Row
    BY <1>0, EmptyNotebook DEF TypeOK
  <2>3. closed[n].title \in Titles /\ closed[n].info \in Infos
    BY <2>2 DEF Row
  <2>4. TypeOK'
    BY <1>0, <2>1, <2>3, AddPageProperties DEF TypeOK, QuietStep
  <2> QED BY <2>1, <2>4, QuietInv
<1>3. ASSUME NEW i \in 1 .. Len(pages), SelectTab(i)
      PROVE  TabInv'
  <2>1. /\ QuietStep /\ sel' = i
        /\ UNCHANGED <<pages, tiHash, closed, session, logs, tree, treeQueued, reloads,
                       replies, threadTitle>>
    BY <1>3 DEF SelectTab, QuietStep, books, events, reply, bulk, disk
  <2>2. sel' \in 0 .. Len(pages) /\ (sel' = 0 <=> pages = <<>>)
    BY <1>0, <2>1, EmptyNotebook
  <2>3. TypeOK'
    BY <1>0, <2>1, <2>2 DEF TypeOK, QuietStep
  <2> QED BY <2>1, <2>3, QuietInv
<1>4. ASSUME NEW i \in 1 .. Len(pages), sel # 0, QuietStep,
             OnAboutCloseThreadNoteBook, DeletePage(i),
             UNCHANGED <<session, logs, tree, reloads, replies, threadTitle>>
      PROVE  TabInv'
  <2>1. /\ pages' \in Seq(Page) /\ Len(pages') <= MaxPages
        /\ sel' \in 0 .. Len(pages') /\ (sel' = 0 <=> pages' = <<>>)
    BY <1>0, <1>4, DeletePageProperties
  <2>2. TypeOK'
    BY <1>0, <1>4, <2>1, HandlerProperties DEF TypeOK, QuietStep
  <2> QED BY <1>4, <2>2, QuietInv
<1>5. CASE OneThreadTabClose
  <2>1. sel \in 1 .. Len(pages)
    BY <1>0, <1>5, Selected DEF OneThreadTabClose
  <2> QED BY <1>4, <1>5, <2>1 DEF OneThreadTabClose, QuietStep, disk, reply, bulk
<1>6. ASSUME NEW i \in 1 .. Len(pages), CloseWithMouse(i)
      PROVE  TabInv'
  <2>1. sel # 0
    BY <1>0, EmptyNotebook DEF TypeOK
  <2> QED BY <1>4, <1>6, <2>1 DEF CloseWithMouse, QuietStep, disk, reply, bulk
<1>7. CASE ReloadThisThread
  <2>1. /\ QuietStep /\ sel # 0 /\ ReloadThread(pages[sel].title)
        /\ UNCHANGED <<sel, tiHash, closed, session, tree, treeQueued, reloads, replies,
                       threadTitle>>
    BY <1>7 DEF ReloadThisThread, QuietStep, books, events, reply, bulk
  <2>2. pages[sel].title \in Titles
    BY <1>0, <2>1, Selected
  <2>3. TypeOK'
    BY <1>0, <2>1, <2>2, ReloadProperties DEF TypeOK, QuietStep
  <2> QED BY <2>1, <2>3, QuietInv
<1>8. CASE DeleteDatFile
  <2>1. /\ QuietStep /\ logs' \in SUBSET Infos
        /\ UNCHANGED <<pages, sel, tiHash, closed, session, tree, treeQueued, reloads,
                       replies, threadTitle>>
    BY <1>0, <1>8 DEF DeleteDatFile, QuietStep, notebook, books, events, reply, bulk, TypeOK
  <2>2. TypeOK'
    BY <1>0, <2>1 DEF TypeOK, QuietStep
  <2> QED BY <2>1, <2>2, QuietInv
<1> QED BY <1>1, <1>2, <1>3, <1>5, <1>6, <1>7, <1>8 DEF Tabs

(* The events taken from the queue keep the types.                         *)
LEMMA QueueStep ==
  ASSUME TabInv, Queue
  PROVE  TabInv'
<1>0. TypeOK
  BY DEF TabInv
<1>1. CASE ReloadThreadByName
  <2>1. /\ QuietStep /\ reloads # <<>> /\ reloads' = Tail(reloads)
        /\ ReloadThread(Head(reloads))
        /\ UNCHANGED <<sel, tiHash, closed, session, tree, treeQueued, replies, threadTitle>>
    BY <1>1 DEF ReloadThreadByName, QuietStep, books, reply, bulk
  <2>2. /\ reloads \in Seq(Titles \cup {NoTitle}) /\ Len(reloads) <= MaxReloads
        /\ MaxReloads \in Nat
    BY <1>0, BoundsAssumption DEF TypeOK
  <2>3. /\ Head(reloads) \in Titles \cup {NoTitle}
        /\ Tail(reloads) \in Seq(Titles \cup {NoTitle})
        /\ Len(Tail(reloads)) = Len(reloads) - 1 /\ Len(reloads) \in Nat
    BY <2>1, <2>2, HeadTailProperties, EmptyNotebook
  <2>4. TypeOK'
    BY <1>0, <2>1, <2>2, <2>3, ReloadProperties DEF TypeOK, QuietStep
  <2> QED BY <2>1, <2>4, QuietInv
<1>2. CASE NowReadingTreectrlUpdate
  <2>1. /\ QuietStep /\ tree' \in SUBSET Titles /\ treeQueued' = FALSE
        /\ UNCHANGED <<pages, sel, tiHash, closed, session, logs, reloads, replies,
                       threadTitle>>
    BY <1>2 DEF NowReadingTreectrlUpdate, QuietStep, notebook, books, reply, bulk, disk, Known
  <2>2. TypeOK'
    BY <1>0, <2>1 DEF TypeOK, QuietStep
  <2> QED BY <2>1, <2>2, QuietInv
<1> QED BY <1>1, <1>2 DEF Queue

(* The reply windows keep the types.                                       *)
LEMMA ReplyStep ==
  ASSUME TabInv, Reply
  PROVE  TabInv'
<1>0. TypeOK
  BY DEF TabInv
<1>1. CASE CallResponseWindow
  <2>1. /\ QuietStep /\ sel # 0 /\ threadTitle' = pages[sel].title
        /\ replies' = replies \cup
             {[title |-> pages[sel].title, target |-> tiHash[pages[sel].title]]}
        /\ UNCHANGED <<pages, sel, tiHash, closed, session, logs, tree, treeQueued, reloads>>
    BY <1>1 DEF CallResponseWindow, QuietStep, notebook, books, events, bulk, disk
  <2>2. pages[sel].title \in Titles /\ tiHash[pages[sel].title] \in Infos
    BY <1>0, <2>1, Selected
  <2>3. TypeOK'
    BY <1>0, <2>1, <2>2 DEF TypeOK, QuietStep
  <2> QED BY <2>1, <2>3, QuietInv
<1>2. CASE OnPostResponse
  <2>1. /\ QuietStep /\ Len(reloads) < MaxReloads /\ reloads' = Append(reloads, threadTitle)
        /\ UNCHANGED <<pages, sel, tiHash, closed, session, logs, tree, treeQueued, replies,
                       threadTitle>>
    BY <1>2 DEF OnPostResponse, QuietStep, notebook, books, reply, bulk, disk
  <2>2. /\ reloads' \in Seq(Titles \cup {NoTitle}) /\ Len(reloads') <= MaxReloads
    <3>1. /\ reloads \in Seq(Titles \cup {NoTitle}) /\ threadTitle \in Titles \cup {NoTitle}
          /\ MaxReloads \in Nat
      BY <1>0, BoundsAssumption DEF TypeOK
    <3> QED BY <2>1, <3>1, AppendElements
  <2>3. TypeOK'
    BY <1>0, <2>1, <2>2 DEF TypeOK, QuietStep
  <2> QED BY <2>1, <2>3, QuietInv
<1>3. ASSUME NEW w \in replies, QuitResponseWindow(w)
      PROVE  TabInv'
  <2>1. /\ QuietStep /\ replies' = replies \ {w}
        /\ UNCHANGED <<pages, sel, tiHash, closed, session, logs, tree, treeQueued, reloads,
                       threadTitle>>
    BY <1>3 DEF QuitResponseWindow, QuietStep, notebook, books, events, bulk, disk
  <2>2. TypeOK'
    BY <1>0, <2>1 DEF TypeOK, QuietStep
  <2> QED BY <2>1, <2>2, QuietInv
<1> QED BY <1>1, <1>2, <1>3 DEF Reply

(* The process ends between two loops, with or without saving its tabs.    *)
LEMMA ExitStep ==
  ASSUME TabInv, OnCloseWindow \/ Kill
  PROVE  TabInv'
<1>0. /\ TypeOK /\ pages \in Seq(Page) /\ Len(pages) \in Nat /\ Len(pages) <= MaxPages
      /\ \A i \in 1 .. Len(pages) : pages[i] \in Page
      /\ <<>> \in Seq(Page) /\ <<>> \in Seq(Row) /\ <<>> \in Seq(Titles \cup {NoTitle})
      /\ Len(<<>>) = 0 /\ MaxPages \in Nat /\ MaxReloads \in Nat
  BY EmptyNotebook, EmptySeq, BoundsAssumption DEF TabInv, TypeOK
<1>1. /\ loop.op = "none" /\ Shutdown
      /\ UNCHANGED <<closed, logs, loop, before>>
  BY DEF OnCloseWindow, Kill, Ready, bulk
<1>2. session' \in Seq(Row) /\ Len(session') <= MaxPages
  <2>1. CASE OnCloseWindow
    <3> DEFINE row(i) == [title |-> pages[i].title, info |-> tiHash[pages[i].title]]
    <3>1. \A i \in 1 .. Len(pages) : row(i) \in Row
      BY <1>0 DEF TypeOK, Page, Row
    <3>2. session' = [i \in 1 .. Len(pages) |-> row(i)]
      BY <2>1 DEF OnCloseWindow, SetUserLookingThreadList
    <3> HIDE DEF row
    <3>3. session' \in Seq(Row) /\ Len(session') = Len(pages)
      BY <1>0, <3>1, <3>2
    <3> QED BY <1>0, <3>3
  <2>2. CASE Kill
    <3>1. session' = session \/ session' = <<>>
      BY <2>2 DEF Kill, DeleteTableData
    <3>2. session \in Seq(Row) /\ Len(session) <= MaxPages
      BY <1>0 DEF TypeOK
    <3>3. <<>> \in Seq(Row) /\ Len(<<>>) = 0 /\ MaxPages \in Nat
      BY <1>0
    <3>4. CASE session' = <<>>
      BY <3>3, <3>4
    <3> QED BY <3>1, <3>2, <3>4
  <2> QED BY <2>1, <2>2
<1>3. /\ running' = FALSE /\ pages' = <<>> /\ sel' = 0 /\ tree' = {} /\ treeQueued' = FALSE
      /\ tiHash' = [t \in Titles |-> Blank] /\ reloads' = <<>> /\ replies' = {}
      /\ threadTitle' = NoTitle
  BY <1>1 DEF Shutdown
<1>4. /\ pages' \in Seq(Page) /\ Len(pages') <= MaxPages
      /\ sel' \in 0 .. Len(pages') /\ (sel' = 0 <=> pages' = <<>>)
  BY <1>0, <1>3, EmptySeq
<1>5. /\ reloads' \in Seq(Titles \cup {NoTitle}) /\ Len(reloads') <= MaxReloads
      /\ tiHash' \in [Titles -> Infos]
  BY <1>0, <1>3, EmptySeq DEF Infos
<1>6. TypeOK'
  BY <1>0, <1>1, <1>2, <1>3, <1>4, <1>5 DEF TypeOK
<1> QED BY <1>1, <1>3, <1>6 DEF TabInv, BulkOps

(* Every step keeps the invariant.                                         *)
LEMMA TabNext == TabInv /\ [Next]_vars => TabInv'
<1> SUFFICES ASSUME TabInv, [Next]_vars PROVE TabInv'
  OBVIOUS
<1>1. CASE Bulk
  <2>1. CASE EndBulk
    <3>1. /\ running' /\ loop' = Idle /\ before' = <<>>
          /\ UNCHANGED <<running, pages, sel, tiHash, closed, session, logs, tree, treeQueued,
                         reloads, replies, threadTitle>>
      BY <2>1 DEF EndBulk, Done, TabInv, BulkLoop, notebook, books, events, reply, disk
    <3>2. Idle \in Loops /\ Idle.op = "none" /\ <<>> \in Seq(Page)
      BY EmptySeq DEF Idle, Loops
    <3>3. TypeOK'
      BY <3>1, <3>2 DEF TabInv, TypeOK, Loops
    <3> QED BY <3>1, <3>2, <3>3, NoLoop
  <2> QED BY <1>1, <2>1, BulkBegins, ExceptTurn, AllTurn, LeftTurn, RightTurn DEF Bulk
<1>2. CASE Process
  BY <1>2, RestoreSteps, ExitStep DEF Process
<1>3. CASE UNCHANGED vars
  <2>1. UNCHANGED <<running, pages, sel, tiHash, closed, session, logs, tree, treeQueued,
                    reloads, replies, threadTitle, loop, before>>
    BY <1>3 DEF vars, notebook, books, events, reply, bulk, disk
  <2>2. TypeOK'
    BY <2>1 DEF TabInv, TypeOK
  <2> QED BY <2>1, <2>2, LoopsUntouched
<1> QED BY <1>1, <1>2, <1>3, TabsStep, QueueStep, ReplyStep DEF Next

(* The invariant holds always.                                             *)
LEMMA TabInvariant == Spec => []TabInv
BY TabInit, TabNext, PTL DEF Spec

(* Every variable has its type, and no notebook or list outgrows its       *)
(* bound, whatever the user does: in particular the handler for a closing  *)
(* tab always finds a selected page.                                       *)
THEOREM TypeCorrect == Spec => []TypeOK
<1>1. TabInv => TypeOK
  BY DEF TabInv
<1> QED BY <1>1, TabInvariant, PTL

(***************************************************************************)
(* The loops that close several tabs                                       *)
(***************************************************************************)
(* When its loop is over, every menu entry has left the tabs it names and  *)
(* no others, in their order, however many were open.                      *)
THEOREM BulkCloseIsExact == Spec => []BulkCloseExact
<1>1. ASSUME TabInv, Done
      PROVE  pages = Kept
  <2>1. /\ BulkLoop /\ loop.op \in BulkOps /\ loop.i > loop.last
        /\ pages \in Seq(Page) /\ before \in Seq(Page)
        /\ Len(pages) \in Nat /\ Len(before) \in Nat
        /\ loop.select \in 1 .. Len(before) /\ loop.i \in Nat /\ loop.last \in Nat
    BY <1>1, EmptyNotebook DEF Done, TabInv, TypeOK, BulkLoop
  <2>2. /\ loop.i = loop.last + 1
        /\ loop.last = IF loop.op = "left" THEN loop.select - 1 ELSE Len(before)
        /\ Len(pages) = Remaining
        /\ \A j \in 1 .. Len(pages) : Origin(j) \in 1 .. Len(before) /\ pages[j] = before[Origin(j)]
    BY <2>1 DEF BulkLoop
  <2>3. CASE loop.op = "except"
    <3>1. Len(pages) = 1 /\ Origin(1) = loop.select
      BY <2>1, <2>2, <2>3 DEF Remaining, Origin
    <3>2. pages[1] = before[loop.select] /\ Kept = <<before[loop.select]>>
      BY <2>2, <2>3, <3>1 DEF Kept
    <3>3. <<before[loop.select]>> \in Seq(Page)
      BY <2>1, EmptyNotebook
    <3> QED BY <2>1, <3>1, <3>2, <3>3, SeqEqual
  <2>4. CASE loop.op = "all"
    <3>1. Len(pages) = 0
      BY <2>1, <2>2, <2>4 DEF Remaining
    <3> QED BY <2>1, <2>4, <3>1, EmptyNotebook DEF Kept
  <2>5. CASE loop.op = "left"
    <3> DEFINE kept == SubSeq(before, loop.select, Len(before))
    <3>1. Len(pages) = Len(before) - loop.select + 1
      BY <2>1, <2>2, <2>5 DEF Remaining
    <3>2. \A j \in 1 .. Len(pages) : pages[j] = before[loop.select + j - 1]
      BY <2>1, <2>2, <2>5 DEF Origin
    <3>3. /\ kept \in Seq(Page) /\ Len(kept) = Len(before) - loop.select + 1
          /\ \A j \in 1 .. (Len(before) - loop.select + 1) : kept[j] = before[loop.select + j - 1]
      BY <2>1, SubSeqProperties, EmptyNotebook
    <3> HIDE DEF kept
    <3>4. pages = kept
      BY <2>1, <3>1, <3>2, <3>3, SeqEqual
    <3> QED BY <2>5, <3>4 DEF Kept, kept
  <2>6. CASE loop.op = "right"
    <3> DEFINE kept == SubSeq(before, 1, loop.select)
    <3>1. Len(pages) = loop.select
      BY <2>1, <2>2, <2>6 DEF Remaining
    <3>2. \A j \in 1 .. loop.select : pages[j] = before[j]
      BY <2>1, <2>2, <2>6, <3>1 DEF Origin
    <3>3. /\ kept \in Seq(Page) /\ Len(kept) = loop.select
          /\ \A j \in 1 .. loop.select : kept[j] = before[j]
      BY <2>1, SubSeqProperties, EmptyNotebook
    <3> HIDE DEF kept
    <3>4. pages = kept
      BY <2>1, <3>1, <3>2, <3>3, SeqEqual
    <3> QED BY <2>6, <3>4 DEF Kept, kept
  <2> QED BY <2>1, <2>3, <2>4, <2>5, <2>6 DEF BulkOps
<1>2. TabInv => BulkCloseExact
  BY <1>1 DEF BulkCloseExact
<1> QED BY <1>2, TabInvariant, PTL

(***************************************************************************)
(* The tree of threads being read                                          *)
(***************************************************************************)
(* Every change of tiHash leaves an update in the queue, but for the exit, *)
(* which takes the tree with it.                                           *)
TreeInv == ~treeQueued => tree = Known

(* With no update in the queue the tree agrees with tiHash: no way of      *)
(* opening or closing tabs, and no restart, forgets to queue one.          *)
THEOREM TreeIsFresh == Spec => []TreeFresh
<1>1. Init => TreeInv
  BY DEF Init, TreeInv
<1>2. TreeInv /\ [Next]_vars => TreeInv'
  <2> SUFFICES ASSUME TreeInv, [Next]_vars PROVE TreeInv'
    OBVIOUS
  <2>1. CASE treeQueued' = TRUE
    BY <2>1 DEF TreeInv
  <2>2. CASE UNCHANGED <<tree, treeQueued, tiHash>>
    BY <2>2 DEF TreeInv, Known
  <2>3. CASE Shutdown
    BY <2>3 DEF Shutdown, TreeInv, Known
  <2>4. CASE NowReadingTreectrlUpdate
    <3>1. tree' = Known /\ tiHash' = tiHash
      BY <2>4 DEF NowReadingTreectrlUpdate, books
    <3> QED BY <3>1 DEF TreeInv, Known
  <2>5. CASE Tabs
    BY <2>1, <2>2, <2>5 DEF Tabs, OnLeftClickAtListCtrl2ch, OnUserLastClosedThreadClick,
       SetThreadContentToNoteBook, SelectTab, OneThreadTabClose, CloseWithMouse,
       OnAboutCloseThreadNoteBook, ReloadThisThread, DeleteDatFile, books, events
  <2>6. CASE Bulk
    BY <2>1, <2>2, <2>6 DEF Bulk, BeginBulk, ExcepSelThreadTabClose, AllThreadTabClose,
       OnAboutCloseThreadNoteBook, AllLeftThreadTabClose, AllRightThreadTabClose, EndBulk,
       books, events
  <2>7. CASE Queue
    BY <2>2, <2>4, <2>7 DEF Queue, ReloadThreadByName, books
  <2>8. CASE Reply
    BY <2>2, <2>8 DEF Reply, CallResponseWindow, OnPostResponse, QuitResponseWindow, books,
       events
  <2>9. CASE Process
    BY <2>1, <2>2, <2>3, <2>9 DEF Process, OnCloseWindow, Kill, SetPreviousUserLookedTab,
       RestoreTab, SetThreadContentToNoteBook, EndRestore, books, events
  <2>10. CASE UNCHANGED vars
    BY <2>2, <2>10 DEF vars, books, events
  <2> QED BY <2>5, <2>6, <2>7, <2>8, <2>9, <2>10 DEF Next
<1>3. TreeInv => TreeFresh
  BY DEF TreeInv, TreeFresh
<1> QED BY <1>1, <1>2, <1>3, PTL DEF Spec

(***************************************************************************)
(* What a tab displays                                                     *)
(***************************************************************************)
Titled(title, info) == info # Blank => TitleOf[info] = title

(* Whatever is kept under a title is a thread of that title: in tiHash, in *)
(* the tabs and in both tables.  Without reply windows no reload is queued *)
(* that could run with another tab selected.                               *)
TitledInv ==
  /\ replies = {} /\ reloads = <<>>
  /\ \A t \in Titles : Titled(t, tiHash[t])
  /\ \A i \in 1 .. Len(pages) : Titled(pages[i].title, pages[i].shown)
  /\ \A n \in 1 .. Len(closed) : Titled(closed[n].title, closed[n].info)
  /\ \A n \in 1 .. Len(session) : Titled(session[n].title, session[n].info)

(* Opening a thread under its own title.                                   *)
LEMMA OpeningTitled ==
  ASSUME TypeOK, TitledInv, Len(pages) < MaxPages,
         NEW title \in Titles, NEW info \in Infos, Titled(title, info),
         SetThreadContentToNoteBook(title, info)
  PROVE  /\ \A t \in Titles : Titled(t, tiHash'[t])
         /\ \A i \in 1 .. Len(pages') : Titled(pages'[i].title, pages'[i].shown)
<1>1. tiHash' = [tiHash EXCEPT ![title] = info] /\ tiHash \in [Titles -> Infos]
  BY DEF SetThreadContentToNoteBook, TypeOK
<1>2. \A t \in Titles : Titled(t, tiHash'[t])
  BY <1>1 DEF TitledInv, Titled
<1>3. ASSUME NEW i \in 1 .. Len(pages')
      PROVE  Titled(pages'[i].title, pages'[i].shown)
  <2>1. /\ Len(pages) \in Nat /\ Len(pages') = Len(pages) + 1
        /\ pages'[i] = IF i = Len(pages) + 1 THEN [title |-> title, shown |-> info]
                       ELSE pages[i]
    BY AddPageProperties
  <2>2. CASE i = Len(pages) + 1
    BY <2>1, <2>2
  <2>3. CASE i # Len(pages) + 1
    <3>1. i \in 1 .. Len(pages)
      BY <2>1, <2>3
    <3> QED BY <2>1, <2>3, <3>1 DEF TitledInv
  <2> QED BY <2>2, <2>3
<1> QED BY <1>2, <1>3

(* Closing the thread of the selected tab and deleting some page.          *)
LEMMA ClosingTitled ==
  ASSUME TypeOK, TitledInv, sel # 0, OnAboutCloseThreadNoteBook
  PROVE  /\ \A t \in Titles : Titled(t, tiHash'[t])
         /\ \A n \in 1 .. Len(closed') : Titled(closed'[n].title, closed'[n].info)
<1>1. /\ pages[sel].title \in Titles /\ tiHash \in [Titles -> Infos]
      /\ tiHash' = [tiHash EXCEPT ![pages[sel].title] = Blank]
      /\ \A n \in 1 .. Len(closed') :
           \/ closed'[n] = [title |-> pages[sel].title, info |-> tiHash[pages[sel].title]]
           \/ \E k \in 1 .. Len(closed) : closed'[n] = closed[k]
  BY HandlerProperties DEF TypeOK
<1>2. \A t \in Titles : Titled(t, tiHash'[t])
  BY <1>1 DEF TitledInv, Titled
<1>3. ASSUME NEW n \in 1 .. Len(closed')
      PROVE  Titled(closed'[n].title, closed'[n].info)
  <2>1. CASE closed'[n] = [title |-> pages[sel].title, info |-> tiHash[pages[sel].title]]
    BY <1>1, <2>1 DEF TitledInv
  <2>2. CASE \E k \in 1 .. Len(closed) : closed'[n] = closed[k]
    BY <2>2 DEF TitledInv
  <2> QED BY <1>1, <2>1, <2>2
<1> QED BY <1>2, <1>3

(* Deleting a page.                                                        *)
LEMMA DeletingTitled ==
  ASSUME TypeOK, TitledInv, NEW i \in Nat, DeletePage(i)
  PROVE  \A j \in 1 .. Len(pages') : Titled(pages'[j].title, pages'[j].shown)
<1>1. CASE i \in 1 .. Len(pages)
  <2>1. ASSUME NEW j \in 1 .. Len(pages')
        PROVE  Titled(pages'[j].title, pages'[j].shown)
    <3>1. /\ Len(pages') = Len(pages) - 1 /\ Len(pages) \in Nat
          /\ pages'[j] = IF j < i THEN pages[j] ELSE pages[j + 1]
      BY <1>1, DeletePageProperties, EmptyNotebook DEF TypeOK
    <3>2. j \in 1 .. Len(pages) /\ j + 1 \in 1 .. Len(pages)
      BY <3>1
    <3> QED BY <3>1, <3>2 DEF TitledInv
  <2> QED BY <2>1
<1>2. CASE i \notin 1 .. Len(pages)
  BY <1>2 DEF DeletePage, notebook, TitledInv
<1> QED BY <1>1, <1>2

(* Reloading the selected tab by its own title.                            *)
LEMMA ReloadingTitled ==
  ASSUME TypeOK, TitledInv, sel # 0, ReloadThread(pages[sel].title)
  PROVE  \A j \in 1 .. Len(pages') : Titled(pages'[j].title, pages'[j].shown)
<1>1. sel \in 1 .. Len(pages) /\ pages[sel].title \in Titles
  BY Selected
<1>2. pages[sel].title # NoTitle
  BY <1>1, BlankAssumption
<1>3. /\ Len(pages') = Len(pages)
      /\ \A j \in 1 .. Len(pages) :
           /\ pages'[j].title = pages[j].title
           /\ pages'[j].shown = IF j # sel THEN pages[j].shown ELSE tiHash[pages[sel].title]
  BY <1>1, <1>2, ReloadProperties
<1> QED BY <1>1, <1>3 DEF TitledInv

(* No step puts a thread under the title of another while no reply window  *)
(* is used.                                                                *)
LEMMA TitledNext ==
  ASSUME "reply" \notin Uses, TabInv, TitledInv, [Next]_vars
  PROVE  TitledInv'
<1>0. /\ TypeOK /\ replies = {} /\ reloads = <<>>
      /\ \A t \in Titles : Titled(t, tiHash[t])
      /\ \A i \in 1 .. Len(pages) : Titled(pages[i].title, pages[i].shown)
      /\ \A n \in 1 .. Len(closed) : Titled(closed[n].title, closed[n].info)
      /\ \A n \in 1 .. Len(session) : Titled(session[n].title, session[n].info)
  BY DEF TabInv, TitledInv
<1>1. ASSUME NEW thread \in Threads, OnLeftClickAtListCtrl2ch(thread)
      PROVE  TitledInv'
  <2>1. /\ Len(pages) < MaxPages /\ SetThreadContentToNoteBook(TitleOf[thread], thread)
        /\ UNCHANGED <<closed, session, reloads, replies>>
    BY <1>1 DEF OnLeftClickAtListCtrl2ch, CanOpen, reply
  <2>2. TitleOf[thread] \in Titles /\ thread \in Infos /\ Titled(TitleOf[thread], thread)
    BY TitlesAssumption DEF Infos, Titled
  <2>3. /\ \A t \in Titles : Titled(t, tiHash'[t])
        /\ \A i \in 1 .. Len(pages') : Titled(pages'[i].title, pages'[i].shown)
    BY <1>0, <2>1, <2>2, OpeningTitled
  <2> QED BY <1>0, <2>1, <2>3 DEF TitledInv
<1>2. ASSUME NEW n \in 1 .. Len(closed), OnUserLastClosedThreadClick(n)
      PROVE  TitledInv'
  <2>1. /\ Len(pages) < MaxPages
        /\ SetThreadContentToNoteBook(closed[n].title, closed[n].info)
        /\ UNCHANGED <<closed, session, reloads, replies>>
    BY <1>2 DEF OnUserLastClosedThreadClick, CanOpen, reply, disk
  <2>2. closed[n] \in Row /\ Titled(closed[n].title, closed[n].info)
    BY <1>0, EmptyNotebook DEF TypeOK
  <2>3. /\ \A t \in Titles : Titled(t, tiHash'[t])
        /\ \A i \in 1 .. Len(pages') : Titled(pages'[i].title, pages'[i].shown)
    BY <1>0, <2>1, <2>2, OpeningTitled DEF Row
  <2> QED BY <1>0, <2>1, <2>3 DEF TitledInv
<1>3. ASSUME NEW i \in Nat, sel # 0, OnAboutCloseThreadNoteBook, DeletePage(i),
             UNCHANGED <<session, reloads, replies>>
      PROVE  TitledInv'
  <2>1. /\ \A t \in Titles : Titled(t, tiHash'[t])
        /\ \A n \in 1 .. Len(closed') : Titled(closed'[n].title, closed'[n].info)
    BY <1>0, <1>3, ClosingTitled
  <2>2. \A j \in 1 .. Len(pages') : Titled(pages'[j].title, pages'[j].shown)
    BY <1>0, <1>3, DeletingTitled
  <2> QED BY <1>0, <1>3, <2>1, <2>2 DEF TitledInv
<1>4. ASSUME NEW i \in Nat, DeletePage(i) \/ UNCHANGED pages,
             UNCHANGED <<tiHash, closed, session, reloads, replies>>
      PROVE  TitledInv'
  <2>1. \A j \in 1 .. Len(pages') : Titled(pages'[j].title, pages'[j].shown)
    BY <1>0, <1>4, DeletingTitled
  <2> QED BY <1>0, <1>4, <2>1 DEF TitledInv
<1>5. ASSUME sel # 0, ReloadThread(pages[sel].title),
             UNCHANGED <<tiHash, closed, session, reloads, replies>>
      PROVE  TitledInv'
  <2>1. \A j \in 1 .. Len(pages') : Titled(pages'[j].title, pages'[j].shown)
    BY <1>0, <1>5, ReloadingTitled
  <2> QED BY <1>0, <1>5, <2>1 DEF TitledInv
<1>6. CASE Tabs
  <2>1. CASE OneThreadTabClose
    <3>1. /\ sel # 0 /\ sel \in Nat /\ OnAboutCloseThreadNoteBook /\ DeletePage(sel)
          /\ UNCHANGED <<session, reloads, replies>>
      BY <1>0, <2>1 DEF OneThreadTabClose, TypeOK, disk, reply
    <3> QED BY <1>3, <3>1
  <2>2. ASSUME NEW i \in 1 .. Len(pages), CloseWithMouse(i)
        PROVE  TitledInv'
    <3>1. sel # 0 /\ i \in Nat
      BY <1>0, EmptyNotebook DEF TypeOK
    <3> QED BY <1>3, <2>2, <3>1 DEF CloseWithMouse, disk, reply
  <2>3. ASSUME NEW i \in 1 .. Len(pages), SelectTab(i)
        PROVE  TitledInv'
    BY <1>4, <2>3 DEF SelectTab, books, events, reply, disk
  <2>4. CASE ReloadThisThread
    BY <1>5, <2>4 DEF ReloadThisThread, books, events, reply
  <2>5. CASE DeleteDatFile
    BY <1>4, <2>5 DEF DeleteDatFile, notebook, books, events, reply
  <2> QED BY <1>1, <1>2, <1>6, <2>1, <2>2, <2>3, <2>4, <2>5 DEF Tabs
<1>7. CASE Bulk
  <2>1. ASSUME NEW op \in BulkOps, BeginBulk(op)
        PROVE  TitledInv'
    BY <1>4, <2>1 DEF BeginBulk, notebook, books, events, reply, disk
  <2>2. CASE ExcepSelThreadTabClose
    <3>1. sel # 0
      BY <2>2, TurnFacts DEF ExcepSelThreadTabClose, BulkOps
    <3>2. \A i : i = (IF loop.i # loop.select /\ ~loop.deleted THEN 1 ELSE 2) => i \in Nat
      OBVIOUS
    <3> QED BY <1>3, <2>2, <3>1, <3>2 DEF ExcepSelThreadTabClose, disk, reply
  <2>3. CASE AllThreadTabClose
    <3>1. sel # 0
      BY <2>3, TurnFacts DEF AllThreadTabClose, BulkOps
    <3> QED BY <1>3, <2>3, <3>1 DEF AllThreadTabClose, disk, reply
  <2>4. CASE AllLeftThreadTabClose
    BY <1>4, <2>4 DEF AllLeftThreadTabClose, books, events, reply, disk
  <2>5. CASE AllRightThreadTabClose
    <3>1. loop.select + 1 \in Nat
      BY <1>0 DEF TypeOK
    <3> QED BY <1>4, <2>5, <3>1 DEF AllRightThreadTabClose, notebook, books, events, reply, disk
  <2>6. CASE EndBulk
    BY <1>4, <2>6 DEF EndBulk, notebook, books, events, reply, disk
  <2> QED BY <1>7, <2>1, <2>2, <2>3, <2>4, <2>5, <2>6 DEF Bulk
<1>8. CASE Queue
  <2>1. CASE NowReadingTreectrlUpdate
    BY <1>4, <2>1 DEF NowReadingTreectrlUpdate, notebook, books, reply, disk
  <2> QED BY <1>0, <1>8, <2>1 DEF Queue, ReloadThreadByName
<1>9. CASE Reply
  BY <1>0, <1>9 DEF Reply, CallResponseWindow, OnPostResponse, QuitResponseWindow
<1>10. CASE OnCloseWindow \/ Kill
  <2>1. /\ closed' = closed /\ pages' = <<>> /\ reloads' = <<>> /\ replies' = {}
        /\ tiHash' = [t \in Titles |-> Blank] /\ Len(<<>>) = 0
    BY <1>10 DEF OnCloseWindow, Kill, Shutdown
  <2>2. \A n \in 1 .. Len(session') : Titled(session'[n].title, session'[n].info)
    <3>1. CASE OnCloseWindow
      <4> DEFINE row(i) == [title |-> pages[i].title, info |-> tiHash[pages[i].title]]
      <4>1. /\ \A i \in 1 .. Len(pages) : pages[i] \in Page
            /\ Len(pages) \in Nat
        BY <1>0, EmptyNotebook DEF TypeOK
      <4>2. \A i \in 1 .. Len(pages) : Titled(row(i).title, row(i).info) /\ row(i) \in Row
        BY <1>0, <4>1 DEF Page, TypeOK, Row
      <4>3. session' = [i \in 1 .. Len(pages) |-> row(i)]
        BY <3>1 DEF OnCloseWindow, SetUserLookingThreadList
      <4> HIDE DEF row
      <4>4. Len(session') = Len(pages)
        BY <4>1, <4>3
      <4> QED BY <4>2, <4>3, <4>4
    <3>2. CASE Kill
      <4>1. session' = session \/ session' = <<>>
        BY <3>2 DEF Kill, DeleteTableData
      <4> QED BY <1>0, <2>1, <4>1
    <3> QED BY <1>10, <3>1, <3>2
  <2> QED BY <1>0, <2>1, <2>2 DEF TitledInv, Titled
<1>11. CASE SetPreviousUserLookedTab \/ EndRestore
  BY <1>4, <1>11 DEF SetPreviousUserLookedTab, EndRestore, notebook, books, events, reply, disk
<1>12. CASE RestoreTab
  <2> DEFINE row == session[loop.i]
  <2>1. /\ loop.i \in 1 .. Len(session) /\ Len(pages) < MaxPages
    <3>1. /\ RestoreLoop /\ loop.i <= loop.last /\ Len(session) \in Nat /\ Len(pages) \in Nat
          /\ Len(session) <= MaxPages /\ MaxPages \in Nat
      BY <1>0, <1>12, EmptyNotebook, BoundsAssumption DEF RestoreTab, Turn, TabInv, TypeOK
    <3> QED BY <3>1 DEF RestoreLoop
  <2>2. row \in Row /\ Titled(row.title, row.info)
    BY <1>0, <2>1, EmptyNotebook DEF TypeOK
  <2>3. row.title \in Titles /\ row.info \in Infos
    BY <2>2 DEF Row
  <2>4. /\ IF Restorable(row) THEN SetThreadContentToNoteBook(row.title, row.info)
           ELSE UNCHANGED <<pages, tiHash>>
        /\ UNCHANGED <<closed, session, reloads, replies>>
    BY <1>12 DEF RestoreTab, disk, reply, notebook
  <2> HIDE DEF row
  <2>5. CASE Restorable(row)
    <3>1. /\ \A t \in Titles : Titled(t, tiHash'[t])
          /\ \A i \in 1 .. Len(pages') : Titled(pages'[i].title, pages'[i].shown)
      BY <1>0, <2>1, <2>2, <2>3, <2>4, <2>5, OpeningTitled
    <3> QED BY <1>0, <2>4, <3>1 DEF TitledInv
  <2>6. CASE ~Restorable(row)
    BY <1>4, <2>4, <2>6
  <2> QED BY <2>5, <2>6
<1>13. CASE UNCHANGED vars
  BY <1>4, <1>13 DEF vars, notebook, books, events, reply, disk
<1> QED BY <1>6, <1>7, <1>8, <1>9, <1>10, <1>11, <1>12, <1>13 DEF Next, Process

(* A tab never displays a thread under the title of another, whatever is   *)
(* opened, closed, reloaded or restored, as long as the user posts nothing *)
(* (the run tabs_reload shows what a posted reply can do).                 *)
THEOREM PagesShowTheirThreads ==
  ASSUME "reply" \notin Uses
  PROVE  Spec => []PageShowsItsThread
<1>1. Init => TitledInv
  <2> SUFFICES ASSUME Init PROVE TitledInv
    OBVIOUS
  <2>1. Len(<<>>) = 0
    BY EmptySeq
  <2> QED BY <2>1 DEF Init, TitledInv, Titled
<1>2. TabInv /\ TitledInv /\ [Next]_vars => TitledInv'
  BY TitledNext
<1>3. TitledInv => PageShowsItsThread
  BY DEF TitledInv, Titled, PageShowsItsThread
<1> QED BY <1>1, <1>2, <1>3, TabInvariant, PTL DEF Spec

(***************************************************************************)
(* One tab per thread, closed by its own menu entry                        *)
(***************************************************************************)
OneByOneUse == Uses \cap {"bulkClose", "middleClick", "duplicates"} = {}

Unique(s) == \A i, j \in 1 .. Len(s) : s[i].title = s[j].title => i = j

(* tiHash stands for exactly the open tabs, no two of which have the same  *)
(* label; so a tab that closes still has its entry.                        *)
KnownInv ==
  /\ loop.op \notin BulkOps
  /\ Known = Open /\ Unique(pages) /\ Unique(session)
  /\ \A t \in Titles : Titled(t, tiHash[t])
  /\ \A n \in 1 .. Len(session) : Titled(session[n].title, session[n].info)
  /\ \A n \in 1 .. Len(closed) : closed[n].info # Blank /\ Titled(closed[n].title, closed[n].info)
  /\ ReplyTargetRight
  /\ loop.op = "restore" => \A i \in 1 .. Len(pages) :
       \E k \in 1 .. (loop.i - 1) : pages[i].title = session[k].title

(* A step that changes no label, no entry and no table.                    *)
LEMMA LabelsKept ==
  ASSUME TypeOK, KnownInv, Len(pages') = Len(pages),
         \A i \in 1 .. Len(pages) : pages'[i].title = pages[i].title,
         UNCHANGED <<tiHash, closed, session, replies>>,
         \/ loop' = loop
         \/ loop'.op = "none"
         \/ pages = <<>> /\ loop'.op = "restore"
         \/ loop.op = "restore" /\ loop' = [loop EXCEPT !.i = @ + 1]
  PROVE  KnownInv'
<1>1. Known' = Known /\ Open' = Open
  BY DEF Known, Open
<1>2. Unique(pages)' /\ Unique(session)' /\ ReplyTargetRight'
  BY DEF KnownInv, Unique, ReplyTargetRight
<1>3. loop'.op \notin BulkOps
  <2>1. CASE loop.op = "restore" /\ loop' = [loop EXCEPT !.i = @ + 1]
    BY <2>1 DEF TypeOK, BulkOps
  <2> QED BY <2>1 DEF KnownInv, BulkOps
<1>4. loop'.op = "restore" => \A i \in 1 .. Len(pages') :
        \E k \in 1 .. (loop'.i - 1) : pages'[i].title = session'[k].title
  <2>1. CASE pages = <<>>
    BY <2>1
  <2>2. CASE loop.op = "restore" /\ loop' = [loop EXCEPT !.i = @ + 1]
    <3>1. loop'.i = loop.i + 1 /\ loop.i \in Nat
      BY <2>2 DEF TypeOK
    <3> QED BY <2>2, <3>1 DEF KnownInv
  <2> QED BY <2>1, <2>2 DEF KnownInv
<1> QED BY <1>1, <1>2, <1>3, <1>4 DEF KnownInv

(* Opening a thread that has no tab.                                       *)
LEMMA OpeningKnown ==
  ASSUME TypeOK, KnownInv, Len(pages) < MaxPages,
         NEW title \in Titles \ Open, NEW info \in Infos \ {Blank}, Titled(title, info),
         SetThreadContentToNoteBook(title, info)
  PROVE  /\ Known' = Open' /\ Unique(pages)'
         /\ \A t \in Titles : Titled(t, tiHash'[t])
<1>1. tiHash' = [tiHash EXCEPT ![title] = info] /\ tiHash \in [Titles -> Infos]
  BY DEF SetThreadContentToNoteBook, TypeOK
<1>2. /\ Len(pages) \in Nat /\ Len(pages') = Len(pages) + 1
      /\ \A i \in 1 .. Len(pages') :
           pages'[i].title = IF i = Len(pages) + 1 THEN title ELSE pages[i].title
  <2>1. /\ Len(pages) \in Nat /\ Len(pages') = Len(pages) + 1
        /\ \A i \in 1 .. Len(pages') :
             pages'[i] = IF i = Len(pages) + 1 THEN [title |-> title, shown |-> info]
                         ELSE pages[i]
    BY AddPageProperties
  <2> QED BY <2>1
<1>3. Known' = Known \cup {title}
  BY <1>1 DEF Known
<1>4. Open' = Open \cup {title}
  <2>1. Open' \subseteq Open \cup {title}
    <3> SUFFICES ASSUME NEW i \in 1 .. Len(pages')
                 PROVE  pages'[i].title \in Open \cup {title}
      BY DEF Open
    <3>1. i = Len(pages) + 1 \/ i \in 1 .. Len(pages)
      BY <1>2
    <3> QED BY <1>2, <3>1 DEF Open
  <2>2. Open \subseteq Open'
    <3> SUFFICES ASSUME NEW i \in 1 .. Len(pages)
                 PROVE  pages[i].title \in Open'
      BY DEF Open
    <3>1. i \in 1 .. Len(pages') /\ i # Len(pages) + 1
      BY <1>2
    <3> QED BY <1>2, <3>1 DEF Open
  <2>3. title \in Open'
    <3>1. Len(pages) + 1 \in 1 .. Len(pages')
      BY <1>2
    <3> QED BY <1>2, <3>1 DEF Open
  <2> QED BY <2>1, <2>2, <2>3
<1>5. ASSUME NEW i \in 1 .. Len(pages'), NEW j \in 1 .. Len(pages'),
             pages'[i].title = pages'[j].title
      PROVE  i = j
  <2>1. \A k \in 1 .. Len(pages) : pages[k].title # title
    BY DEF Open
  <2>2. i \in 1 .. Len(pages) \/ i = Len(pages) + 1
    BY <1>2
  <2>3. j \in 1 .. Len(pages) \/ j = Len(pages) + 1
    BY <1>2
  <2>4. i = Len(pages) + 1 <=> pages'[i].title = title
    BY <1>2, <2>1, <2>2
  <2>5. j = Len(pages) + 1 <=> pages'[j].title = title
    BY <1>2, <2>1, <2>3
  <2>6. CASE i # Len(pages) + 1 /\ j # Len(pages) + 1
    BY <1>2, <1>5, <2>2, <2>3, <2>6 DEF KnownInv, Unique
  <2> QED BY <1>5, <2>4, <2>5, <2>6
<1>6. \A t \in Titles : Titled(t, tiHash'[t])
  BY <1>1 DEF KnownInv, Titled
<1> QED BY <1>3, <1>4, <1>5, <1>6 DEF KnownInv, Unique

(* Closing the selected tab takes its label and its entry, and the menu of *)
(* closed threads gets a row that names the thread.                        *)
LEMMA ClosingKnown ==
  ASSUME TypeOK, KnownInv, sel # 0, OnAboutCloseThreadNoteBook, DeletePage(sel)
  PROVE  /\ Known' = Open' /\ Unique(pages)'
         /\ \A t \in Titles : Titled(t, tiHash'[t])
         /\ \A n \in 1 .. Len(closed') :
              closed'[n].info # Blank /\ Titled(closed'[n].title, closed'[n].info)
<1> DEFINE title == pages[sel].title
<1>1. /\ sel \in 1 .. Len(pages) /\ Len(pages) \in Nat /\ title \in Titles
      /\ tiHash \in [Titles -> Infos] /\ tiHash[title] # Blank
  <2>1. title \in Open
    BY Selected DEF Open
  <2> QED BY <2>1, Selected DEF KnownInv, Known, TypeOK
<1>2. /\ tiHash' = [tiHash EXCEPT ![title] = Blank]
      /\ \A n \in 1 .. Len(closed') :
           \/ closed'[n] = [title |-> title, info |-> tiHash[title]]
           \/ \E k \in 1 .. Len(closed) : closed'[n] = closed[k]
  BY HandlerProperties
<1>3. /\ Len(pages') = Len(pages) - 1
      /\ \A j \in 1 .. Len(pages') : pages'[j] = IF j < sel THEN pages[j] ELSE pages[j + 1]
  BY <1>1, DeletePageProperties
<1>4. Known' = Known \ {title}
  BY <1>1, <1>2 DEF Known
<1>5. Open' = Open \ {title}
  <2>1. \A j \in 1 .. Len(pages) : pages[j].title = title => j = sel
    BY <1>1 DEF KnownInv, Unique
  <2>2. ASSUME NEW j \in 1 .. Len(pages')
        PROVE  pages'[j].title \in Open \ {title}
    <3>1. CASE j < sel
      <4>1. j \in 1 .. Len(pages) /\ j # sel /\ pages'[j] = pages[j]
        BY <1>1, <1>3, <3>1
      <4> QED BY <2>1, <4>1 DEF Open
    <3>2. CASE ~(j < sel)
      <4>1. j + 1 \in 1 .. Len(pages) /\ j + 1 # sel /\ pages'[j] = pages[j + 1]
        BY <1>1, <1>3, <3>2
      <4> QED BY <2>1, <4>1 DEF Open
    <3> QED BY <3>1, <3>2
  <2>3. ASSUME NEW j \in 1 .. Len(pages), pages[j].title # title
        PROVE  pages[j].title \in Open'
    <3>1. CASE j < sel
      <4>1. j \in 1 .. Len(pages') /\ pages'[j] = pages[j]
        BY <1>1, <1>3, <3>1
      <4> QED BY <4>1 DEF Open
    <3>2. CASE j > sel
      <4>1. j - 1 \in 1 .. Len(pages') /\ ~(j - 1 < sel) /\ (j - 1) + 1 = j
        BY <1>1, <1>3, <3>2
      <4>2. pages'[j - 1] = pages[j]
        BY <1>3, <4>1
      <4> QED BY <4>1, <4>2 DEF Open
    <3> QED BY <1>1, <2>3, <3>1, <3>2
  <2>4. Open' \subseteq Open \ {title}
    BY <2>2 DEF Open
  <2>5. Open \ {title} \subseteq Open'
    BY <2>3 DEF Open
  <2> QED BY <2>4, <2>5
<1>6. ASSUME NEW i \in 1 .. Len(pages'), NEW j \in 1 .. Len(pages'),
             pages'[i].title = pages'[j].title
      PROVE  i = j
  <2> DEFINE from(k) == IF k < sel THEN k ELSE k + 1
  <2>1. from(i) \in 1 .. Len(pages) /\ from(j) \in 1 .. Len(pages)
    BY <1>1, <1>3
  <2>2. pages'[i] = pages[from(i)] /\ pages'[j] = pages[from(j)]
    BY <1>3
  <2>3. from(i) = from(j)
    BY <1>6, <2>1, <2>2 DEF KnownInv, Unique
  <2> QED BY <1>1, <2>3
<1>7. \A t \in Titles : Titled(t, tiHash'[t])
  BY <1>1, <1>2 DEF KnownInv, Titled
<1>8. ASSUME NEW n \in 1 .. Len(closed')
      PROVE  closed'[n].info # Blank /\ Titled(closed'[n].title, closed'[n].info)
  <2>1. CASE closed'[n] = [title |-> title, info |-> tiHash[title]]
    BY <1>1, <2>1 DEF KnownInv
  <2>2. CASE \E k \in 1 .. Len(closed) : closed'[n] = closed[k]
    BY <2>2 DEF KnownInv
  <2> QED BY <1>2, <2>1, <2>2
<1> QED BY <1>4, <1>5, <1>6, <1>7, <1>8 DEF KnownInv, Unique

(* Where a tab is opened at most once and closed by its own menu entry,    *)
(* tiHash and the tabs stay together.                                      *)
LEMMA KnownNext ==
  ASSUME OneByOneUse, TabInv, KnownInv, [Next]_vars
  PROVE  KnownInv'
<1>0. /\ TypeOK /\ Known = Open /\ Unique(pages) /\ Unique(session)
      /\ pages \in Seq(Page) /\ Len(pages) \in Nat
      /\ \A t \in Titles : Titled(t, tiHash[t])
      /\ \A n \in 1 .. Len(session) : Titled(session[n].title, session[n].info)
      /\ \A n \in 1 .. Len(closed) :
           closed[n].info # Blank /\ Titled(closed[n].title, closed[n].info)
      /\ ReplyTargetRight /\ loop.op \notin BulkOps
  BY EmptyNotebook DEF TabInv, KnownInv, TypeOK
<1>1. ASSUME NEW title \in Titles \ Open, NEW info \in Infos \ {Blank}, Titled(title, info),
             Len(pages) < MaxPages, SetThreadContentToNoteBook(title, info),
             UNCHANGED <<closed, session, replies, loop>>, loop.op = "none"
      PROVE  KnownInv'
  <2>1. /\ Known' = Open' /\ Unique(pages)'
        /\ \A t \in Titles : Titled(t, tiHash'[t])
    BY <1>0, <1>1, OpeningKnown
  <2> QED BY <1>0, <1>1, <2>1 DEF KnownInv, Unique, ReplyTargetRight
<1>2. ASSUME NEW thread \in Threads, OnLeftClickAtListCtrl2ch(thread)
      PROVE  KnownInv'
  <2>1. /\ TitleOf[thread] \in Titles \ Open /\ thread \in Infos \ {Blank}
        /\ Titled(TitleOf[thread], thread)
    BY <1>2, TitlesAssumption, BlankAssumption
       DEF OnLeftClickAtListCtrl2ch, CanOpen, OneByOneUse, Infos, Titled
  <2> QED BY <1>1, <1>2, <2>1 DEF OnLeftClickAtListCtrl2ch, CanOpen, Ready, reply, bulk
<1>3. ASSUME NEW n \in 1 .. Len(closed), OnUserLastClosedThreadClick(n)
      PROVE  KnownInv'
  <2>1. closed[n] \in Row
    BY <1>0, EmptyNotebook DEF TypeOK
  <2>2. /\ closed[n].title \in Titles \ Open /\ closed[n].info \in Infos \ {Blank}
        /\ Titled(closed[n].title, closed[n].info)
    BY <1>0, <1>3, <2>1 DEF OnUserLastClosedThreadClick, CanOpen, OneByOneUse, Row
  <2> QED BY <1>1, <1>3, <2>2 DEF OnUserLastClosedThreadClick, CanOpen, Ready, reply, bulk, disk
<1>4. ASSUME UNCHANGED <<pages, tiHash, closed, session, replies, loop>>
      PROVE  KnownInv'
  BY <1>0, <1>4, LabelsKept
<1>5. ASSUME NEW title \in Titles \cup {NoTitle}, ReloadThread(title),
             UNCHANGED <<tiHash, closed, session, replies, loop>>
      PROVE  KnownInv'
  <2>1. /\ Len(pages') = Len(pages)
        /\ \A i \in 1 .. Len(pages) : pages'[i].title = pages[i].title
    BY <1>0, <1>5, ReloadProperties
  <2> QED BY <1>0, <1>5, <2>1, LabelsKept
<1>6. CASE Tabs
  <2>1. CASE OneThreadTabClose
    <3>1. /\ sel # 0 /\ OnAboutCloseThreadNoteBook /\ DeletePage(sel) /\ loop.op = "none"
          /\ UNCHANGED <<session, replies, loop>>
      BY <2>1 DEF OneThreadTabClose, Ready, disk, reply, bulk
    <3>2. /\ Known' = Open' /\ Unique(pages)'
          /\ \A t \in Titles : Titled(t, tiHash'[t])
          /\ \A n \in 1 .. Len(closed') :
               closed'[n].info # Blank /\ Titled(closed'[n].title, closed'[n].info)
      BY <1>0, <3>1, ClosingKnown
    <3> QED BY <1>0, <3>1, <3>2 DEF KnownInv, Unique, ReplyTargetRight
  <2>2. ASSUME NEW i \in 1 .. Len(pages), CloseWithMouse(i)
        PROVE  KnownInv'
    BY <2>2 DEF CloseWithMouse, OneByOneUse
  <2>3. ASSUME NEW i \in 1 .. Len(pages), SelectTab(i)
        PROVE  KnownInv'
    BY <1>4, <2>3 DEF SelectTab, books, events, reply, bulk, disk
  <2>4. CASE ReloadThisThread
    <3>1. pages[sel].title \in Titles
      BY <1>0, <2>4, Selected DEF ReloadThisThread
    <3> QED BY <1>5, <2>4, <3>1 DEF ReloadThisThread, books, events, reply, bulk
  <2>5. CASE DeleteDatFile
    BY <1>4, <2>5 DEF DeleteDatFile, notebook, books, events, reply, bulk
  <2> QED BY <1>2, <1>3, <1>6, <2>1, <2>2, <2>3, <2>4, <2>5 DEF Tabs
<1>7. CASE Bulk
  BY <1>0, <1>7 DEF Bulk, BeginBulk, OneByOneUse, ExcepSelThreadTabClose, AllThreadTabClose,
     AllLeftThreadTabClose, AllRightThreadTabClose, EndBulk, Turn, Done, BulkOps
<1>8. CASE Queue
  <2>1. CASE ReloadThreadByName
    <3>1. Head(reloads) \in Titles \cup {NoTitle}
      BY <1>0, <2>1, HeadTailProperties DEF ReloadThreadByName, TypeOK
    <3> QED BY <1>5, <2>1, <3>1 DEF ReloadThreadByName, books, reply, bulk
  <2>2. CASE NowReadingTreectrlUpdate
    BY <1>4, <2>2 DEF NowReadingTreectrlUpdate, notebook, books, reply, bulk, disk
  <2> QED BY <1>8, <2>1, <2>2 DEF Queue
<1>9. CASE Reply
  <2>1. CASE CallResponseWindow
    <3> DEFINE title == pages[sel].title
    <3>1. /\ replies' = replies \cup {[title |-> title, target |-> tiHash[title]]}
          /\ sel # 0 /\ UNCHANGED <<pages, tiHash, closed, session, loop>>
      BY <2>1 DEF CallResponseWindow, notebook, books, bulk, disk
    <3>2. title \in Open /\ title \in Titles
      BY <1>0, <3>1, Selected DEF Open
    <3>3. tiHash[title] # Blank /\ TitleOf[tiHash[title]] = title
      BY <1>0, <3>2 DEF Known, Titled
    <3>4. ReplyTargetRight'
      BY <1>0, <3>1, <3>3 DEF ReplyTargetRight
    <3>5. Known' = Known /\ Open' = Open
      BY <3>1 DEF Known, Open
    <3> QED BY <3>1, <3>4, <3>5 DEF KnownInv, Unique
  <2>2. CASE OnPostResponse
    BY <1>4, <2>2 DEF OnPostResponse, notebook, books, reply, bulk, disk
  <2>3. ASSUME NEW w \in replies, QuitResponseWindow(w)
        PROVE  KnownInv'
    <3>1. /\ replies' \subseteq replies /\ UNCHANGED <<pages, tiHash, closed, session, loop>>
      BY <2>3 DEF QuitResponseWindow, notebook, books, bulk, disk
    <3>2. Known' = Known /\ Open' = Open
      BY <3>1 DEF Known, Open
    <3> QED BY <3>1, <3>2 DEF KnownInv, Unique, ReplyTargetRight
  <2> QED BY <1>9, <2>1, <2>2, <2>3 DEF Reply
<1>10. CASE OnCloseWindow \/ Kill
  <2>1. /\ UNCHANGED <<closed, loop>> /\ loop.op = "none" /\ pages' = <<>> /\ replies' = {}
        /\ tiHash' = [t \in Titles |-> Blank] /\ Len(<<>>) = 0
    BY <1>10 DEF OnCloseWindow, Kill, Shutdown, Ready, bulk
  <2>2. /\ Unique(session)'
        /\ \A n \in 1 .. Len(session') : Titled(session'[n].title, session'[n].info)
    <3>1. CASE OnCloseWindow
      <4> DEFINE row(i) == [title |-> pages[i].title, info |-> tiHash[pages[i].title]]
      <4>1. \A i \in 1 .. Len(pages) : pages[i] \in Page
        BY <1>0, EmptyNotebook
      <4>2. \A i \in 1 .. Len(pages) : /\ row(i).title = pages[i].title
                                       /\ Titled(row(i).title, row(i).info) /\ row(i) \in Row
        BY <1>0, <4>1 DEF Page, TypeOK, Row
      <4>3. session' = [i \in 1 .. Len(pages) |-> row(i)]
        BY <3>1 DEF OnCloseWindow, SetUserLookingThreadList
      <4> HIDE DEF row
      <4>4. Len(session') = Len(pages)
        BY <1>0, <4>3
      <4> QED BY <1>0, <4>2, <4>3, <4>4 DEF Unique
    <3>2. CASE Kill
      <4>1. session' = session \/ session' = <<>>
        BY <3>2 DEF Kill, DeleteTableData
      <4> QED BY <1>0, <2>1, <4>1 DEF Unique
    <3> QED BY <1>10, <3>1, <3>2
  <2>3. Known' = Open' /\ Unique(pages)'
    BY <2>1 DEF Known, Open, Unique
  <2> QED BY <1>0, <2>1, <2>2, <2>3 DEF KnownInv, Titled, ReplyTargetRight
<1>11. CASE SetPreviousUserLookedTab
  <2>1. /\ pages = <<>> /\ loop'.op = "restore"
        /\ UNCHANGED <<pages, tiHash, closed, session, replies>>
    BY <1>11 DEF SetPreviousUserLookedTab, TabInv, Idle, notebook, books, reply, disk
  <2> QED BY <1>0, <2>1, LabelsKept
<1>12. CASE EndRestore
  <2>1. loop'.op = "none" /\ UNCHANGED <<pages, tiHash, closed, session, replies>>
    BY <1>12 DEF EndRestore, Idle, notebook, books, reply, disk
  <2> QED BY <1>0, <2>1, LabelsKept
<1>13. CASE RestoreTab
  <2> DEFINE row == session[loop.i]
  <2>1. /\ loop.op = "restore" /\ loop' = [loop EXCEPT !.i = @ + 1]
        /\ IF Restorable(row) THEN SetThreadContentToNoteBook(row.title, row.info)
           ELSE UNCHANGED <<pages, tiHash>>
        /\ UNCHANGED <<closed, session, replies>>
    BY <1>13 DEF RestoreTab, Turn, disk, reply, notebook
  <2>2. /\ loop.i \in 1 .. Len(session) /\ Len(pages) < MaxPages /\ Len(session) \in Nat
        /\ loop'.op = "restore" /\ loop'.i = loop.i + 1
    <3>1. /\ RestoreLoop /\ loop.i <= loop.last /\ Len(session) \in Nat
          /\ Len(session) <= MaxPages /\ MaxPages \in Nat /\ loop.i \in Nat
      BY <1>0, <1>13, EmptyNotebook, BoundsAssumption DEF RestoreTab, Turn, TabInv, TypeOK
    <3> QED BY <1>0, <2>1, <3>1 DEF RestoreLoop, TypeOK
  <2>3. row \in Row /\ Titled(row.title, row.info)
    BY <1>0, <2>2, EmptyNotebook DEF TypeOK
  <2>4. row.title \in Titles /\ row.info \in Infos
    BY <2>3 DEF Row
  <2>5. CASE ~Restorable(row)
    BY <1>0, <2>1, <2>5, LabelsKept
  <2>6. CASE Restorable(row)
    <3>1. row.title \notin Open
      <4>1. \A k \in 1 .. (loop.i - 1) : session[k].title # row.title
        BY <1>0, <2>2 DEF Unique
      <4>2. \A i \in 1 .. Len(pages) : pages[i].title # row.title
        BY <2>1, <4>1 DEF KnownInv
      <4> QED BY <4>2 DEF Open
    <3>2. row.info # Blank
      BY <2>6 DEF Restorable
    <3>3. SetThreadContentToNoteBook(row.title, row.info)
      BY <2>1, <2>6
    <3>4. row.title = session[loop.i].title
      OBVIOUS
    <3> HIDE DEF row
    <3>5. /\ Known' = Open' /\ Unique(pages)'
          /\ \A t \in Titles : Titled(t, tiHash'[t])
      BY <1>0, <2>2, <2>3, <2>4, <3>1, <3>2, <3>3, OpeningKnown
    <3>6. ASSUME NEW i \in 1 .. Len(pages')
          PROVE  \E k \in 1 .. loop.i : pages'[i].title = session[k].title
      <4>1. /\ Len(pages') = Len(pages) + 1
            /\ pages'[i] = IF i = Len(pages) + 1 THEN [title |-> row.title, shown |-> row.info]
                           ELSE pages[i]
        BY <1>0, <2>2, <2>4, <3>3, AddPageProperties
      <4>2. CASE i = Len(pages) + 1
        BY <2>2, <3>4, <4>1, <4>2
      <4>3. CASE i # Len(pages) + 1
        <5>1. i \in 1 .. Len(pages) /\ pages'[i] = pages[i]
          BY <1>0, <4>1, <4>3
        <5>2. PICK k \in 1 .. (loop.i - 1) : pages[i].title = session[k].title
          BY <2>1, <5>1 DEF KnownInv
        <5> QED BY <2>2, <5>1, <5>2
      <4> QED BY <4>2, <4>3
    <3>7. \A i \in 1 .. Len(pages') :
            \E k \in 1 .. (loop'.i - 1) : pages'[i].title = session'[k].title
      <4>1. loop'.i - 1 = loop.i /\ session' = session
        BY <2>1, <2>2
      <4> QED BY <3>6, <4>1
    <3>8. Unique(session)' /\ ReplyTargetRight' /\ loop'.op \notin BulkOps
      BY <1>0, <2>1, <2>2 DEF Unique, ReplyTargetRight, BulkOps
    <3> QED BY <1>0, <2>1, <3>5, <3>7, <3>8 DEF KnownInv
  <2> QED BY <2>5, <2>6
<1>14. CASE UNCHANGED vars
  BY <1>4, <1>14 DEF vars, notebook, books, events, reply, bulk, disk
<1> QED BY <1>6, <1>7, <1>8, <1>9, <1>10, <1>11, <1>12, <1>13, <1>14 DEF Next, Process

(* The strengthening of the three theorems below.                          *)
LEMMA KnownInvariant ==
  ASSUME OneByOneUse
  PROVE  Spec => []KnownInv
<1>1. Init => KnownInv
  <2> SUFFICES ASSUME Init PROVE KnownInv
    OBVIOUS
  <2>1. Len(<<>>) = 0 /\ loop.op = "none"
    BY EmptySeq DEF Init, Idle
  <2> QED BY <2>1 DEF Init, KnownInv, Known, Open, Unique, Titled, ReplyTargetRight, BulkOps
<1>2. TabInv /\ KnownInv /\ [Next]_vars => KnownInv'
  BY KnownNext
<1> QED BY <1>1, <1>2, TabInvariant, PTL DEF Spec

(* While each thread has one tab and tabs are closed by their own menu     *)
(* entry, tiHash has an entry for exactly the open tabs.                   *)
THEOREM TabsAreKnown ==
  ASSUME OneByOneUse
  PROVE  Spec => []TabsKnown
<1>1. KnownInv => TabsKnown
  BY DEF KnownInv, TabsKnown
<1> QED BY <1>1, KnownInvariant, PTL

(* ... every closed tab is recorded with its thread (the run tabs_close    *)
(* shows that the loops which close several tabs lose it).                 *)
THEOREM ClosedTabsAreRecorded ==
  ASSUME OneByOneUse
  PROVE  Spec => []ClosedTabsRecorded
<1>1. KnownInv => ClosedTabsRecorded
  BY DEF KnownInv, ClosedTabsRecorded
<1> QED BY <1>1, KnownInvariant, PTL

(* ... and every reply goes to the thread whose title its window shows.    *)
THEOREM RepliesGoToTheirThread ==
  ASSUME OneByOneUse
  PROVE  Spec => []ReplyTargetRight
<1>1. KnownInv => ReplyTargetRight
  BY DEF KnownInv
<1> QED BY <1>1, KnownInvariant, PTL

(***************************************************************************)
(* The session                                                             *)
(***************************************************************************)
(* No two threads have the same title.                                     *)
OwnTitles == \A t, u \in Threads : TitleOf[t] = TitleOf[u] => t = u

(* The first k rows of the session that can be opened again.               *)
Back(k) == {i \in 1 .. k : Restorable(session[i])}

(* Every row of the session names its thread, and the loop that restores   *)
(* it has opened a tab for every restorable row it has passed.             *)
RestoredInv ==
  /\ \A i \in 1 .. Len(session) : session[i].info # Blank
  /\ loop.op = "restore" => Labels(pages) = Labels(Picked(session, Back(loop.i - 1)))

(* Two sequences with the same labels, each with one more at the end.      *)
LEMMA LabelsAppended ==
  ASSUME NEW S, NEW s \in Seq(S), NEW x \in S,
         NEW T, NEW u \in Seq(T), NEW y \in T,
         Labels(s) = Labels(u), x.title = y.title
  PROVE  Labels(Append(s, x)) = Labels(Append(u, y))
<1>1. Len(s) \in Nat /\ Len(u) \in Nat
  BY EmptyNotebook
<1>2. DOMAIN Labels(s) = 1 .. Len(s) /\ DOMAIN Labels(u) = 1 .. Len(u)
  BY DEF Labels
<1>3. 1 .. Len(s) = 1 .. Len(u)
  BY <1>2
<1>4. Len(s) = Len(u)
  BY <1>1, <1>3
<1>5. \A n \in 1 .. Len(s) : s[n].title = u[n].title
  <2> SUFFICES ASSUME NEW n \in 1 .. Len(s) PROVE s[n].title = u[n].title
    OBVIOUS
  <2>1. Labels(s)[n] = s[n].title /\ Labels(u)[n] = u[n].title
    BY <1>3 DEF Labels
  <2> QED BY <2>1
<1>6. /\ Len(Append(s, x)) = Len(s) + 1 /\ Len(Append(u, y)) = Len(s) + 1
      /\ \A n \in 1 .. Len(s) + 1 : Append(s, x)[n] = IF n = Len(s) + 1 THEN x ELSE s[n]
      /\ \A n \in 1 .. Len(s) + 1 : Append(u, y)[n] = IF n = Len(s) + 1 THEN y ELSE u[n]
  BY <1>4, AppendElements
<1>7. \A n \in 1 .. Len(s) + 1 : Append(s, x)[n].title = Append(u, y)[n].title
  BY <1>1, <1>5, <1>6
<1> QED BY <1>6, <1>7 DEF Labels

(* The rows that can be opened again stand in the session.                 *)
LEMMA BackPlaces ==
  ASSUME TypeOK, NEW k \in 0 .. Len(session)
  PROVE  Back(k) \in SUBSET (1 .. Len(session)) /\ Len(session) \in Nat
<1>1. Len(session) \in Nat
  BY EmptyNotebook DEF TypeOK
<1> QED BY <1>1 DEF Back

(* A turn of the loop opens the row it is at, or passes it.                *)
LEMMA RestoreTurn ==
  ASSUME TabInv, RestoredInv, RestoreTab
  PROVE  RestoredInv'
<1> DEFINE k == loop.i
           row == session[loop.i]
<1>1. /\ loop.op = "restore" /\ k <= loop.last /\ RestoreLoop
      /\ loop' = [loop EXCEPT !.i = @ + 1]
      /\ IF Restorable(row) THEN SetThreadContentToNoteBook(row.title, row.info)
         ELSE UNCHANGED pages
      /\ UNCHANGED <<session, logs>>
  BY DEF RestoreTab, Turn, TabInv, disk, notebook
<1>2. /\ TypeOK /\ session \in Seq(Row) /\ pages \in Seq(Page) /\ Len(session) \in Nat
      /\ loop \in Loops /\ k \in Nat
  BY EmptyNotebook DEF TabInv, TypeOK, Loops
<1>3. /\ k \in 1 .. Len(session) /\ k - 1 \in 0 .. Len(session)
      /\ loop'.i - 1 = k /\ loop'.op = "restore"
  BY <1>1, <1>2 DEF RestoreLoop, Loops
<1>4. row \in Row
  BY <1>2, <1>3, EmptyNotebook
<1> DEFINE P == Back(k - 1)
<1>5. P \in SUBSET (1 .. Len(session)) /\ \A i \in P : i < k
  BY <1>2, <1>3, BackPlaces DEF Back
<1>6. ASSUME Labels(pages') = Labels(Picked(session, Back(k))) PROVE RestoredInv'
  <2>1. Back(loop.i - 1)' = {i \in 1 .. k : session'[i].info # Blank /\ session'[i].info \in logs'}
    BY <1>3 DEF Back, Restorable
  <2>2. Back(loop.i - 1)' = Back(k)
    BY <1>1, <2>1 DEF Back, Restorable
  <2>3. Labels(Picked(session, Back(loop.i - 1)))' = Labels(Picked(session, Back(k)))
    BY <1>1, <2>2
  <2> QED BY <1>1, <1>6, <2>3 DEF RestoredInv
<1>7. CASE Restorable(row)
  <2> DEFINE page == [title |-> row.title, shown |-> row.info]
  <2>1. Back(k) = P \cup {k}
    BY <1>3, <1>7 DEF Back
  <2>2. pages' = Append(pages, page)
    BY <1>1, <1>7 DEF SetThreadContentToNoteBook
  <2>3. page \in Page /\ page.title = row.title
    BY <1>4 DEF Row, Page
  <2>4. Labels(pages) = Labels(Picked(session, P))
    BY <1>1 DEF RestoredInv
  <2> HIDE DEF P, page
  <2>5. Picked(session, P \cup {k}) = Append(Picked(session, P), row)
    BY <1>2, <1>3, <1>5, PickedExtended
  <2>6. Picked(session, P) \in Seq(Row)
    BY <1>2, <1>5, PickedLists
  <2> HIDE DEF row
  <2>7. Labels(Append(pages, page)) = Labels(Append(Picked(session, P), row))
    BY <1>2, <1>4, <2>3, <2>4, <2>6, LabelsAppended
  <2>8. Labels(pages') = Labels(Picked(session, Back(k)))
    BY <2>1, <2>2, <2>5, <2>7
  <2> QED BY <1>6, <2>8
<1>8. CASE ~Restorable(row)
  <2>1. Back(k) = P
    BY <1>3, <1>8 DEF Back
  <2>2. pages' = pages /\ Labels(pages) = Labels(Picked(session, P))
    BY <1>1, <1>8 DEF RestoredInv
  <2> QED BY <1>6, <2>1, <2>2
<1> QED BY <1>7, <1>8

(* Every step keeps the invariant; a session is written from tabs that all *)
(* have their entry in tiHash.                                             *)
LEMMA RestoredNext ==
  ASSUME OneByOneUse, TabInv, KnownInv, RestoredInv, [Next]_vars
  PROVE  RestoredInv'
<1>1. ASSUME UNCHANGED session, loop'.op # "restore" PROVE RestoredInv'
  BY <1>1 DEF RestoredInv
<1>2. CASE Tabs \/ Queue \/ Reply
  <2>1. UNCHANGED <<session, loop>> /\ loop.op = "none"
    BY <1>2 DEF Tabs, Queue, Reply, OnLeftClickAtListCtrl2ch, OnUserLastClosedThreadClick,
       SelectTab, OneThreadTabClose, CloseWithMouse, ReloadThisThread, DeleteDatFile,
       ReloadThreadByName, NowReadingTreectrlUpdate, CallResponseWindow, OnPostResponse,
       QuitResponseWindow, Ready, bulk, disk
  <2> QED BY <1>1, <2>1
<1>3. ~Bulk
  BY DEF KnownInv, OneByOneUse, Bulk, BeginBulk, ExcepSelThreadTabClose, AllThreadTabClose,
     AllLeftThreadTabClose, AllRightThreadTabClose, EndBulk, Done, Turn, BulkOps
<1>4. CASE OnCloseWindow
  <2>1. /\ session' = [i \in 1 .. Len(pages) |-> [title |-> pages[i].title,
                                                  info |-> tiHash[pages[i].title]]]
        /\ loop' = loop /\ loop.op = "none"
    BY <1>4 DEF OnCloseWindow, SetUserLookingThreadList, Ready, bulk
  <2>2. \A i \in 1 .. Len(pages) : pages[i].title \in Known
    BY DEF KnownInv, Open
  <2>3. DOMAIN session' = 1 .. Len(pages) /\ DOMAIN session' = 1 .. Len(session')
    <3>1. session' \in Seq(Row)
      BY TabNext DEF TabInv, TypeOK
    <3> QED BY <2>1, <3>1, LenProperties
  <2>4. \A i \in 1 .. Len(session') : session'[i].info # Blank
    BY <2>1, <2>2, <2>3 DEF Known
  <2> QED BY <2>1, <2>4 DEF RestoredInv
<1>5. CASE Kill
  <2>1. /\ session' = session \/ session' = <<>>
        /\ loop' = loop /\ loop.op = "none" /\ Len(<<>>) = 0
    BY <1>5, EmptySeq DEF Kill, DeleteTableData, Ready, bulk
  <2>2. \A i \in 1 .. Len(session') : session'[i].info # Blank
    BY <2>1 DEF RestoredInv
  <2> QED BY <2>1, <2>2 DEF RestoredInv
<1>6. CASE SetPreviousUserLookedTab
  <2>1. /\ pages = <<>> /\ loop'.i = 1 /\ UNCHANGED <<pages, session>>
    BY <1>6 DEF SetPreviousUserLookedTab, TabInv, Idle, disk, notebook
  <2>2. Back(loop.i - 1)' = {}
    BY <2>1 DEF Back
  <2>3. Picked(session, Back(loop.i - 1))' = <<>>
    BY <2>2, NothingAscends
  <2>4. Labels(pages)' = Labels(Picked(session, Back(loop.i - 1)))'
    BY <2>1, <2>3
  <2> QED BY <2>1, <2>4 DEF RestoredInv
<1>7. CASE EndRestore
  <2>1. UNCHANGED session /\ loop'.op = "none"
    BY <1>7 DEF EndRestore, Idle, disk
  <2> QED BY <1>1, <2>1
<1>8. CASE UNCHANGED vars
  <2>1. UNCHANGED <<pages, session, logs, loop>>
    BY <1>8 DEF vars, notebook, disk, bulk
  <2>2. Back(loop.i - 1)' = Back(loop.i - 1)
    BY <2>1 DEF Back, Restorable
  <2> QED BY <2>1, <2>2 DEF RestoredInv
<1> QED
  BY <1>2, <1>3, <1>4, <1>5, <1>6, <1>7, <1>8, RestoreTurn DEF Next, Process

(* When the loop is over, every tab of the last exit is back whose thread  *)
(* still has a log, in the order of that exit.                             *)
RestoresSession ==
  EndRestore =>
    LET there == {i \in 1 .. Len(session) :
                    \E thread \in logs \cap Threads : session[i].title = TitleOf[thread]}
    IN  Labels(pages') = Labels(Picked(session, there))

(* The rows that can be opened again are those whose title a thread with a *)
(* log has: a row names its thread, and no other thread has that title.    *)
LEMMA RestoreEnds ==
  ASSUME OwnTitles, TabInv, KnownInv, RestoredInv
  PROVE  RestoresSession
<1> SUFFICES ASSUME EndRestore PROVE RestoresSession
  BY DEF RestoresSession
<1> DEFINE rows == {i \in 1 .. Len(session) :
                       \E thread \in logs \cap Threads : session[i].title = TitleOf[thread]}
<1>1. /\ loop.op = "restore" /\ loop.i > loop.last /\ RestoreLoop /\ UNCHANGED pages
      /\ TypeOK /\ Len(session) \in Nat
      /\ \A i \in 1 .. Len(session) : session[i] \in Row
  BY EmptyNotebook DEF EndRestore, TabInv, TypeOK, notebook
<1>2. loop.i - 1 = Len(session)
  BY <1>1 DEF RestoreLoop, TypeOK
<1>3. ASSUME NEW i \in 1 .. Len(session)
      PROVE  Restorable(session[i])
               <=> \E thread \in logs \cap Threads : session[i].title = TitleOf[thread]
  <2>1. /\ session[i].info # Blank /\ session[i].info \in Threads
        /\ session[i].title = TitleOf[session[i].info]
    BY <1>1, <1>3 DEF RestoredInv, KnownInv, Titled, Row, Infos
  <2> QED BY <2>1 DEF Restorable, OwnTitles
<1>4. Back(loop.i - 1) = rows
  BY <1>2, <1>3 DEF Back
<1> QED BY <1>1, <1>4 DEF RestoredInv, RestoresSession

(* ... and the next start brings back the tabs of the last exit, in their  *)
(* order, but for those whose log was deleted (module ThreadTabs).         *)
THEOREM SessionsAreRestored ==
  ASSUME OneByOneUse, OwnTitles
  PROVE  Spec => SessionRestored
<1>1. Init => RestoredInv
  <2> SUFFICES ASSUME Init PROVE RestoredInv
    OBVIOUS
  <2>1. Len(<<>>) = 0 /\ loop.op = "none"
    BY EmptySeq DEF Init, Idle
  <2> QED BY <2>1 DEF Init, RestoredInv
<1>2. TabInv /\ KnownInv /\ RestoredInv /\ [Next]_vars => RestoredInv'
  BY RestoredNext
<1>3. TabInv /\ KnownInv /\ RestoredInv => [RestoresSession]_vars
  BY RestoreEnds
<1> QED
  BY <1>1, <1>2, <1>3, TabInvariant, KnownInvariant, PTL
     DEF Spec, SessionRestored, RestoresSession
=============================================================================
