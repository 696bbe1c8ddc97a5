-------------------------- MODULE ThreadListProofs --------------------------
(***************************************************************************)
(* Theorems about ThreadList, for any boards, threads, lists and faults.   *)
(***************************************************************************)
EXTENDS ThreadList, SequenceTheorems, FiniteSetTheorems, TLAPS

(***************************************************************************)
(* Facts about lists.                                                      *)
(***************************************************************************)

(* An empty list is a list, and none is the absent file.                   *)
LEMMA NoneIsList == None \in List /\ Absent \notin List /\ \A b \in Boards : Absent \notin Stamp(b)
<1>1. \A b \in Boards : Len(Subjects[b]) \in Nat
  BY ListsAssumption
<1> QED BY <1>1, ListsAssumption DEF None, List, Stamp, NoStamp

(* Every version of a board's list is a list.                              *)
LEMMA VersionIsList ==
  ASSUME NEW b \in Boards, NEW n \in 1 .. Len(Subjects[b])
  PROVE  Subjects[b][n] \in List
BY ListsAssumption, ElementOfSeq

(* What is left of a list is a list, and what it says of a thread is what  *)
(* the list says, or nothing.                                              *)
LEMMA PartsOfList ==
  ASSUME NEW l \in List, NEW p \in Parts(l)
  PROVE  p \in List /\ \A t \in Threads : p[t] \in {0, l[t]}
BY ListsAssumption DEF Parts, List

(* The boards in any order make a sequence of them.                        *)
LEMMA OrdersOfTabs ==
  ASSUME NEW S \in SUBSET Boards, S # {}, NEW s \in SetToSeqs(S)
  PROVE  s \in Seq(Boards) /\ s # <<>>
<1> DEFINE n == Cardinality(S)
<1>1. n \in Nat /\ n # 0
  BY ListsAssumption, FS_Subset, FS_CardinalityType, FS_EmptySet
<1>2. s \in [1 .. n -> S]
  BY DEF SetToSeqs
<1>3. s \in Seq(S) /\ DOMAIN s = 1 .. n
  BY <1>1, <1>2, SeqDef
<1>4. Len(s) = n
  BY <1>1, <1>3, LenProperties
<1> QED BY <1>1, <1>3, <1>4, SeqMonotonic

(* A page made of a list has the list's numbers, and compares them with    *)
(* those before if there was a list before.                                *)
LEMMA PageOfList ==
  ASSUME NEW l \in List, NEW before \in List, NEW page \in FileLoadMethod2ch(l, before)
  PROVE  /\ page \in [Threads -> Row]
         /\ \A t \in Threads : page[t].res = l[t]
         /\ before # None => \A t \in Threads : l[t] > 0 => page[t].cached = before[t]
<1>1. PICK h \in BOOLEAN : /\ page = [t \in Threads |-> RowOf(l[t], before[t], h)]
                           /\ before # None => h
  BY DEF FileLoadMethod2ch
<1>2. \A t \in Threads : l[t] \in 0 .. Full /\ before[t] \in 0 .. Full
  BY DEF List
<1>3. \A t \in Threads : /\ RowOf(l[t], before[t], h) \in Row
                         /\ RowOf(l[t], before[t], h).res = l[t]
                         /\ h /\ l[t] > 0 => RowOf(l[t], before[t], h).cached = before[t]
  BY <1>2, ListsAssumption DEF RowOf, Row, NoRow, States
<1> QED BY <1>1, <1>3

(* A list that is not compared makes a page as well.                       *)
LEMMA PageRestored ==
  ASSUME NEW l \in List
  PROVE  RestoredRows(l) \in [Threads -> Row] /\ \A t \in Threads : RestoredRows(l)[t].res = l[t]
BY ListsAssumption DEF RestoredRows, Row, States, List

(* The page of a board without a tab.                                      *)
LEMMA PageEmpty == NoPage \in [Threads -> Row]
BY ListsAssumption DEF NoPage, NoRow, Row, States

(* A log that was fetched exists and is no longer than a thread; the logs  *)
(* of other threads are left alone.                                        *)
LEMMA FetchTyped ==
  ASSUME TypeOK, NEW t \in Threads, Fetch(t)
  PROVE  /\ log' \in [Threads -> NoLog .. Full] /\ log'[t] # NoLog
         /\ \A x \in Threads : log[x] # NoLog => log'[x] # NoLog
<1>1. Subjects[BoardOf[t]][ver[BoardOf[t]]][t] \in 0 .. Full
  <2>1. BoardOf[t] \in Boards /\ Subjects[BoardOf[t]] \in Seq(List)
    BY ListsAssumption
  <2>2. ver[BoardOf[t]] \in 1 .. Len(Subjects[BoardOf[t]])
    BY <2>1 DEF TypeOK
  <2>3. Subjects[BoardOf[t]][ver[BoardOf[t]]] \in List
    BY <2>1, <2>2, VersionIsList
  <2> QED BY <2>3 DEF List
<1> QED BY <1>1, ListsAssumption DEF Fetch, TypeOK, NoLog

(***************************************************************************)
(* Type correctness: TypeOK says when a list, a header and a board are     *)
(* there, so it is inductive.                                              *)
(***************************************************************************)
(* A fresh installation has the types.                                     *)
LEMMA TypeInit == Init => TypeOK
<1>1. \A b \in Boards : Len(Subjects[b]) \in Nat /\ 1 <= Len(Subjects[b])
  BY ListsAssumption
<1>2. Init => /\ ver \in [Boards -> Nat \ {0}] /\ \A b \in Boards : ver[b] <= Len(Subjects[b])
              /\ list \in [Boards -> List \cup {Absent}]
              /\ \A b \in Boards : header[b] \in Stamp(b) \cup {Absent}
              /\ log \in [Threads -> NoLog .. Full]
              /\ icon \in [Threads -> {"new", "add", "drop"}]
              /\ rows \in [Boards -> [Threads -> Row]]
  BY <1>1, ListsAssumption, PageEmpty DEF Init, NoLog
<1>3. Init => todo \in Seq(Boards) /\ faults \in 0 .. MaxFaults
  BY LimitsAssumption DEF Init
<1> QED BY <1>2, <1>3, NoneIsList DEF Init, TypeOK, PCs

(* Every step keeps the types, one case per action.                        *)
LEMMA TypeNext == TypeOK /\ [Next]_vars => TypeOK'
<1> SUFFICES ASSUME TypeOK, [Next]_vars PROVE TypeOK'
  OBVIOUS
<1> USE NoneIsList, PageEmpty DEF PCs, files, notebook, threads, call
<1>0. /\ ver \in [Boards -> Nat \ {0}]
      /\ \A b \in Boards : Len(Subjects[b]) \in Nat /\ ver[b] \in 1 .. Len(Subjects[b])
      /\ \A b \in Boards : Subjects[b][ver[b]] \in List
  BY ListsAssumption, VersionIsList DEF TypeOK
<1>1. ASSUME NEW b \in Boards, SubjectChanges(b) PROVE TypeOK'
  <2>1. /\ ver' \in [Boards -> Nat \ {0}]
        /\ \A x \in Boards : ver'[x] <= Len(Subjects[x])
    BY <1>0, <1>1 DEF SubjectChanges
  <2> QED BY <1>1, <2>1 DEF SubjectChanges, TypeOK
<1>2. CASE Answer
  BY <1>2, <1>0 DEF Answer, TypeOK, Served, Stamp, NoStamp
<1>3. CASE NotModified
  BY <1>3, <1>0 DEF NotModified, TypeOK, Stamp, NoStamp
<1>4. CASE ErrorPage
  BY <1>4, <1>0, LimitsAssumption DEF ErrorPage, Fault, TypeOK, Stamp, NoStamp
<1>5. CASE Broken
  <2>1. gzip' \in List
    BY <1>0, <1>5, PartsOfList DEF Broken, TypeOK, Served
  <2> QED BY <1>5, <2>1, LimitsAssumption DEF Broken, Fault, TypeOK
<1>6. CASE SaveHeader
  BY <1>6 DEF SaveHeader, TypeOK
<1>7. CASE Convert
  BY <1>7 DEF Convert, TypeOK
<1>8. CASE SetThreadListItem
  <2>1. list[cur] \in List /\ cur \in Boards /\ old \in List
    BY <1>8 DEF SetThreadListItem, TypeOK
  <2>2. PICK page \in FileLoadMethod2ch(list[cur], old) :
          ShowTab(cur, page) /\ UpdateThreadTabIcons(page)
    BY <1>8 DEF SetThreadListItem
  <2>3. page \in [Threads -> Row]
    BY <2>1, <2>2, PageOfList
  <2>4. /\ rows' \in [Boards -> [Threads -> Row]]
        /\ tabs' \subseteq Boards /\ \A b \in tabs' : list[b] # Absent
        /\ icon' \in [Threads -> {"new", "add", "drop"}]
    BY <2>1, <2>2, <2>3 DEF ShowTab, UpdateThreadTabIcons, TypeOK
  <2> QED BY <1>8, <2>4 DEF SetThreadListItem, Returned, TypeOK
<1>9. CASE ReloadNextBoard
  <2>1. Head(todo) \in Boards /\ Tail(todo) \in Seq(Boards)
    BY <1>9, HeadTailProperties DEF ReloadNextBoard, TypeOK
  <2> QED BY <1>9, <2>1 DEF ReloadNextBoard, SetBoardNameToNoteBook, TypeOK
<1>10. ASSUME NEW b \in Boards, OnGetBoardInfo(b) PROVE TypeOK'
  BY <1>10 DEF OnGetBoardInfo, Ready, SetBoardNameToNoteBook, TypeOK
<1>11. ASSUME NEW b \in Boards, OnUserLastClosedBoardClick(b) PROVE TypeOK'
  <2>1. list[b] \in List
    BY <1>11 DEF OnUserLastClosedBoardClick, TypeOK
  <2>2. rows' \in [Boards -> [Threads -> Row]]
    BY <1>11, <2>1, PageRestored DEF OnUserLastClosedBoardClick, ShowTab, TypeOK
  <2> QED BY <1>11, <2>2 DEF OnUserLastClosedBoardClick, ShowTab, TypeOK
<1>12. CASE ReloadAllBoard
  <2>1. todo' \in Seq(Boards) /\ todo' # <<>>
    BY <1>12, OrdersOfTabs DEF ReloadAllBoard, TypeOK
  <2> QED BY <1>12, <2>1 DEF ReloadAllBoard, TypeOK
<1>13. CASE CloseBoardTabs
  BY <1>13 DEF CloseBoardTabs, TypeOK
<1>14. ASSUME NEW t \in Threads, OnLeftClickAtListCtrl2ch(t) PROVE TypeOK'
  BY <1>14, FetchTyped, LimitsAssumption DEF OnLeftClickAtListCtrl2ch, TypeOK
<1>15. ASSUME NEW t \in Threads, ReloadThread(t) PROVE TypeOK'
  BY <1>15, FetchTyped DEF ReloadThread, TypeOK
<1>16. ASSUME NEW t \in Threads, OneThreadTabClose(t) PROVE TypeOK'
  BY <1>16 DEF OneThreadTabClose, TypeOK
<1>17. CASE SetPreviousUserLookedTab
  <2>1. rows' \in [Boards -> [Threads -> Row]]
    BY <1>17, PageRestored DEF SetPreviousUserLookedTab, TypeOK
  <2> QED BY <1>17, <2>1, LimitsAssumption DEF SetPreviousUserLookedTab, TypeOK
<1>18. CASE OnCloseWindow
  BY <1>18 DEF OnCloseWindow, Gone, TypeOK
<1>19. CASE Kill
  <2>1. /\ cur' = Absent /\ resp' = Absent /\ old' = None /\ gzip' = None
        /\ todo' = <<>> /\ pc' = "idle" /\ UNCHANGED <<ver, header, log>>
        /\ window' = FALSE /\ tabs' = {} /\ rows' = [b \in Boards |-> NoPage]
        /\ open' = {} /\ icon' = [t \in Threads |-> "new"] /\ faults' = faults + 1
        /\ faults < MaxFaults
    BY <1>19 DEF Kill, Returned, Gone, Fault
  <2>2. list' \in [Boards -> List \cup {Absent}]
    <3>1. list \in [Boards -> List \cup {Absent}] /\ gzip \in List
          /\ \A part \in Parts(gzip) : part \in List
      BY PartsOfList DEF TypeOK
    <3> QED BY <1>19, <3>1 DEF Kill
  <2>3. log' \in [Threads -> NoLog .. Full] /\ faults' \in 0 .. MaxFaults /\ todo' \in Seq(Boards)
    BY <2>1, LimitsAssumption DEF TypeOK
  <2> QED BY <2>1, <2>2, <2>3 DEF TypeOK
<1>20. CASE UNCHANGED vars
  BY <1>20 DEF vars, TypeOK
<1>21. CASE ReloadOneBoard
  BY <1>10, <1>21 DEF ReloadOneBoard, TypeOK
<1> QED
  BY <1>1, <1>2, <1>3, <1>4, <1>5, <1>6, <1>7, <1>8, <1>9, <1>10, <1>11, <1>12, <1>13,
     <1>14, <1>15, <1>16, <1>17, <1>18, <1>19, <1>20, <1>21 DEF Next, Update, User

(* The state has the declared types in every reachable state; in           *)
(* particular an update is conditional only with a list and a header.      *)
THEOREM TypeCorrect == Spec => []TypeOK
BY TypeInit, TypeNext, PTL DEF Spec

(***************************************************************************)
(* The icons.  All of them come from the end of an update; every other     *)
(* step gives a tab the icon of a new one or leaves it alone.              *)
(***************************************************************************)
(* Only the end of an update marks a tab, and it marks a thread of the     *)
(* board that was updated: as dropped if the list lacks it, with "+" if    *)
(* the list has more responses than the tab.                               *)
LEMMA IconsMarked ==
  ASSUME TypeOK, [Next]_vars, NEW t \in Threads, icon'[t] # icon[t], icon'[t] # "new"
  PROVE  /\ SetThreadListItem /\ BoardOf[t] = cur /\ list[cur] \in List
         /\ icon'[t] = "drop" => list[cur][t] = 0
         /\ icon'[t] = "add" => list[cur][t] # 0 /\ \E n \in ResponseNums(t) : list[cur][t] > n
<1> USE DEF files, notebook, threads, call
<1>1. SetThreadListItem
  <2>1. Update => SetThreadListItem \/ UNCHANGED icon
    BY DEF Update, Answer, NotModified, ErrorPage, Broken, SaveHeader, Convert, ReloadNextBoard
  <2>2. User => UNCHANGED icon \/ icon'[t] \in {icon[t], "new"}
    BY DEF User, OnGetBoardInfo, OnUserLastClosedBoardClick, ReloadOneBoard, ReloadAllBoard,
           CloseBoardTabs, OnLeftClickAtListCtrl2ch, ReloadThread, OneThreadTabClose,
           SetPreviousUserLookedTab, OnCloseWindow, Gone, TypeOK
  <2>3. Kill => icon'[t] = "new"
    BY DEF Kill, Gone
  <2>4. (\E b \in Boards : SubjectChanges(b)) \/ UNCHANGED vars => UNCHANGED icon
    BY DEF SubjectChanges, vars
  <2> QED BY <2>1, <2>2, <2>3, <2>4 DEF Next
<1>2. list[cur] \in List /\ old \in List
  BY <1>1 DEF SetThreadListItem, TypeOK
<1>3. PICK page \in FileLoadMethod2ch(list[cur], old) : UpdateThreadTabIcons(page)
  BY <1>1 DEF SetThreadListItem
<1>4. page[t].res = list[cur][t]
  BY <1>2, <1>3, PageOfList
<1>5. icon'[t] \in IconsAfter(t, page[t])
  BY <1>3 DEF UpdateThreadTabIcons
<1> QED BY <1>1, <1>2, <1>4, <1>5 DEF IconsAfter

(* A tab is marked as dropped only if its board no longer lists the thread *)
(* or the kept list is not the server's.                                   *)
THEOREM DropsAreReal == Spec => DropMeansGone
<1>1. TypeOK /\ [Next]_vars =>
        [\A t \in Threads :
           icon[t] # "drop" /\ icon'[t] = "drop" =>
             \/ Subjects[BoardOf[t]][ver[BoardOf[t]]][t] = 0
             \/ list[BoardOf[t]] # Subjects[BoardOf[t]][ver[BoardOf[t]]]]_vars
  BY IconsMarked
<1> QED BY <1>1, TypeCorrect, PTL DEF Spec, DropMeansGone

(* What a list says of a thread is a number the server has had, or none.   *)
Had(v, b, t) == {0} \cup {Subjects[b][n][t] : n \in 1 .. v[b]}

ServedInv ==
  /\ \A b \in Boards : list[b] # Absent => \A t \in Threads : list[b][t] \in Had(ver, b, t)
  /\ pc \in {"save", "convert"} => \A t \in Threads : gzip[t] \in Had(ver, cur, t)

(* The server's history grows.                                             *)
LEMMA HadGrows ==
  ASSUME TypeOK, [Next]_vars, NEW b \in Boards, NEW t \in Threads
  PROVE  /\ Had(ver, b, t) \subseteq Had(ver', b, t)
         /\ Subjects[b][ver[b]][t] \in Had(ver, b, t) /\ 0 \in Had(ver, b, t)
<1>1. ver[b] \in Nat \ {0} /\ ver'[b] \in Nat /\ ver[b] <= ver'[b]
  BY DEF TypeOK, Next, SubjectChanges, Update, Answer, NotModified, ErrorPage, Broken,
         SaveHeader, Convert, SetThreadListItem, ReloadNextBoard, User, OnGetBoardInfo,
         OnUserLastClosedBoardClick, ReloadOneBoard, ReloadAllBoard, CloseBoardTabs,
         OnLeftClickAtListCtrl2ch, ReloadThread, OneThreadTabClose,
         SetPreviousUserLookedTab, OnCloseWindow, Kill, vars
<1> QED BY <1>1 DEF Had

(* A fresh installation has no lists.                                      *)
LEMMA ServedInit == Init => ServedInv
BY DEF Init, ServedInv

(* Every step keeps ServedInv: an answer or part of one is what the server *)
(* has, an error page says nothing.                                        *)
LEMMA ServedNext == TypeOK /\ ServedInv /\ [Next]_vars => ServedInv'
<1> SUFFICES ASSUME TypeOK, ServedInv, [Next]_vars PROVE ServedInv'
  OBVIOUS
<1> USE NoneIsList DEF files, notebook, threads, call
<1>0. cur \in Boards => \A t \in Threads : None[t] = 0 /\ 0 \in Had(ver', cur, t)
  BY HadGrows DEF None
<1>1. CASE Answer
  <2>1. cur \in Boards
    BY <1>1 DEF Answer, TypeOK
  <2>2. \A t \in Threads : Served[t] \in Had(ver', cur, t)
    BY <2>1, HadGrows DEF Served
  <2> QED BY <1>1, <2>2, HadGrows DEF Answer, ServedInv
<1>2. CASE NotModified \/ ErrorPage
  <2>1. cur \in Boards
    BY <1>2 DEF NotModified, ErrorPage, TypeOK
  <2> QED BY <1>0, <1>2, <2>1, HadGrows DEF NotModified, ErrorPage, ServedInv
<1>3. CASE Broken
  <2>1. cur \in Boards /\ Served \in List
    <3>1. cur \in Boards /\ ver[cur] \in 1 .. Len(Subjects[cur])
      BY <1>3, ListsAssumption DEF Broken, TypeOK
    <3> QED BY <3>1, VersionIsList DEF Served
  <2>2. \A t \in Threads : gzip'[t] \in Had(ver', cur, t)
    BY <1>3, <2>1, PartsOfList, HadGrows DEF Served, Broken
  <2> QED BY <1>3, <2>2, HadGrows DEF Broken, ServedInv
<1>4. CASE SaveHeader
  BY <1>4, HadGrows DEF SaveHeader, ServedInv, TypeOK
<1>5. CASE Convert
  BY <1>5, HadGrows DEF Convert, ServedInv, TypeOK
<1>6. CASE Kill
  <2>1. CASE UNCHANGED list
    BY <1>6, <2>1, HadGrows DEF Kill, ServedInv
  <2>2. ASSUME pc = "convert", NEW part \in Parts(gzip), list' = [list EXCEPT ![cur] = part]
        PROVE  ServedInv'
    <3>1. cur \in Boards /\ gzip \in List
      BY <2>2 DEF TypeOK
    <3>2. \A t \in Threads : part[t] \in Had(ver', cur, t)
      BY <2>2, <3>1, PartsOfList, HadGrows DEF ServedInv
    <3> QED BY <1>6, <2>2, <3>1, <3>2, HadGrows DEF Kill, ServedInv, TypeOK
  <2> QED BY <1>6, <2>1, <2>2 DEF Kill
<1>7. ASSUME UNCHANGED list, pc' \notin {"save", "convert"} \/ UNCHANGED <<pc, cur, gzip>>
      PROVE  ServedInv'
  BY <1>7, HadGrows DEF ServedInv, TypeOK
<1>8. CASE SetThreadListItem \/ ReloadNextBoard \/ User \/ UNCHANGED vars
  BY <1>7, <1>8
     DEF SetThreadListItem, ReloadNextBoard, SetBoardNameToNoteBook, User, OnGetBoardInfo,
         OnUserLastClosedBoardClick, ReloadOneBoard, ReloadAllBoard, CloseBoardTabs,
         OnLeftClickAtListCtrl2ch, ReloadThread, OneThreadTabClose,
         SetPreviousUserLookedTab, OnCloseWindow, vars
<1>9. CASE \E b \in Boards : SubjectChanges(b)
  BY <1>7, <1>9 DEF SubjectChanges
<1> QED BY <1>1, <1>2, <1>3, <1>4, <1>5, <1>6, <1>8, <1>9 DEF Next, Update

(* A tab gets its "+" only if the server has had more responses than the   *)
(* thread's log holds.                                                     *)
THEOREM PlusesAreNews == Spec => PlusMeansNews
<1>1. TypeOK /\ ServedInv /\ [Next]_vars =>
        [\A t \in Threads :
           icon[t] # "add" /\ icon'[t] = "add" => \E n \in Posted(t) : n > log[t]]_vars
  <2> SUFFICES ASSUME TypeOK, ServedInv, [Next]_vars,
                      NEW t \in Threads, icon[t] # "add", icon'[t] = "add"
               PROVE  \E n \in Posted(t) : n > log[t]
    OBVIOUS
  <2>1. /\ BoardOf[t] = cur /\ list[cur] \in List /\ list[cur][t] # 0
        /\ \E n \in ResponseNums(t) : list[cur][t] > n
    BY IconsMarked
  <2>2. cur \in Boards /\ list[cur] # Absent
    BY <2>1, ListsAssumption
  <2>3. list[cur][t] \in Posted(t)
    BY <2>1, <2>2 DEF ServedInv, Had, Posted
  <2>4. list[cur][t] \in Nat /\ log[t] \in NoLog .. Full
    BY <2>1, ListsAssumption DEF List, TypeOK
  <2>5. list[cur][t] > log[t]
    BY <2>1, <2>4, ListsAssumption DEF ResponseNums, NoLog
  <2> QED BY <2>3, <2>5
<1>2. Spec => []ServedInv
  BY TypeCorrect, ServedInit, ServedNext, PTL DEF Spec
<1> QED BY <1>1, <1>2, TypeCorrect, PTL DEF Spec, PlusMeansNews

(***************************************************************************)
(* The rows.  Between updates a tab shows the list on disk; while an       *)
(* update runs, the list it started with.                                  *)
(***************************************************************************)
ScreenInv ==
  /\ \A b \in tabs : \A t \in Threads :
       rows[b][t].res = IF pc = "show" /\ b = cur THEN old[t] ELSE list[b][t]
  /\ pc \in {"new", "mod", "save", "convert"} => list[cur] = Absent \/ list[cur] = old

(* A fresh installation has no tabs.                                       *)
LEMMA ScreenInit == Init => ScreenInv
BY DEF Init, ScreenInv

(* Every step keeps ScreenInv: a page and the list it shows change         *)
(* together, or all tabs are gone.                                         *)
LEMMA ScreenNext == TypeOK /\ ScreenInv /\ [Next]_vars => ScreenInv'
<1> SUFFICES ASSUME TypeOK, ScreenInv, [Next]_vars PROVE ScreenInv'
  OBVIOUS
<1> USE NoneIsList DEF files, notebook, threads, call
<1>1. CASE Answer \/ NotModified \/ ErrorPage \/ Broken \/ SaveHeader
  BY <1>1 DEF Answer, NotModified, ErrorPage, Broken, SaveHeader, ScreenInv
<1>2. CASE Convert
  BY <1>2 DEF Convert, ScreenInv, TypeOK
<1>3. CASE SetThreadListItem
  <2>1. list[cur] \in List /\ old \in List /\ cur \in Boards
    BY <1>3 DEF SetThreadListItem, TypeOK
  <2>2. PICK page \in FileLoadMethod2ch(list[cur], old) : ShowTab(cur, page)
    BY <1>3 DEF SetThreadListItem
  <2>3. \A t \in Threads : page[t].res = list[cur][t]
    BY <2>1, <2>2, PageOfList
  <2> QED BY <1>3, <2>1, <2>2, <2>3 DEF SetThreadListItem, ShowTab, ScreenInv, TypeOK
<1>4. CASE ReloadNextBoard
  BY <1>4 DEF ReloadNextBoard, SetBoardNameToNoteBook, ScreenInv
<1>5. ASSUME NEW b \in Boards, OnGetBoardInfo(b) PROVE ScreenInv'
  BY <1>5 DEF OnGetBoardInfo, Ready, SetBoardNameToNoteBook, ScreenInv
<1>6. ASSUME NEW b \in Boards, OnUserLastClosedBoardClick(b) PROVE ScreenInv'
  <2>1. \A t \in Threads : RestoredRows(list[b])[t].res = list[b][t]
    BY <1>6, PageRestored DEF OnUserLastClosedBoardClick, TypeOK
  <2> QED BY <1>6, <2>1 DEF OnUserLastClosedBoardClick, ShowTab, ScreenInv, Ready, TypeOK
<1>7. CASE ReloadAllBoard
  BY <1>7 DEF ReloadAllBoard, Ready, ScreenInv
<1>8. CASE CloseBoardTabs
  BY <1>8 DEF CloseBoardTabs, Ready, ScreenInv, TypeOK
<1>9. ASSUME NEW t \in Threads,
             OnLeftClickAtListCtrl2ch(t) \/ ReloadThread(t) \/ OneThreadTabClose(t)
      PROVE  ScreenInv'
  BY <1>9 DEF OnLeftClickAtListCtrl2ch, ReloadThread, OneThreadTabClose, ScreenInv
<1>10. CASE SetPreviousUserLookedTab
  <2>1. \A b \in Boards : list[b] # Absent =>
          \A t \in Threads : RestoredRows(list[b])[t].res = list[b][t]
    BY PageRestored DEF TypeOK
  <2> QED BY <1>10, <2>1 DEF SetPreviousUserLookedTab, ScreenInv
<1>11. CASE OnCloseWindow \/ Kill
  BY <1>11 DEF OnCloseWindow, Kill, Ready, Gone, ScreenInv
<1>12. CASE (\E b \in Boards : SubjectChanges(b)) \/ UNCHANGED vars
  BY <1>12 DEF SubjectChanges, vars, ScreenInv
<1>13. CASE ReloadOneBoard
  BY <1>5, <1>13 DEF ReloadOneBoard, TypeOK
<1> QED
  BY <1>1, <1>2, <1>3, <1>4, <1>5, <1>6, <1>7, <1>8, <1>9, <1>10, <1>11, <1>12, <1>13
     DEF Next, Update, User

(* What an update counts as new is what the screen did not show before it. *)
THEOREM NewsAreComparedWithScreen == Spec => ComparedWithScreen
<1>1. TypeOK /\ ScreenInv /\ [Next]_vars =>
        [\A b \in tabs :
           SetThreadListItem /\ cur = b /\ (\E t \in Threads : rows[b][t].res > 0) =>
             \A t \in Threads :
               rows'[b][t].res > 0 => rows'[b][t].cached = rows[b][t].res]_vars
  <2> SUFFICES ASSUME TypeOK, ScreenInv, cur \in tabs, SetThreadListItem,
                      \E t \in Threads : rows[cur][t].res > 0
               PROVE  \A t \in Threads :
                        rows'[cur][t].res > 0 => rows'[cur][t].cached = rows[cur][t].res
    OBVIOUS
  <2>1. /\ list[cur] \in List /\ old \in List /\ cur \in Boards
        /\ rows \in [Boards -> [Threads -> Row]] /\ pc = "show"
    BY DEF SetThreadListItem, TypeOK
  <2>2. PICK page \in FileLoadMethod2ch(list[cur], old) : ShowTab(cur, page)
    BY DEF SetThreadListItem
  <2>3. \A t \in Threads : rows[cur][t].res = old[t]
    BY <2>1 DEF ScreenInv
  <2>4. old # None
    BY <2>3 DEF None
  <2>5. \A t \in Threads :
          page[t].res = list[cur][t] /\ (list[cur][t] > 0 => page[t].cached = old[t])
    BY <2>1, <2>2, <2>4, PageOfList
  <2>6. rows'[cur] = page
    BY <2>1, <2>2 DEF ShowTab
  <2> QED BY <2>3, <2>5, <2>6
<1>2. Spec => []ScreenInv
  BY TypeCorrect, ScreenInit, ScreenNext, PTL DEF Spec
<1> QED BY <1>1, <1>2, TypeCorrect, PTL DEF Spec, ComparedWithScreen
=============================================================================
