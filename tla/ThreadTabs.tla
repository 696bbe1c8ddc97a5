----------------------------- MODULE ThreadTabs -----------------------------
(***************************************************************************)
(* The thread tabs of the main window (class XrossBoard): the notebook     *)
(* pages, the table tiHash that says which thread a title stands for, and  *)
(* what is derived from it: the list of recently closed threads, the tree  *)
(* of threads being read, the session saved at exit, the reply windows.    *)
(*                                                                         *)
(* Everything runs in the GUI thread, one handler after the other.  What   *)
(* interleaves is the order of handlers: a reload queued by a reply window *)
(* or an update of the tree runs after any number of clicks.  The handlers *)
(* that close several tabs loop over a notebook that shrinks under them,   *)
(* the one that restores the session over one that grows; here each turn   *)
(* of a loop is a step and nothing else runs meanwhile.                    *)
(*                                                                         *)
(* Init is a start after the first one, when the tables are there.  In the *)
(* first session they are not (Boards): closed tabs are then not recorded, *)
(* and what was open at its exit does not come back.                       *)
(***************************************************************************)
EXTENDS Selection, SequencesExt

CONSTANTS
  Threads,      (* threads: an origNumber together with a boardNameAscii   *)
  Titles,       (* thread titles, the keys of tiHash and the tab labels    *)
  TitleOf,      (* the title of every thread                               *)
  Blank,        (* empty origNumber and boardNameAscii                     *)
  NoTitle,      (* the static ResponseWindow::threadTitle at first         *)
  Uses,         (* what the user does besides opening and closing a tab    *)
  MaxPages,     (* bound: tabs open at a time                              *)
  MaxReloads,   (* bound: reloads queued at a time                         *)
  MenuSize      (* closed threads the menu offers, 16 in the code          *)

(* bulkClose   closes all tabs, all others, those to the left or the right *)
(* middleClick closes a tab that is not selected with the mouse            *)
(* duplicates  opens a thread that is open already                         *)
(* deleteLog   deletes the log of the selected tab                         *)
(* reply       opens reply windows and posts                               *)
(* kill        the application ends without OnCloseWindow, or during it    *)
UseKinds == {"bulkClose", "middleClick", "duplicates", "deleteLog", "reply", "kill"}

ASSUME TitlesAssumption == TitleOf \in [Threads -> Titles]
ASSUME BlankAssumption == Blank \notin Threads /\ NoTitle \notin Titles
ASSUME UsesAssumption == Uses \subseteq UseKinds
ASSUME BoundsAssumption ==
  MaxPages \in Nat \ {0} /\ MaxReloads \in Nat /\ MenuSize \in Nat \ {0}

VARIABLES
  running,      (* the main window exists                                  *)
  pages,        (* threadNoteBook: label of each tab, thread it displays   *)
  sel,          (* its selection, 0 for wxNOT_FOUND                        *)
  tiHash,       (* title -> thread; Blank also stands for no entry at all  *)
  closed,       (* USER_CLOSED_THREADLIST, newest first, as far as offered *)
  session,      (* USER_LOOKING_THREADLIST, written at exit                *)
  logs,         (* threads with a .dat file; Blank is the file "dat//.dat" *)
  tree,         (* titles in the tree of threads being read                *)
  treeQueued,   (* a NowReadingTreectrlUpdate is in the event queue        *)
  reloads,      (* ReloadThreadByName events in the queue                  *)
  replies,      (* open reply windows                                      *)
  threadTitle,  (* ResponseWindow::threadTitle, one for all windows        *)
  loop,         (* the loop that is running, if any                        *)
  before        (* history: the tabs when that loop began                  *)

notebook == <<pages, sel>>
books    == <<tiHash, closed>>
events   == <<tree, treeQueued, reloads>>
reply    == <<replies, threadTitle>>
bulk     == <<loop, before>>
disk     == <<session, logs>>
vars     == <<running, notebook, books, events, reply, bulk, disk>>

Infos  == Threads \cup {Blank}
Page   == [title : Titles, shown : Infos]
Row    == [title : Titles, info : Infos]
Labels(s) == [i \in 1 .. Len(s) |-> s[i].title]
Open   == {pages[i].title : i \in 1 .. Len(pages)}
Known  == {t \in Titles : tiHash[t] # Blank}
BulkOps == {"except", "all", "left", "right"}
Idle == [op |-> "none", i |-> 1, last |-> 0, select |-> 0, deleted |-> FALSE]
Ready == running /\ loop.op = "none"

TypeOK ==
  /\ running \in BOOLEAN
  /\ pages \in Seq(Page) /\ Len(pages) <= MaxPages
  /\ sel \in 0 .. Len(pages) /\ (sel = 0 <=> pages = <<>>)
  /\ tiHash \in [Titles -> Infos]
  /\ closed \in Seq(Row) /\ Len(closed) <= MenuSize
  /\ session \in Seq(Row) /\ Len(session) <= MaxPages
  /\ logs \in SUBSET Infos
  /\ tree \in SUBSET Titles /\ treeQueued \in BOOLEAN
  /\ reloads \in Seq(Titles \cup {NoTitle}) /\ Len(reloads) <= MaxReloads
  /\ replies \in SUBSET [title : Titles, target : Infos]
  /\ threadTitle \in Titles \cup {NoTitle}
  /\ loop \in [op : BulkOps \cup {"none", "restore"}, i : Nat, last : Nat, select : Nat, deleted : BOOLEAN]
  /\ before \in Seq(Page)

Init ==
  /\ running = TRUE
  /\ pages = <<>> /\ sel = 0
  /\ tiHash = [t \in Titles |-> Blank]
  /\ closed = <<>> /\ session = <<>> /\ logs = {}
  /\ tree = {} /\ treeQueued = TRUE /\ reloads = <<>>
  /\ replies = {} /\ threadTitle = NoTitle
  /\ loop = Idle /\ before = <<>>

(***************************************************************************)
(* The notebook: a deleted page is followed by its right neighbour, or the *)
(* left one at the end.  An index out of range deletes nothing.            *)
(***************************************************************************)
DeletePage(i) ==
  IF i \in 1 .. Len(pages)
  THEN /\ pages' = RemoveAt(pages, i)
       /\ sel' = IF i < sel \/ sel = Len(pages) THEN sel - 1 ELSE sel
  ELSE UNCHANGED notebook

CanOpen(title) ==
  /\ Len(pages) < MaxPages
  /\ title \in Open => "duplicates" \in Uses

(* A page is appended and selected; the caller registers its thread after. *)
SetThreadContentToNoteBook(title, info) ==
  /\ pages' = Append(pages, [title |-> title, shown |-> info])
  /\ sel' = Len(pages) + 1
  /\ treeQueued' = TRUE
  /\ tiHash' = [tiHash EXCEPT ![title] = info]

(* Mutant: the tree is rebuilt at once, before the caller registers.       *)
OnLeftClickAtListCtrl2chEager(thread) ==
  /\ Ready /\ CanOpen(TitleOf[thread])
  /\ pages' = Append(pages, [title |-> TitleOf[thread], shown |-> thread])
  /\ sel' = Len(pages) + 1
  /\ tree' = Known
  /\ tiHash' = [tiHash EXCEPT ![TitleOf[thread]] = thread]
  /\ logs' = logs \cup {thread}
  /\ UNCHANGED <<running, closed, session, treeQueued, reloads, reply, bulk>>

(* DownloadThread leaves a .dat file whatever happens (module ThreadLog).  *)
OnLeftClickAtListCtrl2ch(thread) ==
  /\ Ready /\ CanOpen(TitleOf[thread])
  /\ SetThreadContentToNoteBook(TitleOf[thread], thread)
  /\ logs' = logs \cup {thread}
  /\ UNCHANGED <<running, closed, session, tree, reloads, reply, bulk>>

OnUserLastClosedThreadClick(n) ==
  /\ Ready /\ CanOpen(closed[n].title)
  /\ closed[n].info \in logs        \* otherwise an error box
  /\ SetThreadContentToNoteBook(closed[n].title, closed[n].info)
  /\ UNCHANGED <<running, closed, disk, tree, reloads, reply, bulk>>

SelectTab(i) ==
  /\ Ready /\ i # sel
  /\ sel' = i
  /\ UNCHANGED <<running, pages, books, events, reply, bulk, disk>>

(***************************************************************************)
(* Closing.  The handler for a tab about to be closed asks the notebook    *)
(* for its selection, whichever tab the event is about.  The time of a     *)
(* closed thread is kept in seconds; here no two tabs close in the same.   *)
(***************************************************************************)
(* Mutant: the query has lost its LIMIT.                                   *)
NewestAll(rows) == rows

Newest(rows) == SubSeq(rows, 1, IF Len(rows) < MenuSize THEN Len(rows) ELSE MenuSize)

SetThreadInfo(title) ==
  closed' = Newest(<<[title |-> title, info |-> tiHash[title]]>> \o closed)

OnAboutCloseThreadNoteBook ==
  LET title == pages[sel].title
  IN  /\ SetThreadInfo(title)
      /\ tiHash' = [tiHash EXCEPT ![title] = Blank]
      /\ treeQueued' = TRUE

(* Mutant: the handler runs after the page is gone.                        *)
OneThreadTabCloseLate ==
  /\ Ready /\ sel # 0
  /\ DeletePage(sel)
  /\ IF pages' = <<>> THEN UNCHANGED <<books, treeQueued>>
     ELSE LET title == pages'[sel'].title
          IN  /\ SetThreadInfo(title)
              /\ tiHash' = [tiHash EXCEPT ![title] = Blank]
              /\ treeQueued' = TRUE
  /\ UNCHANGED <<running, disk, tree, reloads, reply, bulk>>

OneThreadTabClose ==
  /\ Ready /\ sel # 0
  /\ OnAboutCloseThreadNoteBook
  /\ DeletePage(sel)
  /\ UNCHANGED <<running, disk, tree, reloads, reply, bulk>>

(* wxAuiNotebook closes the tab under the mouse without selecting it.      *)
CloseWithMouse(i) ==
  /\ "middleClick" \in Uses
  /\ Ready /\ i # sel
  /\ OnAboutCloseThreadNoteBook
  /\ DeletePage(i)
  /\ UNCHANGED <<running, disk, tree, reloads, reply, bulk>>

(* The four loops, with the counts taken before the first turn.  Indices   *)
(* are those of the code plus one.                                         *)
BeginBulk(op) ==
  /\ "bulkClose" \in Uses
  /\ Ready /\ sel # 0
  /\ loop' = [op |-> op, i |-> 1, select |-> sel, deleted |-> FALSE,
              last |-> IF op = "left" THEN sel - 1 ELSE Len(pages)]
  /\ before' = pages
  /\ UNCHANGED <<running, notebook, books, events, reply, disk>>

Turn(op) == loop.op = op /\ loop.i <= loop.last
Done == loop.op \in BulkOps /\ loop.i > loop.last

(* Mutant: the first tab to go once the selected one is reached is the     *)
(* first of the notebook.                                                  *)
ExcepSelFirst ==
  /\ Turn("except")
  /\ OnAboutCloseThreadNoteBook
  /\ DeletePage(IF ~loop.deleted THEN 1 ELSE 2)
  /\ loop' = [loop EXCEPT !.i = @ + 1, !.deleted = @ \/ loop.i = loop.select]
  /\ UNCHANGED <<running, disk, tree, reloads, reply, before>>

ExcepSelThreadTabClose ==
  /\ Turn("except")
  /\ OnAboutCloseThreadNoteBook
  /\ DeletePage(IF loop.i # loop.select /\ ~loop.deleted THEN 1 ELSE 2)
  /\ loop' = [loop EXCEPT !.i = @ + 1, !.deleted = @ \/ loop.i = loop.select]
  /\ UNCHANGED <<running, disk, tree, reloads, reply, before>>

AllThreadTabClose ==
  /\ Turn("all")
  /\ OnAboutCloseThreadNoteBook
  /\ DeletePage(1)
  /\ loop' = [loop EXCEPT !.i = @ + 1]
  /\ UNCHANGED <<running, disk, tree, reloads, reply, before>>

AllLeftThreadTabClose ==
  /\ Turn("left")
  /\ DeletePage(1)
  /\ loop' = [loop EXCEPT !.i = @ + 1]
  /\ UNCHANGED <<running, books, events, reply, disk, before>>

AllRightThreadTabClose ==
  /\ Turn("right")
  /\ IF loop.i > loop.select THEN DeletePage(loop.select + 1) ELSE UNCHANGED notebook
  /\ loop' = [loop EXCEPT !.i = @ + 1]
  /\ UNCHANGED <<running, books, events, reply, disk, before>>

EndBulk ==
  /\ Done
  /\ loop' = Idle /\ before' = <<>>
  /\ UNCHANGED <<running, notebook, books, events, reply, disk>>

(***************************************************************************)
(* Reloading: the page that is replaced is the selected one, the thread is *)
(* the one the title stands for.                                           *)
(***************************************************************************)
(* Mutant: the page is the one opened last.                                *)
ReloadThreadLastPage(title) ==
  LET info == IF title = NoTitle THEN Blank ELSE tiHash[title]
  IN  /\ pages' = IF sel = 0 THEN pages ELSE [pages EXCEPT ![Len(pages)].shown = info]
      /\ logs' = logs \cup {info}

ReloadThread(title) ==
  LET info == IF title = NoTitle THEN Blank ELSE tiHash[title]
  IN  /\ pages' = IF sel = 0 THEN pages ELSE [pages EXCEPT ![sel].shown = info]
      /\ logs' = logs \cup {info}

ReloadThisThread ==
  /\ Ready /\ sel # 0
  /\ ReloadThread(pages[sel].title)
  /\ UNCHANGED <<running, sel, books, session, events, reply, bulk>>

ReloadThreadByName ==
  /\ Ready /\ reloads # <<>>
  /\ reloads' = Tail(reloads)
  /\ ReloadThread(Head(reloads))
  /\ UNCHANGED <<running, sel, books, session, tree, treeQueued, reply, bulk>>

NowReadingTreectrlUpdate ==
  /\ Ready /\ treeQueued
  /\ treeQueued' = FALSE
  /\ tree' = Known
  /\ UNCHANGED <<running, notebook, books, reloads, reply, bulk, disk>>

DeleteDatFile ==
  /\ "deleteLog" \in Uses
  /\ Ready /\ sel # 0
  /\ tiHash[pages[sel].title] \in logs
  /\ logs' = logs \ {tiHash[pages[sel].title]}
  /\ UNCHANGED <<running, notebook, books, session, events, reply, bulk>>

(***************************************************************************)
(* Reply windows are modeless and keep their own copy of the thread.  With *)
(* a Blank entry no board matches and the last board of the search is kept.*)
(***************************************************************************)
CallResponseWindow ==
  /\ "reply" \in Uses
  /\ Ready /\ sel # 0
  /\ replies' = replies \cup {[title |-> pages[sel].title, target |-> tiHash[pages[sel].title]]}
  /\ threadTitle' = pages[sel].title
  /\ UNCHANGED <<running, notebook, books, events, bulk, disk>>

OnPostResponse ==
  /\ Ready /\ replies # {}
  /\ Len(reloads) < MaxReloads
  /\ reloads' = Append(reloads, threadTitle)
  /\ UNCHANGED <<running, notebook, books, tree, treeQueued, reply, bulk, disk>>

QuitResponseWindow(w) ==
  /\ Ready /\ w \in replies
  /\ replies' = replies \ {w}
  /\ UNCHANGED <<running, notebook, books, events, threadTitle, bulk, disk>>

(***************************************************************************)
(* Exit and start                                                          *)
(***************************************************************************)
(* What does not outlive the process.                                      *)
Shutdown ==
  /\ running' = FALSE
  /\ pages' = <<>> /\ sel' = 0
  /\ tiHash' = [t \in Titles |-> Blank]
  /\ tree' = {} /\ treeQueued' = FALSE /\ reloads' = <<>>
  /\ replies' = {} /\ threadTitle' = NoTitle

(* The table is emptied and filled in two transactions.                    *)
DeleteTableData == session' = <<>>
SetUserLookingThreadList(rows) == session' = rows

(* Mutant: the first tab is not looked up.                                 *)
OnCloseWindowSkipsFirst ==
  /\ Ready
  /\ SetUserLookingThreadList([i \in 1 .. Len(pages) |->
       [title |-> pages[i].title, info |-> IF i = 1 THEN Blank ELSE tiHash[pages[i].title]]])
  /\ Shutdown
  /\ UNCHANGED <<closed, logs, bulk>>

OnCloseWindow ==
  /\ Ready
  /\ SetUserLookingThreadList([i \in 1 .. Len(pages) |->
       [title |-> pages[i].title, info |-> tiHash[pages[i].title]]])
  /\ Shutdown
  /\ UNCHANGED <<closed, logs, bulk>>

Kill ==
  /\ "kill" \in Uses
  /\ Ready
  /\ UNCHANGED session \/ DeleteTableData
  /\ Shutdown
  /\ UNCHANGED <<closed, logs, bulk>>

(* The rows of the last exit are opened in a loop of their own.  A row     *)
(* with an empty field is not read, one without a log gives an error box.  *)
SetPreviousUserLookedTab ==
  /\ ~running /\ running' = TRUE
  /\ loop' = [Idle EXCEPT !.op = "restore", !.last = Len(session)]
  /\ UNCHANGED <<notebook, books, events, reply, disk, before>>

Restorable(row) == row.info # Blank /\ row.info \in logs

RestoreTab ==
  /\ Turn("restore")
  /\ loop' = [loop EXCEPT !.i = @ + 1]
  /\ IF Restorable(session[loop.i])
     THEN SetThreadContentToNoteBook(session[loop.i].title, session[loop.i].info)
     ELSE UNCHANGED <<notebook, tiHash, treeQueued>>
  /\ UNCHANGED <<running, closed, disk, tree, reloads, reply, before>>

EndRestore ==
  /\ loop.op = "restore" /\ loop.i > loop.last
  /\ loop' = Idle
  /\ treeQueued' = TRUE
  /\ UNCHANGED <<running, notebook, books, tree, reloads, reply, disk, before>>

Tabs ==
  \/ \E thread \in Threads : OnLeftClickAtListCtrl2ch(thread)
  \/ \E n \in 1 .. Len(closed) : OnUserLastClosedThreadClick(n)
  \/ \E i \in 1 .. Len(pages) : SelectTab(i)
  \/ OneThreadTabClose
  \/ \E i \in 1 .. Len(pages) : CloseWithMouse(i)
  \/ ReloadThisThread \/ DeleteDatFile

Bulk ==
  \/ \E op \in BulkOps : BeginBulk(op)
  \/ ExcepSelThreadTabClose \/ AllThreadTabClose
  \/ AllLeftThreadTabClose \/ AllRightThreadTabClose \/ EndBulk

Queue == ReloadThreadByName \/ NowReadingTreectrlUpdate

Reply == CallResponseWindow \/ OnPostResponse \/ \E w \in replies : QuitResponseWindow(w)

Process ==
  OnCloseWindow \/ Kill \/ SetPreviousUserLookedTab \/ RestoreTab \/ EndRestore

Next == Tabs \/ Bulk \/ Queue \/ Reply \/ Process

Spec == Init /\ [][Next]_vars
-----------------------------------------------------------------------------
(* A tab displays the thread its label names, or nothing: no closing,      *)
(* reopening, reloading or restart puts the content of one thread under    *)
(* the title of another, even where tiHash has lost the entry.             *)
PageShowsItsThread ==
  \A i \in 1 .. Len(pages) : pages[i].shown # Blank => TitleOf[pages[i].shown] = pages[i].title

(* Outside a handler tiHash has an entry for exactly the titles that are   *)
(* open.                                                                   *)
TabsKnown == Ready => Known = Open

(* A closed thread is recorded with its number and board, so that the menu *)
(* can open it again.                                                      *)
ClosedTabsRecorded == \A n \in 1 .. Len(closed) : closed[n].info # Blank

(* A reply window posts to the thread whose title it shows, whatever tabs  *)
(* were closed or selected since it was opened.                            *)
ReplyTargetRight ==
  \A w \in replies : w.target # Blank /\ TitleOf[w.target] = w.title

(* When no update is queued the tree of threads being read agrees with     *)
(* tiHash.                                                                 *)
TreeFresh == Ready /\ ~treeQueued => tree = Known

(* The next start brings back the tabs of the last exit, in their order,   *)
(* but for those whose log was deleted.                                    *)
SessionRestored ==
  [][EndRestore =>
       LET there == {i \in 1 .. Len(session) :
                       \E thread \in logs \cap Threads : session[i].title = TitleOf[thread]}
       IN  Labels(pages') = Labels(Picked(session, there))]_vars

(* Each loop leaves the tabs its menu entry says and no others, though it  *)
(* counts over a notebook that shrinks.                                    *)
Kept ==
  CASE loop.op = "except" -> <<before[loop.select]>>
    [] loop.op = "all"    -> <<>>
    [] loop.op = "left"   -> SubSeq(before, loop.select, Len(before))
    [] loop.op = "right"  -> SubSeq(before, 1, loop.select)
BulkCloseExact == Done => pages = Kept
=============================================================================
