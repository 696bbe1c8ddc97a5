------------------------------ MODULE Boards ------------------------------
(***************************************************************************)
(* The list of boards: SocketCommunication::DownloadBoardList with its two *)
(* requests, ExtractBoardList, which reads the page, the table BOARD_INFO  *)
(* of SQLiteAccessor, and what class XrossBoard makes of the table: the    *)
(* tree of boards and retainHash, which finds a board by its name.         *)
(*                                                                         *)
(* The update is one handler that blocks the window.  Its steps are apart  *)
(* here because each leaves something on disk that the next update, or the *)
(* next start, finds: a connection may break and the process may be killed *)
(* between any two of them.                                                *)
(***************************************************************************)
EXTENDS Integers, SequencesExt, Selection

CONSTANTS
  Boards,       (* boards: a name together with an address                 *)
  Names,        (* their names, the keys of retainHash                     *)
  NameOf,       (* the name of every board                                 *)
  Categories,   (* the headings of the page                                *)
  Excluded,     (* EXCLUDECATEGORY1 and 2: headings that are not read      *)
  Menus,        (* the versions of the page: headings and boards in order  *)
  OutsideRows,  (* rows the user may register for boards not on the page   *)
  Keywords,     (* keywords of a search: the names that contain each       *)
  Faults,       (* the kinds of fault that occur                           *)
  MaxFaults,    (* bound: faults of all kinds together                     *)
  MaxOutside,   (* bound: outside rows in the table                        *)
  Absent,       (* a file that does not exist                              *)
  Blank         (* what retainHash holds for a name it does not know       *)

(* timeout  the connection fails or the transfer stops: curlpp throws      *)
(* busy     the server answers with an error page                          *)
(* kill     the process ends without warning                               *)
FaultKinds == {"timeout", "busy", "kill"}

Items == Boards \cup Categories
Row   == [board : Boards, category : Categories]

ASSUME BoardsAssumption ==
  /\ Boards \cap Categories = {}
  /\ NameOf \in [Boards -> Names]
  /\ Blank \notin Boards /\ Absent \notin Seq(Items) /\ Absent \notin Nat
ASSUME MenusAssumption == Menus \in Seq(Seq(Items)) /\ Menus # <<>>
ASSUME UserAssumption == OutsideRows \subseteq Row /\ Keywords \subseteq SUBSET Names
ASSUME LimitsAssumption ==
  Faults \subseteq FaultKinds /\ MaxFaults \in Nat /\ MaxOutside \in Nat

VARIABLES
  menu,         (* the version of the page the server has                  *)
  html,         (* the page as last converted, BOARD_LIST_PATH             *)
  gzip,         (* the body as it came                                     *)
  header,       (* the Last-Modified of the header file                    *)
  table,        (* BOARD_INFO, in the order of insertion                   *)
  outside,      (* how many rows at its end were registered by the user    *)
  installed,    (* the directory ~/.xb exists                              *)
  created,      (* the tables of the database in it exist                  *)
  window,       (* the main window exists                                  *)
  tree,         (* the rows the tree of boards shows                       *)
  retainHash,   (* name -> board                                           *)
  pc,           (* where the update is                                     *)
  resp,         (* the Last-Modified received                              *)
  buffer,       (* received, not yet in the gzip file                      *)
  rc,           (* 0 or -1, the result of the download                     *)
  faults,       (* faults so far                                           *)
  killed        (* history: an update was cut short by the end of the      *)
                (* process                                                 *)

files  == <<html, gzip, header>>
rows   == <<table, outside>>
home   == <<installed, created>>
view   == <<window, tree, retainHash>>
call   == <<resp, buffer, rc>>
vars   == <<menu, files, rows, home, view, pc, call, faults, killed>>

NoStamp == 0    (* a stored answer without a Last-Modified line            *)
Stamp   == 0 .. Len(Menus)
Page    == Menus[menu]

PCs == {"idle", "new", "mod", "save", "close", "open", "fill", "remove",
        "delete", "extract", "show"}

TypeOK ==
  /\ menu \in 1 .. Len(Menus)
  /\ html \in Seq(Items) \cup {Absent} /\ gzip \in Seq(Items) \cup {Absent}
  /\ header \in Stamp \cup {Absent}
  /\ table \in Seq(Row) /\ outside \in 0 .. MaxOutside /\ outside <= Len(table)
  /\ installed \in BOOLEAN /\ created \in BOOLEAN /\ window \in BOOLEAN
  /\ ~created => table = <<>>
  /\ tree \in Seq(Row) /\ retainHash \in [Names -> Boards \cup {Blank}]
  /\ pc \in PCs
  /\ pc = "mod" => html # Absent /\ header # Absent
  /\ pc \in {"save", "close", "fill"} => gzip # Absent
  /\ pc \in {"delete", "extract"} => html # Absent
  /\ resp \in Stamp \cup {Absent} /\ buffer \in Seq(Items) /\ rc \in {0, -1}
  /\ faults \in 0 .. MaxFaults /\ killed \in BOOLEAN

Nothing == [n \in Names |-> Blank]

Init ==
  /\ menu = 1
  /\ html = Absent /\ gzip = Absent /\ header = Absent
  /\ table = <<>> /\ outside = 0
  /\ installed = FALSE /\ created = FALSE /\ window = FALSE
  /\ tree = <<>> /\ retainHash = Nothing
  /\ pc = "idle" /\ resp = Absent /\ buffer = <<>> /\ rc = 0
  /\ faults = 0 /\ killed = FALSE

Goto(from, to) == pc = from /\ pc' = to

Fault(kind) ==
  /\ kind \in Faults
  /\ faults < MaxFaults
  /\ faults' = faults + 1

Prefix(s) == {SubSeq(s, 1, n) : n \in 0 .. Len(s)}

(***************************************************************************)
(* Reading the page and the table                                          *)
(***************************************************************************)
(* A board belongs to the last heading before it that is not excluded, so  *)
(* the boards under an excluded heading go to the category above it; those *)
(* before the first heading are left out.                                  *)
Headings(page, i) == {j \in 1 .. i : page[j] \in Categories \ Excluded}

RowAt(page, i) ==
  [board |-> page[i], category |-> page[Max(Headings(page, i))]]

FindBoardInfo(page) ==
  LET found == {i \in 1 .. Len(page) : page[i] \in Boards /\ Headings(page, i) # {}}
      order == Ascending(found)
  IN  [n \in 1 .. Len(order) |-> RowAt(page, order[n])]

(* The loop reads a row, then asks for the next one; the first request     *)
(* after a query yields the first row, which is read twice.  A table that  *)
(* does not exist is read as an empty one: the exception is caught.        *)
GetBoardInfo(t) == IF t = <<>> THEN <<>> ELSE <<t[1]>> \o t

(* The last row of a name wins.                                            *)
PlacesOf(t, name) == {i \in 1 .. Len(t) : NameOf[t[i].board] = name}
HashOf(t) ==
  [n \in Names |->
     IF PlacesOf(t, n) = {} THEN Blank ELSE t[Max(PlacesOf(t, n))].board]

Hits(s, keyword) == {i \in 1 .. Len(s) : NameOf[s[i].board] \in keyword}
RunStarts(s) == {i \in 1 .. Len(s) : i = 1 \/ s[i - 1].category # s[i].category}

(* Mutant: the category is remembered of rows that do not match, too.      *)
MatchingRowsAnyBefore(t, keyword) ==
  LET all == GetBoardInfo(t)
  IN  Picked(all, Hits(all, keyword) \cap RunStarts(all))

(* Of the boards that match the keyword, one is shown for each run of rows *)
(* of the same category.                                                   *)
MatchingRows(t, keyword) ==
  LET all  == GetBoardInfo(t)
      hits == Picked(all, Hits(all, keyword))
  IN  Picked(hits, RunStarts(hits))

(***************************************************************************)
(* The server                                                              *)
(***************************************************************************)
MenuChanges ==
  /\ menu < Len(Menus)
  /\ menu' = menu + 1
  /\ UNCHANGED <<files, rows, home, view, pc, call, faults, killed>>

(***************************************************************************)
(* The download                                                            *)
(***************************************************************************)
(* Mutant: the header alone decides.                                       *)
DownloadBoardListOnHeader ==
  /\ IF header = Absent
     THEN pc' = "new" /\ gzip' = <<>>
     ELSE pc' = "mod" /\ UNCHANGED gzip
  /\ resp' = Absent /\ buffer' = <<>> /\ rc' = 0
  /\ UNCHANGED <<html, header>>

(* Without the page or its header everything is fetched, into a gzip file  *)
(* that is opened first; with both, only what is newer, into a temporary   *)
(* file that replaces the gzip file later and is not a variable.           *)
DownloadBoardList ==
  /\ IF html = Absent \/ header = Absent
     THEN pc' = "new" /\ gzip' = <<>>
     ELSE pc' = "mod" /\ UNCHANGED gzip
  /\ resp' = Absent /\ buffer' = <<>> /\ rc' = 0
  /\ UNCHANGED <<html, header>>

(* An ofstream has some of its contents in the file and buffers the rest   *)
(* until it is closed.                                                     *)
WriteGzip(contents) ==
  \E n \in 0 .. Len(contents) :
    /\ gzip' = SubSeq(contents, 1, n)
    /\ buffer' = SubSeq(contents, n + 1, Len(contents))

Answer ==
  /\ pc = "new" \/ (pc = "mod" /\ header # menu)
  /\ pc' = "save"
  /\ WriteGzip(Page)
  /\ resp' = menu
  /\ UNCHANGED <<menu, html, header, rows, home, view, rc, faults, killed>>

NotModified ==
  /\ pc = "mod" /\ header = menu
  /\ pc' = "open"
  /\ UNCHANGED <<menu, files, rows, home, view, call, faults, killed>>

(* Mutant: the time of the answer is stored, for an error page too.        *)
ErrorPageDated ==
  /\ pc \in {"new", "mod"}
  /\ Fault("busy")
  /\ pc' = "save"
  /\ gzip' = <<>> /\ buffer' = <<>>
  /\ resp' = menu
  /\ UNCHANGED <<menu, html, header, rows, home, view, rc, killed>>

(* No status but 304 is looked at: the error page becomes the list.        *)
ErrorPage ==
  /\ pc \in {"new", "mod"}
  /\ Fault("busy")
  /\ pc' = "save"
  /\ gzip' = <<>> /\ buffer' = <<>>
  /\ resp' = NoStamp
  /\ UNCHANGED <<menu, html, header, rows, home, view, rc, killed>>

(* Mutant: the header lines that arrived before the break are stored.      *)
BrokenSaves ==
  /\ pc \in {"new", "mod"}
  /\ Fault("timeout")
  /\ pc' = "save"
  /\ IF pc = "new" THEN gzip' \in Prefix(Page) ELSE gzip' = <<>>
  /\ resp' = menu
  /\ rc' = -1
  /\ UNCHANGED <<menu, html, header, rows, home, view, buffer, killed>>

Broken ==
  /\ pc \in {"new", "mod"}
  /\ Fault("timeout")
  /\ pc' = "open"
  /\ IF pc = "new" THEN gzip' \in Prefix(Page) ELSE UNCHANGED gzip
  /\ rc' = -1
  /\ UNCHANGED <<menu, html, header, rows, home, view, resp, buffer, killed>>

SaveHeader ==
  /\ Goto("save", "close")
  /\ header' = resp
  /\ UNCHANGED <<menu, html, gzip, rows, home, view, call, faults, killed>>

CloseGzip ==
  /\ Goto("close", "open")
  /\ gzip' = gzip \o buffer /\ buffer' = <<>>
  /\ UNCHANGED <<menu, html, header, rows, home, view, resp, rc, faults, killed>>

(* The gzip file, of this or of an interrupted update, is decompressed and *)
(* converted; the ofstream truncates the old page first.                   *)
OpenHtml ==
  /\ pc = "open"
  /\ IF gzip = Absent
     THEN pc' = "remove" /\ UNCHANGED html
     ELSE pc' = "fill" /\ html' \in Prefix(gzip)
  /\ UNCHANGED <<menu, gzip, header, rows, home, view, call, faults, killed>>

ConvertSJISToUTF8 ==
  /\ Goto("fill", "remove")
  /\ html' = gzip
  /\ UNCHANGED <<menu, gzip, header, rows, home, view, call, faults, killed>>

(* Mutant: the result of the download is not looked at.                    *)
RemoveTmpFileAnyway ==
  /\ Goto("remove", "delete")
  /\ gzip' = Absent
  /\ UNCHANGED <<menu, html, header, rows, home, view, call, faults, killed>>

(* After a failure there is a message box, and the first start goes on to  *)
(* open the window.                                                        *)
RemoveTmpFile ==
  /\ pc = "remove"
  /\ pc' = IF rc = 0 THEN "delete" ELSE IF window THEN "idle" ELSE "show"
  /\ gzip' = Absent
  /\ UNCHANGED <<menu, html, header, rows, home, view, call, faults, killed>>

(***************************************************************************)
(* The table, emptied and filled in two transactions, and the view         *)
(***************************************************************************)
(* Without the table every statement throws; each function catches the     *)
(* exception, shows it, and its caller goes on.                            *)
StoreRows(t, own) ==
  \/ created /\ table' = t /\ outside' = own
  \/ ~created /\ UNCHANGED rows

DeleteTableData ==
  /\ Goto("delete", "extract")
  /\ StoreRows(<<>>, 0)
  /\ UNCHANGED <<menu, files, home, view, call, faults, killed>>

(* A page without a root element is not committed; the table is empty then *)
(* as it is after the commit of no rows.                                   *)
SetBoardInfoCommit ==
  /\ Goto("extract", "show")
  /\ StoreRows(FindBoardInfo(html), 0)
  /\ UNCHANGED <<menu, files, home, view, call, faults, killed>>

SetBoardList(t, updateHash) ==
  /\ tree' = GetBoardInfo(t)
  /\ retainHash' = IF updateHash THEN HashOf(GetBoardInfo(t)) ELSE retainHash

(* The end of an update, and of every start: Initialize2chBoardList does   *)
(* for a new window what SetBoardList does for an open one.                *)
ShowBoards ==
  /\ Goto("show", "idle")
  /\ window' = TRUE
  /\ SetBoardList(table, TRUE)
  /\ UNCHANGED <<menu, files, rows, home, call, faults, killed>>

(***************************************************************************)
(* The user                                                                *)
(***************************************************************************)
Ready == window /\ pc = "idle"

OnGetBoardList ==
  /\ Ready
  /\ DownloadBoardList
  /\ UNCHANGED <<menu, rows, home, view, faults, killed>>

(* Mutant: retainHash is not brought up to date.                           *)
CallNewBoardAddDialogTreeOnly(added) ==
  /\ Ready
  /\ StoreRows(table \o added, outside + Len(added))
  /\ SetBoardList(table', FALSE)
  /\ UNCHANGED <<menu, files, home, window, pc, call, faults, killed>>

(* The dialog is modal; cancelled, or with a field left empty, it adds no  *)
(* row, and the boards are shown anew all the same.                        *)
CallNewBoardAddDialog(added) ==
  /\ Ready
  /\ StoreRows(table \o added, outside + Len(added))
  /\ SetBoardList(table', TRUE)
  /\ UNCHANGED <<menu, files, home, window, pc, call, faults, killed>>

Additions ==
  {<<>>} \cup IF outside < MaxOutside THEN {<<r>> : r \in OutsideRows} ELSE {}

SearchBoardTree(keyword) ==
  /\ Ready
  /\ tree' = MatchingRows(table, keyword)
  /\ UNCHANGED <<menu, files, rows, home, window, retainHash, pc, call, faults, killed>>

SearchBoxClear ==
  /\ Ready
  /\ SetBoardList(table, FALSE)
  /\ UNCHANGED <<menu, files, rows, home, window, pc, call, faults, killed>>

(* Every start begins with CREATE TABLE IF NOT EXISTS in a database inside *)
(* ~/.xb.  The first start makes this directory only afterwards, so that   *)
(* the statement fails and its session has no tables; it then fetches the  *)
(* list before the window opens, which no later start does.                *)
OnInit ==
  /\ ~window /\ pc = "idle"
  /\ created' = (created \/ installed)
  /\ installed' = TRUE
  /\ IF installed THEN pc' = "show" /\ UNCHANGED <<files, call>> ELSE DownloadBoardList
  /\ UNCHANGED <<menu, rows, view, faults, killed>>

Gone == window' = FALSE /\ tree' = <<>> /\ retainHash' = Nothing

(* The first session cannot save its tabs: that exception is not caught,   *)
(* and the process is gone all the same.                                   *)
OnCloseWindow ==
  /\ Ready
  /\ Gone
  /\ UNCHANGED <<menu, files, rows, home, pc, call, faults, killed>>

Kill ==
  /\ pc # "idle"
  /\ Fault("kill")
  /\ pc' = "idle" /\ buffer' = <<>>
  /\ Gone
  /\ killed' = TRUE
  /\ UNCHANGED <<menu, files, rows, home, resp, rc>>

Update ==
  \/ Answer \/ NotModified \/ ErrorPage \/ Broken
  \/ SaveHeader \/ CloseGzip
  \/ OpenHtml \/ ConvertSJISToUTF8 \/ RemoveTmpFile
  \/ DeleteTableData \/ SetBoardInfoCommit \/ ShowBoards

User ==
  \/ OnInit \/ OnGetBoardList \/ OnCloseWindow
  \/ \E added \in Additions : CallNewBoardAddDialog(added)
  \/ \E keyword \in Keywords : SearchBoardTree(keyword)
  \/ SearchBoxClear

Next == MenuChanges \/ Update \/ User \/ Kill

(* What has been started goes on, a closed application is started again,   *)
(* and the user asks for an update time and again.                         *)
Fairness == WF_vars(Update) /\ WF_vars(OnInit) /\ SF_vars(OnGetBoardList)

Spec == Init /\ [][Next]_vars
FairSpec == Spec /\ Fairness
-----------------------------------------------------------------------------
(* Whatever was added, searched for or updated, a board in the tree opens  *)
(* at the address that the table has for it: retainHash is never older     *)
(* than the rows on the screen.                                            *)
TreeOpensBoards ==
  Ready => \A i \in 1 .. Len(tree) :
    \E j \in 1 .. Len(table) :
      /\ retainHash[NameOf[tree[i].board]] = table[j].board
      /\ NameOf[tree[i].board] = NameOf[table[j].board]

(* The stored date speaks for the stored page: as long as no update was    *)
(* killed, whatever connections broke, a 304 means that nothing is missing.*)
DateMatchesPage ==
  pc = "idle" /\ ~killed /\ header \notin {Absent, NoStamp} => html = Menus[header]

(* The table never holds part of a page: as long as no update was killed   *)
(* its rows are those of one version of the page, or of an error page, and *)
(* then the user's own.                                                    *)
NoHalfList ==
  pc = "idle" /\ ~killed =>
    SubSeq(table, 1, Len(table) - outside)
      \in {<<>>} \cup {FindBoardInfo(Menus[n]) : n \in 1 .. Len(Menus)}

(* Every category in which the keyword occurs is in the tree after a       *)
(* search, and no other: the search never looks only at the first board of *)
(* a category.                                                             *)
CategoriesOf(s) == {s[i].category : i \in 1 .. Len(s)}
SearchFindsCategories ==
  [][\A keyword \in Keywords : SearchBoardTree(keyword) =>
       CategoriesOf(tree') =
         {r.category : r \in {q \in ToSet(table) : NameOf[q.board] \in keyword}}]_vars

(* In every session but the first, the boards of a page that stays are     *)
(* known in the end to a user who keeps asking, if no update is killed,    *)
(* however often connections broke or error pages came before, and though  *)
(* the first session downloaded the page without a table to put it in.  In *)
(* that session itself, which lasts while ~created, no number of updates   *)
(* shows a board, although NEWS:130 has this fixed.                        *)
Listed(n) ==
  \A i \in 1 .. Len(FindBoardInfo(Menus[n])) :
    \E b \in Boards :
      /\ b = retainHash[NameOf[FindBoardInfo(Menus[n])[i].board]]
      /\ \E j \in 1 .. Len(Menus[n]) : Menus[n][j] = b
BoardsCatchUp ==
  \A n \in 1 .. Len(Menus) : menu = n /\ created ~> (menu # n \/ killed \/ Listed(n))
=============================================================================
