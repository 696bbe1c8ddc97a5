----------------------------- MODULE ThreadList -----------------------------
(***************************************************************************)
(* The lists of threads: SocketCommunication::DownloadThreadList, which    *)
(* keeps a .dat and a .header file for every board, VirtualBoardListCtrl,  *)
(* which compares a list with the previous one, and the two notebooks of   *)
(* class XrossBoard as far as a list changes them: the tabs of boards, and *)
(* the icons on the tabs of threads, which tell the user of new responses. *)
(*                                                                         *)
(* The gzip file is truncated before every request, so nothing of it, nor  *)
(* of the .sjis file made from it, is left over for the next call.         *)
(*                                                                         *)
(* Init is a start after the first one: ~/.xb and the tables are there, so *)
(* a tab may come back.  In the first session no tab is recorded (Boards). *)
(***************************************************************************)
EXTENDS Integers, SequencesExt

CONSTANTS
  Boards,       (* boards, each known to retainHash                        *)
  Threads,      (* threads                                                 *)
  BoardOf,      (* the board of every thread                               *)
  Subjects,     (* the versions of subject.txt of every board              *)
  Full,         (* the number of responses a thread can have, 1000         *)
  Read,         (* bound: the threads the user opens                       *)
  Faults,       (* the kinds of fault that occur                           *)
  MaxFaults,    (* bound: faults of all kinds together                     *)
  Absent        (* a file that does not exist                              *)

(* timeout  the connection fails or the transfer stops: curlpp throws      *)
(* busy     the server answers with an error page                          *)
(* kill     the process ends without warning                               *)
FaultKinds == {"timeout", "busy", "kill"}

(* A list gives every thread its number of responses, 0 if it has no line. *)
List == [Threads -> 0 .. Full]

ASSUME ListsAssumption ==
  /\ IsFiniteSet(Boards)
  /\ Full \in Nat \ {0}
  /\ BoardOf \in [Threads -> Boards]
  /\ Subjects \in [Boards -> Seq(List)]
  /\ \A b \in Boards : /\ Subjects[b] # <<>>
                       /\ \A n \in 1 .. Len(Subjects[b]), t \in Threads :
                            BoardOf[t] # b => Subjects[b][n][t] = 0
  /\ Absent \notin List /\ Absent \notin Nat
ASSUME LimitsAssumption ==
  Read \subseteq Threads /\ Faults \subseteq FaultKinds /\ MaxFaults \in Nat

VARIABLES
  ver,          (* the version of subject.txt the server has               *)
  list,         (* the .dat file of every board                            *)
  header,       (* the Last-Modified of every header file                  *)
  tabs,         (* boardNoteBook: the boards that have a page              *)
  rows,         (* m_vBoardList of every board's page                      *)
  window,       (* the main window exists                                  *)
  open,         (* the threads that have a tab                             *)
  log,          (* the responses in every thread's .dat file               *)
  icon,         (* the icon on the tab of every open thread                *)
  pc,           (* where the update is                                     *)
  cur,          (* the board it is for                                     *)
  old,          (* oldThreadMap                                            *)
  gzip,         (* the body received                                       *)
  resp,         (* the Last-Modified received                              *)
  todo,         (* what ReloadAllBoard has left to do                      *)
  faults        (* faults so far                                           *)

files   == <<list, header>>
notebook == <<tabs, rows>>
threads == <<open, log, icon>>
call    == <<cur, old, gzip, resp, todo>>
vars == <<ver, files, notebook, window, threads, pc, call, faults>>

NoStamp  == 0    (* a stored answer without a Last-Modified line           *)
Stamp(b) == NoStamp .. Len(Subjects[b])
NoLog    == -1   (* a thread without a .dat file                           *)
None     == [t \in Threads |-> 0]
Served   == Subjects[cur][ver[cur]]

(* THREAD_STATE_NEW and so on; "new", "add" and "drop" are also the icons  *)
(* of a thread's tab.                                                      *)
States == {"normal", "new", "add", "drop"}
Row    == [res : 0 .. Full, cached : 0 .. Full, state : States]
NoRow  == [res |-> 0, cached |-> 0, state |-> "normal"]
NoPage == [t \in Threads |-> NoRow]

PCs == {"idle", "new", "mod", "save", "convert", "show", "all"}

TypeOK ==
  /\ ver \in [Boards -> Nat \ {0}] /\ \A b \in Boards : ver[b] <= Len(Subjects[b])
  /\ list \in [Boards -> List \cup {Absent}]
  /\ \A b \in Boards : header[b] \in Stamp(b) \cup {Absent}
  /\ tabs \subseteq Boards /\ \A b \in tabs : list[b] # Absent
  /\ rows \in [Boards -> [Threads -> Row]]
  /\ window \in BOOLEAN
  /\ open \subseteq Threads /\ log \in [Threads -> NoLog .. Full]
  /\ \A t \in open : log[t] # NoLog
  /\ icon \in [Threads -> {"new", "add", "drop"}]
  /\ pc \in PCs /\ (pc \in {"idle", "all"} \/ cur \in Boards)
  /\ old \in List /\ gzip \in List
  /\ pc = "mod" => list[cur] # Absent /\ header[cur] # Absent
  /\ pc = "show" => list[cur] # Absent
  /\ resp # Absent => resp \in Stamp(cur)
  /\ todo \in Seq(Boards) /\ (pc = "all" => todo # <<>>)
  /\ faults \in 0 .. MaxFaults

Init ==
  /\ ver = [b \in Boards |-> 1]
  /\ list = [b \in Boards |-> Absent] /\ header = [b \in Boards |-> Absent]
  /\ tabs = {} /\ rows = [b \in Boards |-> NoPage]
  /\ window = FALSE
  /\ open = {} /\ log = [t \in Threads |-> NoLog] /\ icon = [t \in Threads |-> "new"]
  /\ pc = "idle" /\ cur = Absent /\ old = None /\ gzip = None /\ resp = Absent
  /\ todo = <<>> /\ faults = 0

Fault(kind) ==
  /\ kind \in Faults
  /\ faults < MaxFaults
  /\ faults' = faults + 1

(* What is left of a list when only some of its lines arrive.              *)
Parts(l) ==
  {[t \in Threads |-> IF t \in T THEN l[t] ELSE 0] : T \in SUBSET {t \in Threads : l[t] > 0}}

(***************************************************************************)
(* The server                                                              *)
(***************************************************************************)
SubjectChanges(b) ==
  /\ ver[b] < Len(Subjects[b])
  /\ ver' = [ver EXCEPT ![b] = @ + 1]
  /\ UNCHANGED <<files, notebook, window, threads, pc, call, faults>>

(***************************************************************************)
(* The download                                                            *)
(***************************************************************************)
(* Mutant: the header alone decides.                                       *)
SetBoardNameOnHeader(b) ==
  /\ cur' = b
  /\ old' = IF list[b] = Absent THEN None ELSE list[b]
  /\ pc' = IF header[b] = Absent THEN "new" ELSE "mod"
  /\ gzip' = None /\ resp' = Absent

(* The previous list is read first; then, without the list or its header,  *)
(* everything is fetched, with both only what is newer.                    *)
SetBoardNameToNoteBook(b) ==
  /\ cur' = b
  /\ old' = IF list[b] = Absent THEN None ELSE list[b]
  /\ pc' = IF list[b] = Absent \/ header[b] = Absent THEN "new" ELSE "mod"
  /\ gzip' = None /\ resp' = Absent

(* Mutant: the previous list is read after the download.                   *)
AnswerBeforeOld ==
  /\ pc = "new" \/ (pc = "mod" /\ header[cur] # ver[cur])
  /\ pc' = "save"
  /\ gzip' = Served /\ resp' = ver[cur] /\ old' = Served
  /\ UNCHANGED <<ver, files, notebook, window, threads, cur, todo, faults>>

Answer ==
  /\ pc = "new" \/ (pc = "mod" /\ header[cur] # ver[cur])
  /\ pc' = "save"
  /\ gzip' = Served /\ resp' = ver[cur]
  /\ UNCHANGED <<ver, files, notebook, window, threads, cur, old, todo, faults>>

(* 304 is no case of its own: the empty body replaces the list, and its    *)
(* header lines, with a date or without, replace the header.               *)
NotModified ==
  /\ pc = "mod" /\ header[cur] = ver[cur]
  /\ pc' = "save"
  /\ gzip' = None /\ resp' \in {NoStamp, ver[cur]}
  /\ UNCHANGED <<ver, files, notebook, window, threads, cur, old, todo, faults>>

(* A page without a line that reads like a thread.                         *)
ErrorPage ==
  /\ pc \in {"new", "mod"}
  /\ Fault("busy")
  /\ pc' = "save"
  /\ gzip' = None /\ resp' = NoStamp
  /\ UNCHANGED <<ver, files, notebook, window, threads, cur, old, todo>>

(* Mutant: the header lines that arrived before the break are stored.      *)
BrokenSaves ==
  /\ pc \in {"new", "mod"}
  /\ Fault("timeout")
  /\ pc' = "save"
  /\ gzip' \in Parts(Served) /\ resp' = ver[cur]
  /\ UNCHANGED <<ver, files, notebook, window, threads, cur, old, todo>>

(* The result is not looked at: what has arrived becomes the list.         *)
Broken ==
  /\ pc \in {"new", "mod"}
  /\ Fault("timeout")
  /\ pc' = "convert"
  /\ gzip' \in Parts(Served)
  /\ UNCHANGED <<ver, files, notebook, window, threads, cur, old, resp, todo>>

SaveHeader ==
  /\ pc = "save" /\ pc' = "convert"
  /\ header' = [header EXCEPT ![cur] = resp]
  /\ UNCHANGED <<ver, list, notebook, window, threads, call, faults>>

Convert ==
  /\ pc = "convert" /\ pc' = "show"
  /\ list' = [list EXCEPT ![cur] = gzip]
  /\ UNCHANGED <<ver, header, notebook, window, threads, call, faults>>
-----------------------------------------------------------------------------
(***************************************************************************)
(* The page of a board                                                     *)
(***************************************************************************)
(* hasOldData is TRUE with a previous list and not set without one.        *)
RowOf(res, before, hasOldData) ==
  IF res = 0 THEN NoRow
  ELSE [res    |-> res,
        cached |-> IF hasOldData THEN before ELSE res,
        state  |-> IF res = Full THEN "drop"
                   ELSE IF ~hasOldData \/ res = before THEN "normal"
                   ELSE IF before = 0 THEN "new" ELSE "add"]

FileLoadMethod2ch(l, before) ==
  {[t \in Threads |-> RowOf(l[t], before[t], hasOldData)] :
     hasOldData \in IF before = None THEN BOOLEAN ELSE {TRUE}}

(* With the stub NO_NEED_TO_CHK_THREAD_STATE every thread is normal.       *)
RestoredRows(l) ==
  [t \in Threads |-> [res |-> l[t], cached |-> 0, state |-> "normal"]]

(* Mutant: the counter starts with two.                                    *)
ResponseNumsTwoMore(t) == IF log[t] = 0 THEN 0 .. Full ELSE {log[t] + 2}

(* GetCurrentThreadResponseNum: one more than the tab shows, because the   *)
(* counter is advanced before it is kept, and not set for an empty log.    *)
ResponseNums(t) == IF log[t] = 0 THEN 0 .. Full ELSE {log[t] + 1}

(* Mutant: the state of the row is taken for that of the tab.              *)
IconsForRows(t, row) ==
  IF BoardOf[t] # cur \/ t \notin open THEN {icon[t]}
  ELSE IF row.res = 0 THEN {"drop"}
  ELSE {IF row.state = "add" THEN "add" ELSE icon[t]}

(* Mutant: the board of the thread is not compared.                        *)
IconsOfAllBoards(t, row) ==
  IF t \notin open THEN {icon[t]}
  ELSE IF row.res = 0 THEN {"drop"}
  ELSE {IF row.res > n THEN "add" ELSE icon[t] : n \in ResponseNums(t)}

(* Threads of the board just updated: not in the list, dropped; with more  *)
(* responses than the tab is said to have, "+"; otherwise left as it was.  *)
IconsAfter(t, row) ==
  IF BoardOf[t] # cur \/ t \notin open THEN {icon[t]}
  ELSE IF row.res = 0 THEN {"drop"}
  ELSE {IF row.res > n THEN "add" ELSE icon[t] : n \in ResponseNums(t)}

UpdateThreadTabIcons(page) ==
  icon' \in {i \in [Threads -> {"new", "add", "drop"}] :
               \A t \in Threads : i[t] \in IconsAfter(t, page[t])}

(* The variables of a call are gone when it returns.                       *)
Returned == cur' = Absent /\ old' = None /\ gzip' = None /\ resp' = Absent

ShowTab(b, page) == tabs' = tabs \cup {b} /\ rows' = [rows EXCEPT ![b] = page]

(* The list as the file now has it, compared with the previous one.        *)
SetThreadListItem ==
  /\ pc = "show"
  /\ pc' = IF todo = <<>> THEN "idle" ELSE "all"
  /\ \E page \in FileLoadMethod2ch(list[cur], old) :
       ShowTab(cur, page) /\ UpdateThreadTabIcons(page)
  /\ Returned
  /\ UNCHANGED <<ver, files, window, open, log, todo, faults>>
-----------------------------------------------------------------------------
(***************************************************************************)
(* The user                                                                *)
(***************************************************************************)
Ready == window /\ pc = "idle"

OnGetBoardInfo(b) ==
  /\ Ready
  /\ SetBoardNameToNoteBook(b)
  /\ UNCHANGED <<ver, files, notebook, window, threads, todo, faults>>

ReloadOneBoard == \E b \in tabs : OnGetBoardInfo(b)

ReloadAllBoard ==
  /\ Ready /\ tabs # {}
  /\ pc' = "all" /\ todo' \in SetToSeqs(tabs)
  /\ UNCHANGED <<ver, files, notebook, window, threads, cur, old, gzip, resp, faults>>

ReloadNextBoard ==
  /\ pc = "all"
  /\ SetBoardNameToNoteBook(Head(todo))
  /\ todo' = Tail(todo)
  /\ UNCHANGED <<ver, files, notebook, window, threads, faults>>

(* Any of the ways to close tabs: one, all the others, those to the left.  *)
CloseBoardTabs ==
  /\ Ready /\ tabs # {}
  /\ tabs' \in SUBSET tabs \ {tabs}
  /\ rows' = [b \in Boards |-> IF b \in tabs' THEN rows[b] ELSE NoPage]
  /\ UNCHANGED <<ver, files, window, threads, pc, call, faults>>

(* A board that was closed comes back with the list on disk.               *)
OnUserLastClosedBoardClick(b) ==
  /\ Ready /\ b \notin tabs /\ list[b] # Absent
  /\ ShowTab(b, RestoredRows(list[b]))
  /\ UNCHANGED <<ver, files, window, threads, pc, call, faults>>

(* DownloadThread brings the log up to date or leaves it, and leaves an    *)
(* empty one if there was none (ThreadLog).                                *)
Fetch(t) ==
  LET kept   == IF log[t] = NoLog THEN 0 ELSE log[t]
      served == Subjects[BoardOf[t]][ver[BoardOf[t]]][t]
  IN  \E n \in {kept} \cup {m \in {served} : m > kept} : log' = [log EXCEPT ![t] = n]

(* One tab per thread; ThreadTabs has several.                             *)
OnLeftClickAtListCtrl2ch(t) ==
  /\ Ready /\ t \in Read \ open
  /\ rows[BoardOf[t]][t].res > 0
  /\ Fetch(t)
  /\ open' = open \cup {t} /\ icon' = [icon EXCEPT ![t] = "new"]
  /\ UNCHANGED <<ver, files, notebook, window, pc, call, faults>>

(* The tab keeps its icon.                                                 *)
ReloadThread(t) ==
  /\ Ready /\ t \in open
  /\ Fetch(t)
  /\ UNCHANGED <<ver, files, notebook, window, open, icon, pc, call, faults>>

OneThreadTabClose(t) ==
  /\ Ready /\ t \in open
  /\ open' = open \ {t} /\ icon' = [icon EXCEPT ![t] = "new"]
  /\ UNCHANGED <<ver, files, notebook, window, log, pc, call, faults>>

(* Some boards that had a tab come back with the lists on disk, and some   *)
(* threads with a .dat: which, the tables of the session say (ThreadTabs). *)
SetPreviousUserLookedTab ==
  /\ ~window /\ pc = "idle"
  /\ window' = TRUE
  /\ tabs' \in SUBSET {b \in Boards : list[b] # Absent}
  /\ rows' = [b \in Boards |-> IF b \in tabs' THEN RestoredRows(list[b]) ELSE NoPage]
  /\ open' \in SUBSET {t \in Read : log[t] # NoLog}
  /\ UNCHANGED <<ver, files, log, icon, pc, call, faults>>

Gone ==
  /\ window' = FALSE
  /\ tabs' = {} /\ rows' = [b \in Boards |-> NoPage]
  /\ open' = {} /\ icon' = [t \in Threads |-> "new"]

OnCloseWindow ==
  /\ Ready
  /\ Gone
  /\ UNCHANGED <<ver, files, log, pc, call, faults>>

(* While a list is converted, part of it may be in the file.               *)
Kill ==
  /\ pc # "idle"
  /\ Fault("kill")
  /\ pc' = "idle" /\ Returned /\ todo' = <<>>
  /\ Gone
  /\ \/ UNCHANGED list
     \/ /\ pc = "convert"
        /\ \E part \in Parts(gzip) : list' = [list EXCEPT ![cur] = part]
  /\ UNCHANGED <<ver, header, log>>

Update ==
  \/ Answer \/ NotModified \/ ErrorPage \/ Broken
  \/ SaveHeader \/ Convert \/ SetThreadListItem \/ ReloadNextBoard

User ==
  \/ \E b \in Boards : OnGetBoardInfo(b) \/ OnUserLastClosedBoardClick(b)
  \/ ReloadOneBoard \/ ReloadAllBoard
  \/ CloseBoardTabs
  \/ \E t \in Threads :
       OnLeftClickAtListCtrl2ch(t) \/ ReloadThread(t) \/ OneThreadTabClose(t)
  \/ SetPreviousUserLookedTab \/ OnCloseWindow

Next == (\E b \in Boards : SubjectChanges(b)) \/ Update \/ User \/ Kill

(* What has been started goes on, a closed application is started again,   *)
(* and the user looks at every board time and again.                       *)
Fairness ==
  /\ WF_vars(Update) /\ WF_vars(SetPreviousUserLookedTab)
  /\ \A b \in Boards : SF_vars(OnGetBoardInfo(b))

Spec == Init /\ [][Next]_vars
FairSpec == Spec /\ Fairness
-----------------------------------------------------------------------------
(* A tab is marked as dropped only if the board of its thread no longer    *)
(* lists it, or if the list that was kept of this board is not the         *)
(* server's: the update of another board never marks it.                   *)
DropMeansGone ==
  [][\A t \in Threads :
       icon[t] # "drop" /\ icon'[t] = "drop" =>
         \/ Subjects[BoardOf[t]][ver[BoardOf[t]]][t] = 0
         \/ list[BoardOf[t]] # Subjects[BoardOf[t]][ver[BoardOf[t]]]]_vars

(* What an update counts as new is what was not on the screen before it:   *)
(* the numbers of the previous list are those its tab shows.               *)
ComparedWithScreen ==
  [][\A b \in tabs :
       SetThreadListItem /\ cur = b /\ (\E t \in Threads : rows[b][t].res > 0) =>
         \A t \in Threads :
           rows'[b][t].res > 0 => rows'[b][t].cached = rows[b][t].res]_vars

(* "+" appears only on a tab that lacks responses the server has had,      *)
(* however the thread's log and the board's list were fetched in turn.     *)
Posted(t) ==
  {Subjects[BoardOf[t]][n][t] : n \in 1 .. ver[BoardOf[t]]}
PlusMeansNews ==
  [][\A t \in Threads :
       icon[t] # "add" /\ icon'[t] = "add" => \E n \in Posted(t) : n > log[t]]_vars

(* As long as the stored date is not that of the server's list, a user who *)
(* keeps looking is shown this list in the end, whatever connections broke *)
(* and error pages came before, unless it changes or the window closes.    *)
ListSeen ==
  \A b \in Boards : \A n \in 1 .. Len(Subjects[b]) :
    (window /\ ver[b] = n /\ header[b] # n)
      ~> (~window \/ ver[b] # n
            \/ (b \in tabs /\ \A t \in Threads : rows[b][t].res = Subjects[b][n][t]))

(* A tab that lacks two responses or more gets its "+" in the end, even if *)
(* a broken connection first marked it as dropped, unless it is closed or  *)
(* brought up to date.  (One response alone is not noticed: ResponseNums.) *)
Lacking(t, n) == Subjects[BoardOf[t]][ver[BoardOf[t]]][t] >= log[t] + n
NewsNoticed ==
  \A t \in Read :
    /\ t \in open /\ log[t] > 0 /\ Lacking(t, 2)
    /\ header[BoardOf[t]] # ver[BoardOf[t]]
    ~> t \notin open \/ icon[t] = "add" \/ ~Lacking(t, 2)
=============================================================================
