# XrossBoard in TLA+

XrossBoard is a reader for the bulletin boards of 2ch, written in C++ with
wxWidgets, curlpp and SQLite. These modules model its logic: how the list of
boards, the lists of threads and the logs of threads are fetched and kept on
disk, how the notebooks of open boards and threads and the tables beside them
stay together, how a reply is posted, and how the images and anchors of a thread
are shown. TLC checks them on small instances; TLAPS proves the safety properties
of those runs for every instance.

    tlc -config log_faults.cfg MCThreadLog.tla     # any run: see "The runs"
    tlapm ThreadLogProofs.tla                      # any of the *Proofs modules

Contents: [inventory](#inventory), [plan](#plan), [modules and
code](#modules-and-code), [runs](#the-runs), [bounds and
fairness](#bounds-and-fairness), [proofs](#proofs), [what is not
modelled](#what-is-not-modelled), [findings](#findings).

## Inventory

Everything of interest runs in one GUI thread. Concurrency enters in six ways:

* **events**: `XrossBoardUiUtil::QueueEventHelper` puts a command into the wx
  queue; it runs after whatever the user clicks in between;
* **modeless windows**: any number of reply windows and the image viewer stay
  open beside the main window and share static members and the property file;
* **the network**: curl blocks the GUI thread until the transfer ends, breaks or
  times out; the server changes meanwhile;
* **nested handlers**: images come through `wxHTTP`, which dispatches events
  while it waits, so that one click's handler runs inside another's;
* **the end of the process**: a blocked window is killed by its user between any
  two writes; files, property file and SQLite tables remain as they are;
* **loops over widgets that change under them**: closing several tabs deletes
  pages of the notebook the loop counts over, and each deletion calls a handler.

| Component | State | Operations | Talks to | Hard behaviours | Makes it correct |
|---|---|---|---|---|---|
| Thread log (`socketcommunication.cpp` 603–1134, `xrossboardutil.cpp`): **ThreadLog**, **ThreadMirror** | `.dat`, `.sjis`, `.gzip`, `.header` of a thread; `respBuf`, `bodyBuf` | `DownloadThread` and its New, Mod and Past branches, `DecommpressFile`, `ConvertSJISToUTF8`, `RemoveTmpFile`, `DeleteDatFile` | 2ch server; called by the tabs | broken transfers, kills between writes, buffered streams, wrong statuses | the log is the thread as far as fetched, nothing shown is lost, nothing stays hidden |
| Thread tabs and session (`xrossboard.cpp`, `sqliteaccessor.cpp`): **ThreadTabs** | `threadNoteBook`, `tiHash`, tree of threads being read, `USER_CLOSED_THREADLIST`, `USER_LOOKING_THREADLIST` | open, select, close (one, others, left, right, all, mouse), reload, reopen, exit, restore | thread log, reply windows (queued reload), board list | queued events against clicks, loops over a shrinking notebook, kills at exit | tab, title and thread belong together; closed and open threads come back |
| Posting and cookies (`responsewindow.cpp`, `socketcommunication.cpp` 1139–1843): **Posting** | HiddenName, HiddenValue, Cookie-PON, Cookie-HAP, PREN in the property file | `CheckCookie`, first, confirming and ordinary post, `WriteHeaderData`, `WriteCookieData` | bbs.cgi; tabs (reload) | lost answers and retries, half-stored answers, several windows | no double post by the program, no consent unseen, every message posted in the end |
| Board list (`socketcommunication.cpp` 86–320, `extractboardlist.cpp`, `sqliteaccessor.cpp`): **Boards** | table BOARD_INFO, `retainHash`, the tree, three menu files | download new or modified, extract, commit, add outside board, search, first start | menu server, SQLite | commit replaces everything; failure between delete and insert | the tree opens what it names, a failed update leaves the old list |
| Thread list of a board (`virtualboardlistctrl.cpp`, `socketcommunication.cpp` 324–600): **ThreadList** | `m_vBoardList`, `subject.txt` and its header, icons of thread tabs | load, compare with the previous list, update, mark tabs; sort and search (not modelled) | tabs, thread log | uninitialised flag, 304 taken for a list, previous file missing | new, grown and lost threads are told apart; news are noticed |
| Board tabs (`xrossboard.cpp` 1359–1892): **ThreadList** | `boardNoteBook` | open, update one or all, close, reopen, restore | thread list | same loops as the thread tabs | a page shows the list it says it shows |
| Anchors (`xrossboardutil.cpp` 163–383, popups): **Anchors**, **ThreadWindow** | none; reads the `.dat` | `FindAnchoredResponse`, popups by ID and index, decoration | thread window | ranges at their ends, an index past the last line | the responses an anchor names, and no others |
| Image cache and viewer (`xrossboardimageviewer.cpp`, `imagepanel.cpp`, `socketcommunication.cpp` 1846–2146): **ImageViewer** | cache files, CACHED_IMAGE table, `thumbnailNoteBook`, its Freeze count, magnification | fetch, record, show, select, close, zoom, reset | SQLite, thread window | nested downloads, truncation before the connection, early return while frozen | a picture stands, a row has its file, the selection is kept |
| Settings (`settingwindow.cpp`, `otherpanels.cpp`) | `wxConfig` entries, property file | load, save | curl options | one assignment per entry | round trip |
| Shingetsu | node list | behind `USE_SHINGETSU`, unfinished | | | |
| Start-up and layout, data types, vendored libraries, command-line twitter client | | | | | not modelled, see below |

`PROJECT.json` lists the components with their status and every hazard with the
line where it bites and the properties that watch it.

## Plan

Done, in this order: **ThreadLog** (the files every other part displays, where
crashes and the network do the most harm), **ThreadTabs** (the widest
interleavings of events), **Posting** (several requests, state shared by all
windows), **Boards** and **ThreadList** (the two other conditional downloads,
whose mistakes differ from ThreadLog's and from each other's), **ImageViewer**
and **Anchors** composed by **ThreadWindow**, and **ThreadMirror**, the abstract
specification of a log, which ThreadLog implements by a refinement mapping.

**Selection** came last, with the proofs that need it: what a loop keeps of a
sequence.

Left: the sorts and the search of a thread list as operators against a
reference, and a weaker promise of the log that survives a kill.

## Modules and code

### ThreadLog

One thread on the server is the responses `1 .. posted`; a file is `Absent` or a
sequence of them, `Junk` being the body of an error page. `.dat`, `.sjis`,
`.gzip` are such sequences, `.header` is the number of responses its
Last-Modified stands for. `pc` is the place inside `DownloadThread`; each action
is a step that leaves a trace on disk or talks to the server:

| Actions | Code |
|---|---|
| `BeginNew`, `BeginMod` | the test for `.dat` and `.header` in `DownloadThread`, size of `.sjis`, request headers |
| `NewAnswer`, `NewError`, `NewBroken` | `DownloadThreadNew`: every body goes into the gzip file |
| `NotModified`, `PartialContent`, `RangeNotSatisfiable`, `FullBody`, `ModError`, `ModBroken` | the answers in `DownloadThreadMod` |
| `Append206`, `Reconvert206`, `Flush206` | its 206 branch: the stream is open while the `.dat` is rebuilt |
| `PastAnswer`, `PastError`, `PastBroken`, `SavePastHeader` | `DownloadThreadPast` |
| `SaveHeader`, `CloseGzip` | the end of the try blocks |
| `OpenSjis` … `Return` | the common end: decompress, convert, remove |
| `Post`, `Drop`, `Crash`, `DeleteDatFile` | server, operating system, user |

An `ofstream` has an arbitrary part of its contents on disk and the rest in
`buffer` until it is closed. `call` is history.

### ThreadMirror

What all of this promises a reader, in four actions and without a file: the
thread grows (`Post`), leaves the server (`Drop`), and the reader is shown a
beginning of it. Until one whole answer has been kept any beginning may replace
what is shown (`Load`: a first download that breaks starts over); from then on
it only grows (`Refresh`). `Mirror` in ThreadLog maps the files to `shown` and
`kept`: between calls the `.sjis`, during a call what it was when the call
began, because the window is blocked until then. A call is then one step, and
every step inside it a stutter.

### ThreadTabs

`pages` has the label of each tab and the thread it displays, `sel` the
selection, `tiHash` the thread of a title (`Blank` for an empty entry, which is
what `operator[]` of the hash creates). Each handler is one action; the four
loops that close several tabs and the one that restores the session take one
step per turn, with the counts the code takes before. `treeQueued` and `reloads`
are the wx events. A title is the key of everything, so the properties ask
whether title and thread still belong together.

Abstractions: the close time of a thread is stored in seconds, and no two tabs
close in the same second; every thread has a title of its own in the runs
(`TitleOf` allows more). `wxAuiNotebook` is external: which page is selected
after a deletion.

### Posting

A cookie or hidden item is the version of the server's terms it came with, 0 if
missing. `OnPostResponse` chooses the kind of post with `CheckCookie`, `Answer`
is bbs.cgi, `WriteHeaderData` stores cookies while header lines arrive, `Finish`
ends the transfer, `WriteHiddenName` and `WriteHiddenValue` are the two writes
of `WriteCookieData` (after a first post only), `SetPage` displays the answer.
`Refused` and `Broken` are the two catch blocks: the method goes on with what
has come. `seen`, `unshown` and `lost` are history. When the server accepts a
message is an assumption about bbs.cgi taken from the comment above
`PostFirstToThread`: it must carry cookie and hidden item of the terms in force.
The header lines of other downloads pass through `WriteHeaderData` too and may
set PREN; since PREN is never sent that only changes which of two equal posts
is made.

### Boards

A page is a sequence of headings and boards, `menu` the version the server has,
`header` the version whose date is stored. An update goes through `pc`:

| Actions | Code |
|---|---|
| `OnGetBoardList`, `OnInit` with `DownloadBoardList` | the test for page and header; without both the gzip file is opened for writing at once |
| `Answer`, `NotModified`, `ErrorPage`, `Broken` | `DownloadBoardListNew` and `DownloadBoardListMod`; only 304 is a case of its own |
| `SaveHeader`, `CloseGzip` | header file, then the stream goes out of scope |
| `OpenHtml`, `ConvertSJISToUTF8`, `RemoveTmpFile` | the common end of `DownloadBoardList`; -1 stops the update here |
| `DeleteTableData`, `SetBoardInfoCommit` | two transactions, between which a kill leaves an empty table |
| `ShowBoards` | tree and `retainHash` from the table |
| `CallNewBoardAddDialog`, `SearchBoardTree`, `SearchBoxClear`, `OnCloseWindow` | the user between updates |

`FindBoardInfo` keeps the code's rule that boards under an excluded heading go
to the category above; `GetBoardInfo` reads the first row twice, as the loop
does; `MatchingRows` shows one board per run of a category. A board is a name
with an address: in `MCBoards` one moves, so that name and address can part.

The first start is special. `SetProperties` creates the tables before it makes
`~/.xb`, where their database is to be, so the attempt fails and is caught: the
whole first session is without tables (`~created`), every later start has them.
Until then a statement that deletes, inserts or reads boards throws inside
`SQLiteAccessor`, which shows the message, and its caller goes on: `StoreRows`
stores nothing, the table is read as empty, and the tree and `retainHash` stay
empty however often the user asks. The page and its date are on disk all the
same, so the next update may be answered 304; it is extracted anew even then,
which is why `BoardsCatchUp` holds from the second start on. ThreadTabs,
ThreadList and ImageViewer begin with a start after the first; in the first
session no tab and no image is recorded, since their tables are missing too.

### ThreadList

A list gives each thread its number of responses. `list` and `header` are the
files of each board, `rows` the pages, `icon` what the tab of each thread shows,
`log` the length of each thread's `.dat` (`NoLog` if it has none), brought up to
date or left in one step (ThreadLog has the steps). `SetBoardNameToNoteBook`
reads the previous list before the download, `Answer`, `NotModified`,
`ErrorPage` and `Broken` are the outcomes,
`SaveHeader` and `Convert` the two writes, `SetThreadListItem` compares, fills
the page and sets the icons. Three oddities of the code are kept because the
properties have to live with them: a 304 is no case of its own, so an unchanged
list is replaced by an empty one; `hasOldData` is read unset when there was no
previous list (`FileLoadMethod2ch` chooses); a tab is said to have one response
more than it shows (`ResponseNums`), and any number if its log is empty. Closing
board tabs is one action that leaves any part of them: the loops are ThreadTabs's.

### ImageViewer, Anchors and ThreadWindow

`calls` is the stack of handlers that run: a click can come whenever the
innermost one waits for its socket (`Listening`), and only the innermost moves.
A file is absent, empty, a part or whole; a call truncates it when it opens it
and writes through its own handle, so one that an inner call has truncated under
leaves a hole (`lost`, `Whole`). `SaveImageFileInfoDB` writes the row whatever
the download gave, for an ftp address a row without a file name, since nothing is
downloaded for one; `SetImageFile` adds a page, or returns between `Freeze` and
`Thaw` (`frozen`). Zoom counts steps of 0.1: ten additions to 1.0 do not give
2.0 exactly, so the tests for equality never stop it, and the model's end steps
are the ones the code takes beyond them.

`FindAnchoredResponse` in Anchors is a function of the log; `Shows` is what a
reader expects of the popup. A range that reads outside the log is undefined
behaviour in the code: `OnCellHover` in ThreadWindow, which composes both
modules over one `dat`, lets the program end there.

### Selection

Several loops of the program keep some elements of a list and skip the others:
the extraction of boards, the search in their tree, the popup of a range, the
session that is restored. `Picked(s, places)` is what such a loop collects. It
is `SelectSeq` said by rank, because tlapm knows of no property of `SelectSeq`
and cannot derive one by induction.

## The runs

| Run | Instance | Shows |
|---|---|---|
| `log_faults` | 3 responses, 3 faults of any kind | `SizeKnown`, `DatMatchesSjis`, `UpdateKeepsLog`, `PartStored`, `ArchiveWins`: what the four files promise each other when a call has returned |
| `log_network` | 3 responses, 3 broken transfers, fairness | `LogIsPrefix`, `HonestHeader`, `CatchesUp`: the log is the beginning of the thread, the stored date hides nothing, every response is shown; `MirrorsThread`: ThreadLog implements ThreadMirror |
| `tabs_bulk` | 2 threads, 3 tabs, several per thread, all ways to close | `PageShowsItsThread`, `TreeFresh`, `BulkCloseExact` |
| `tabs_single` | 2 threads, one tab each, replies, deleted logs, exits, kills | `TabsKnown`, `ClosedTabsRecorded`, `ReplyTargetRight`, `SessionRestored` |
| `post_faults` | 2 messages, 2 versions of the terms, 3 faults of any kind, fairness | `NoDoublePost`, `TermsSeenOrKilled`, `ConsentKept`, `Posted` |
| `boards` | 2 versions of the page, an outside board, 2 faults of any kind, fairness | `TreeOpensBoards`: the tree and `retainHash` agree with the table; `DateMatchesPage`, `NoHalfList`: what date, page and table promise each other; `SearchFindsCategories`; `BoardsCatchUp`: after the first session the list is known in the end |
| `lists` | 2 boards, 2 threads, 3 versions of a list, 2 faults of any kind, fairness | `DropMeansGone`, `PlusMeansNews`: icons tell the truth; `ComparedWithScreen`: news are what was not on the screen; `ListSeen`, `NewsNoticed`: they are shown in the end |
| `window` | 3 addresses, 3 clicks, one end of the program, every log of up to 4 responses | `PictureStands`; `OnlyFtpRowsLackFiles`: a row of a web address has its file, one of an ftp address never; `SelectionKept`, `PopupShowsResponses` |
| `log_302`, `log_leftover`, `tabs_close`, `tabs_reload` | smallest instance that shows it | expected violations, see [findings](#findings) |

A type invariant (`TypeOK`, `WindowTypeOK`) is checked by one run of each
module. Every property has a mutant in its module, an operator marked `Mutant:`
that changes one definition as a plausible bug would; with it TLC finds the
property violated (`PROJECT.json`, "mutants").

In `log_faults` the server may post, drop and archive the thread at any time, so
`UpdateKeepsLog` and `PartStored` except a call that began beside a gzip file
left by a kill: `log_leftover` shows what happens then. `tabs_single` leaves out
what `tabs_close` refutes, `tabs_bulk` leaves out replies, which `tabs_reload`
refutes. `DateMatchesPage`, `NoHalfList` and `BoardsCatchUp` end with a killed
update: its leftover gzip file can replace a page under a newer date, the same
fault as `log_leftover`. `BoardsCatchUp` asks for `created`: before, no
update shows a board. `ListSeen` excepts a list whose stored date is already
the server's, and `NewsNoticed` a single new response: those are the 304 and the
counter described under ThreadList, which no document contradicts. `post_faults`
ends when every message has been accepted and displayed, so it does not check
deadlock; in the other modules some step is always enabled.

## Bounds and fairness

* `MaxPosts`, `MaxFaults` = 3 in the log: one response present, one added before
  and one during an update; three faults reach every pair of interrupted calls
  followed by a third. Two faults in `boards` and `lists`: an interrupted update,
  an interrupted repair, and a third that succeeds.
* `MaxPages` = 3 in `tabs_bulk`: a selected tab with one on each side, the
  smallest notebook on which all loops differ, and two tabs of one thread among
  them; 2 in the others. `MaxReloads` = 2: two replies queued at a time.
  `MenuSize`: 1 or 2 of the 16 rows the menu offers, so that rows are dropped.
* `MaxTerms` = 2: the stored terms can be outdated. Two messages: two windows,
  each of which may use what the other's answer stored.
* `boards`: five boards under four names, of which one moves between the two
  versions; an excluded heading; `MaxOutside` = 1 row of the user's own.
* `lists`: `Full` = 4 stands for 1000 responses. In three versions a thread
  grows by two, another appears and fills up, and the first disappears, so that
  every state of a row and every icon occurs. A second, empty board is there for
  its tab to be updated, closed and restored beside the first. `Read` = one
  thread has a tab and a log.
* `window`: `MaxClicks` = 3 clicks on any of two web addresses and one ftp
  address, `MaxPages` = 3 calls and pages together: a call inside a call with a
  page below, or a page on either side of the selected one. `Grow` = `Shrink`
  = 1 instead of 10 steps of zoom: between the first and the last nothing
  differs. `MaxKills` = 1 end of the program, after which everything can happen
  again. `MaxRes` = 3 for 1000, with logs of up to 4 responses.
* `Uses` and `Faults` name what the environment does in a run.

The proofs have none of these bounds.

Fairness. ThreadLog: weak fairness of `Call` (the user keeps reloading), `Fetch`
(curl ends a dead connection by its timeout) and `Store` (straight-line code).
Nothing is assumed of the server, and faults are bounded only in number.
Posting: weak fairness of `Perform` and `Receive` for the same reasons; strong
fairness of each message's click, because another window's post disables it
while it runs and the user tries again and again. Boards and ThreadList: weak
fairness of `Update` (the handler blocks the window until it returns) and of the
start of a closed application; strong fairness of the user's request, for each
board in ThreadList, because updates and exits disable it again and again.
ThreadTabs and ImageViewer have no liveness: nothing in them must happen.

## Proofs

Each component has a module of proofs that extends it and TLAPS. The assumptions
on constants are those of the modules; a theorem with an assumption of its own
states it.

**ThreadLogProofs.** `TypeInv` is `TypeOK` with `Files`: which files exist at
which place of a call. A `.dat` implies a `.sjis`, because the first `.dat` is
written from a `.sjis` and only the `.dat` is ever deleted; from it follow
`TypeCorrect` and `SizeIsKnown` for all faults.
With `Faults \subseteq {"timeout"}`, `LogInv` follows what the running call is
about to make of the log (file and buffer together are the beginning of the
thread, the date received is no newer than they) and gives `LogIsAlwaysPrefix`
and `HeaderIsAlwaysHonest`. The assumption is needed: a 302 for a living thread,
a 200 for an update or a kill breaks both.

Under all faults, `FaultInv` says for every place of a call what its files and
its buffer hold; it has five parts. `DatInv`: from the last step of a call until
the next one begins, a `.dat` is the `.sjis` (`DatAlwaysMatches`). `KakoInv`: once
the archive has answered, the whole thread is on its way from gzip file and
buffer to the log, whatever the busy server's page had left in the file before
(`ArchiveAlwaysWins`). `KnownInv`: no file holds a response the server never had.
`KeepInv`: an update that found no gzip file and does not go to the archive makes
none, so that nothing is unpacked over the log, which only grows; with `KakoInv`
and `KnownInv`, which answer for the archive, this is `UpdateAlwaysKeepsLog`.
`PartInv`: after a 206, file and stream together are the log the call found,
continued to the newest response in its own place (`PartIsStored`). A gzip file
left by a kill is excepted in the invariant as in the properties (`log_leftover`
shows why); no fault is assumed away.

**ThreadMirrorProofs.** Under the same assumption `MirrorRefinement` proves that
ThreadLog implements ThreadMirror. `MirrorInv` adds to `LogInv` what a running
update still owes to the log it found (`Owed`: it will leave that log, or a
longer beginning of the thread). `CallHidden` shows that no step inside a call
changes what the mapping reads, `ReturnShows` that the last step is `Load`,
`Refresh` or nothing.

**ThreadTabsProofs.** `TabInv` adds to `TypeOK` what each loop has reached:
`BulkLoop` says, for the turn `i`, how many pages remain and from which old page
(`Origin`) each of them comes; at the end that is `BulkCloseExact`, for any
number of tabs (`BulkCloseIsExact`). `TreeInv` (no update queued implies the
tree is current) is inductive by itself and gives `TreeIsFresh`. `TitledInv`
(everything kept under a title is a thread of it) gives `PagesShowTheirThreads`,
assuming `"reply" \notin Uses`. `KnownInv` (entries of `tiHash` and open tabs
are the same, no title twice) gives `TabsAreKnown`, `ClosedTabsAreRecorded` and
`RepliesGoToTheirThread`, assuming that tabs are closed one by one and no thread
has two (`OneByOneUse`). Both assumptions are needed: `tabs_reload` and
`tabs_close` are the counterexamples.

`SessionsAreRestored` is about a loop: `RestoredInv` says that the tabs are the
restorable ones (`Back`) of the rows it has passed, and that every row of the
session has its thread, which is `KnownInv` at the last exit. `PickedExtended` is
the step from one turn to the next. It assumes `OneByOneUse` and that no two
threads have the same title (`OwnTitles`): a tab whose log was deleted would
come back for another thread's.

**PostingProofs.** All faults, any number of messages and versions.
`CountInv` bounds the acceptances of a message by those whose answer was lost,
and one more if the user has been or is about to be told (`NoDoublePosts`).
`ConsentInv` is about the order of writes: the value of the hidden item is
stored last, and a first post runs only without it (`ConsentIsKept`). `TermsInv`
says that a stored value was displayed, or is about to be, or a kill came
between (`TermsAreSeen`).

**SelectionProofs.** The library's induction theorems take an operator, which the
provers cannot instantiate; the well-foundedness of the natural numbers
(`WFMin`) takes a set, and gives `LeastNumber` and `GreatestNumber`: every set of
numbers has a least member, every bounded one a greatest. From these follow
`Ranks`, `RankOfOne` and `AscendingLists` (a finite set of numbers, put in order,
is a sequence of all its members), `PickedLists` (what `Picked` returns, and that
it has everything picked) and `AscendingExtended` and `PickedExtended` (one more
place behind the others adds one element at the end).

**BoardsProofs.** All faults, any boards and pages. `BoardsInv` has five parts.
`FilesOK` has the types and the files each step of an update finds. `DateInv` says
at each place of an update which contents the stored or received date speaks for:
gzip file and buffer together before the stream is closed, the gzip file (the
page, if there is none) until the conversion is done, the page after that; a
killed update ends what it promises, as it does in the property
(`DatesSpeakForPages`). `TableOK` and `TreeInv` say that the tree has rows of the
table only and `retainHash` is the one made from that table (`TreeAlwaysOpens`). `WholeInv` follows a whole page from the server through gzip
file and page into the table, behind whose rows the user's own boards stand
(`NeverHalfList`). `SearchesFindCategories` needs that the first of a run of
matching rows exists: the least place from which the category does not change.

**ThreadListProofs.** All faults, any boards, threads and lists; boards are
finitely many, so that they can be updated in turn. `TypeOK` is inductive
(`TypeCorrect`). `DropsAreReal` follows from it: only the end of an update marks
a tab, of its own board (`IconsMarked`). `ServedInv` (what a list says of a
thread the server has said at some time, or nothing) gives `PlusesAreNews`.
`ScreenInv` (a page shows the list on disk or, while its update is about to
show, the previous one) gives `NewsAreComparedWithScreen`.

**ThreadWindowProofs.** Any addresses, clicks, steps of zoom and ends of the
program. `ViewerInv` describes pages and calls by what each needs of the cache,
the table and the counts of clicks (`StandingPage`, `SoundCall`): a click on an
address ends what was promised to its pages before it truncates their file, and
no other step makes a file worse. It gives `PicturesStand` and
`FtpRowsAloneLackFiles`: a call by ftp never reads, so it never makes a file.

`WindowInv` adds three counts. `CallsInv`: the rows of an address and the calls
that have not yet written theirs are no more than the clicks on it.
`NotebookInv`: the row number of a page is not above the table's, and address
and row tell pages apart, so that a page that stays is never mistaken for one
with the same picture. `BoundsInv`: calls and pages together stay within
`MaxPages`, because a call that returns gives its place to the page. They give
`WindowTypes` and `SelectionIsKept`. Addresses are finitely many
(`ImagesAssumption`), as the calls must be counted.

`PopupsShowResponses` unfolds the recursive function of `FlattenSeq`, with which
the popup is put together: `Flattened` shows by `LeastNumber` that a function
that satisfies its equation is the one it chooses, and the popup's texts are then
given as such a function. Its logs are those ThreadLog promises while
connections break and nothing worse happens (`LogsAssumption`): line n is
response n or unreadable, which is `LogIsPrefix` with `DatMatchesSjis`.

Only model-checked: the liveness properties `CatchesUp`, `Posted`,
`BoardsCatchUp`, `ListSeen` and `NewsNoticed`, since liveness under fairness is
outside TLAPS's reach, and the four findings. Every other property of the runs
is a theorem.

## What is not modelled

* Deletion of a response on the server ("abone"), which shortens the thread
  under the Range offset: the code has no branch for it and its 416 answer is
  modelled.
* The login to BE, the HAP cookie (same path as PON), the text of forms and
  pages, proxies and timeouts as numbers.
* Favourites that open a thread (the shape of the closed-thread menu), links
  between threads, clipboard, menus and colours.
* Of a thread list: sorting and searching its rows, the momentum column.
* Board tabs: which of them a closing loop leaves (the loops are those of
  ThreadTabs) and the two tables that remember them.
* Popups by ID and by index, and the rewriting of text into HTML, which are
  wording.
* Images: rotation, saving copies, the browser and the clipboard, which change
  nothing the others read; `GetImageFileName` is never called.
* Settings: one assignment per entry in each direction. Shingetsu: compiled out.
* Start-up, panes, bitmaps: straight-line user interface code; the parts that
  fetch the board list and restore tabs are in Boards, ThreadTabs and ThreadList.
* Vendored libraries (sqlite3, wxsqlite3, curlpp, babel, json11) appear as
  external actions only; `cmdline_twitter` is another program. Together they
  are over 150 000 of the repository's 200 000 lines; of XrossBoard's own code
  most of what is left creates menus, panels and bitmaps. The modules cover the
  code that keeps state.

## Findings

| Run | Code | Says | Does |
|---|---|---|---|
| `log_302` | `socketcommunication.cpp:742` | ChangeLog:2035: "prevent to overwrite dat file when HTTP 302 received" | a first download that was cut off left a `.dat` without a header, so the next call is a first download again; the thread has been dropped, and the 302 page replaces `.sjis` and `.dat` |
| `log_leftover` | `xrossboardutil.cpp:42` | comment at `socketcommunication.cpp:911`: the updated part is added | a gzip file left by a kill is decompressed over the log just extended, whose new date is stored |
| `tabs_close` | `xrossboard.cpp:1763` | comments at 1762 and 1767: the title of the closing tab is fetched and its thread stored | the title is the selection's; closing others records empty rows |
| `tabs_reload` | `xrossboard.cpp:2433` | comment at 2421: reloads the thread of that name | its content replaces the selected tab, whichever that is |

One more disagreement shows in the model without a run of its own: NEWS:130 says
that an update of the board list on the first start is reflected, while the first
session has no table to put it in (`xrossboard.cpp:883` comes before line 900).
That is why `BoardsCatchUp` has to ask for `created`.
