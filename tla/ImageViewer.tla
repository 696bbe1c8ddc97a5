---------------------------- MODULE ImageViewer ----------------------------
(***************************************************************************)
(* Images: a click on the address of one in a thread downloads it into the *)
(* cache directory (SocketCommunication::DownloadImageFile), records it in *)
(* table CACHED_IMAGE and adds a page to the notebook of class             *)
(* XrossBoardImageViewer.                                                  *)
(*                                                                         *)
(* wxHTTP dispatches events while it waits for its socket, so the handler  *)
(* of one click may run inside that of another: calls form a stack, and    *)
(* only the innermost one moves.  The file of an address is truncated when *)
(* a call opens it and written through that call's own handle.             *)
(*                                                                         *)
(* Init is a start after the first one: the first session is without the   *)
(* table (Boards), so its files and pages have no rows.                    *)
(***************************************************************************)
EXTENDS Integers, FiniteSets, SequencesExt

CONSTANTS
  Hrefs,        (* the addresses of images in the thread                   *)
  Ftp,          (* those that begin with ftp                               *)
  Grow,         (* steps of zoom up to the last one, 10                    *)
  Shrink,       (* steps of zoom down to the last one, 10                  *)
  MaxClicks,    (* bound: clicks on all addresses together                 *)
  MaxPages,     (* bound: calls that run and pages together                 *)
  MaxKills      (* bound: ends of the program                              *)

ASSUME ImagesAssumption ==
  /\ Ftp \subseteq Hrefs /\ IsFiniteSet(Hrefs)
  /\ Grow \in Nat \ {0} /\ Shrink \in Nat \ {0}
  /\ MaxClicks \in Nat /\ MaxPages \in Nat /\ MaxKills \in Nat

VARIABLES
  running,      (* the program runs                                        *)
  cache,        (* the file of every address                               *)
  rows,         (* the rows of CACHED_IMAGE for every address              *)
  calls,        (* the handlers that run, the innermost one last           *)
  pages,        (* thumbnailNoteBook                                       *)
  sel,          (* its selection, 0 if it has no page                      *)
  frozen,       (* calls of Freeze without a Thaw                          *)
  clicks,       (* clicks on every address so far                          *)
  kills         (* ends of the program so far                              *)

viewer == <<pages, sel, frozen>>
vars   == <<running, cache, rows, calls, viewer, clicks, kills>>

(* part   what arrived before the connection broke, or an image with a     *)
(*        hole: a library may load it or not                               *)
Files == {"absent", "empty", "part", "whole"}

(* zoom counts the steps of 0.1 that magnification is away from 1.0.  Not  *)
(* in the code: what the file was when the page was added, the row of the  *)
(* table written just before, and the clicks on the address until then.    *)
Page == [href : Hrefs, pic : {"none", "part", "whole"}, zoom : -Shrink .. Grow,
         from : {"part", "whole"}, row : 1 .. MaxClicks, opened : 1 .. MaxClicks]

(* begun  the call has written something                                   *)
(* lost   what it has written has been truncated by a later call           *)
Call == [pc : {"get", "save", "show"}, href : Hrefs, begun : BOOLEAN, lost : BOOLEAN]

TypeOK ==
  /\ running \in BOOLEAN
  /\ cache \in [Hrefs -> Files] /\ rows \in [Hrefs -> 0 .. MaxClicks]
  /\ calls \in Seq(Call)
  /\ \A n \in 1 .. Len(calls) - 1 : calls[n].pc = "get"
  /\ pages \in Seq(Page) /\ Len(pages) <= MaxPages
  /\ sel \in 0 .. Len(pages) /\ (sel = 0 <=> pages = <<>>)
  /\ frozen \in Nat
  /\ clicks \in [Hrefs -> 0 .. MaxClicks] /\ kills \in 0 .. MaxKills

Init ==
  /\ running = TRUE
  /\ cache = [h \in Hrefs |-> "absent"] /\ rows = [h \in Hrefs |-> 0]
  /\ calls = <<>>
  /\ pages = <<>> /\ sel = 0 /\ frozen = 0
  /\ clicks = [h \in Hrefs |-> 0] /\ kills = 0

-----------------------------------------------------------------------------
(* The download                                                            *)

(* Events are handled when no handler runs or the innermost one waits.     *)
Listening == running /\ (calls # <<>> => Last(calls).pc = "get")

Top    == Last(calls)
Here   == Top.href
At(pc) == running /\ calls # <<>> /\ Top.pc = pc
Go(call) == calls' = Append(Front(calls), call)

(* GenerateMD5String of the whole address: every address has its own file. *)
FileName(h) == h

Clicks == Cardinality({c \in Hrefs \X (1 .. MaxClicks) : c[2] <= clicks[c[1]]})

(* The loss of what the callers have written to the file a call opens.     *)
Truncated(stack, h) ==
  [n \in 1 .. Len(stack) |->
     [stack[n] EXCEPT !.lost = @ \/ (stack[n].href = h /\ stack[n].begun)]]

(* Mutant: the row is written first and the file made when bytes arrive.   *)
OnLeftClickRecordsFirst(h) ==
  /\ Listening /\ Clicks < MaxClicks /\ Len(calls) + Len(pages) < MaxPages
  /\ clicks' = [clicks EXCEPT ![h] = @ + 1]
  /\ rows' = [rows EXCEPT ![h] = @ + 1]
  /\ calls' = Append(calls, [pc |-> "get", href |-> h, begun |-> FALSE, lost |-> FALSE])
  /\ UNCHANGED <<running, cache, viewer, kills>>

(* DownloadImageFileByFtp sets no path and writes nothing; its row follows *)
(* like any other, with an empty file name.                                *)
OnLeftClickHtmlWindow(h) ==
  /\ Listening /\ Clicks < MaxClicks /\ Len(calls) + Len(pages) < MaxPages
  /\ clicks' = [clicks EXCEPT ![h] = @ + 1]
  /\ LET call == [pc |-> IF h \in Ftp THEN "save" ELSE "get",
                  href |-> h, begun |-> FALSE, lost |-> FALSE]
     IN calls' = Append(IF h \in Ftp THEN calls ELSE Truncated(calls, h), call)
  /\ cache' = IF h \in Ftp THEN cache ELSE [cache EXCEPT ![FileName(h)] = "empty"]
  /\ UNCHANGED <<running, rows, viewer, kills>>

Store(kind) == cache' = [cache EXCEPT ![FileName(Here)] = kind]

(* Mutant: the file is opened when the connection is there.                *)
ReadOpens ==
  /\ At("get") /\ ~Top.begun
  /\ Go([Top EXCEPT !.begun = TRUE])
  /\ Store("part")
  /\ UNCHANGED <<running, rows, viewer, clicks, kills>>

Read ==
  /\ At("get") /\ ~Top.begun
  /\ Go([Top EXCEPT !.begun = TRUE])
  /\ Store(IF cache[FileName(Here)] = "whole" THEN "whole" ELSE "part")
  /\ UNCHANGED <<running, rows, viewer, clicks, kills>>

(* The rest arrives.  A beginning that was lost leaves a hole, unless what *)
(* another call has received meanwhile fills it.                           *)
Whole(kind) ==
  IF ~Top.lost THEN {"whole"}
  ELSE IF kind = "part" THEN {"part", "whole"}
  ELSE IF kind = "empty" THEN {"part"} ELSE {kind}

ReadAll ==
  /\ At("get") /\ Top.begun
  /\ \E kind \in Whole(cache[FileName(Here)]) : Store(kind)
  /\ Go([Top EXCEPT !.pc = "save"])
  /\ UNCHANGED <<running, rows, viewer, clicks, kills>>

(* No connection, no stream or no more bytes: what is in the file remains. *)
Broken ==
  /\ At("get")
  /\ Go([Top EXCEPT !.pc = "save"])
  /\ UNCHANGED <<running, cache, rows, viewer, clicks, kills>>

SaveImageFileInfoDB ==
  /\ At("save")
  /\ rows' = [rows EXCEPT ![Here] = @ + 1]
  /\ Go([Top EXCEPT !.pc = "show"])
  /\ UNCHANGED <<running, cache, viewer, clicks, kills>>

-----------------------------------------------------------------------------
(* The notebook                                                            *)

Loads(kind) ==
  IF kind = "part" THEN BOOLEAN ELSE {kind = "whole"}

(* The return after a failed load comes between Freeze and Thaw.  The      *)
(* first page of a notebook is selected although AddPage is told not to.   *)
SetImageFile ==
  /\ At("show")
  /\ LET kind == IF Here \in Ftp THEN "absent" ELSE cache[FileName(Here)]
     IN \E ok \in Loads(kind) :
          IF ok
          THEN /\ pages' = Append(pages, [href |-> Here, pic |-> kind, zoom |-> 0, from |-> kind,
                                          row |-> rows[Here], opened |-> clicks[Here]])
               /\ sel' = IF pages = <<>> THEN 1 ELSE sel
               /\ UNCHANGED frozen
          ELSE frozen' = frozen + 1 /\ UNCHANGED <<pages, sel>>
  /\ calls' = Front(calls)
  /\ UNCHANGED <<running, cache, rows, clicks, kills>>

Menu == Listening /\ pages # <<>>

Show(ps, s) ==
  /\ pages' = ps /\ sel' = s
  /\ UNCHANGED <<running, cache, rows, calls, frozen, clicks, kills>>

OnClose == Listening /\ Show(<<>>, 0)

(* Mutant: the selection is left alone.                                    *)
OneThumbnailTabCloseKeeps == Menu /\ Show(RemoveAt(pages, sel), sel)

OneThumbnailTabClose ==
  Menu /\ Show(RemoveAt(pages, sel), IF sel = Len(pages) THEN sel - 1 ELSE sel)

AllThumbnailTabClose == Menu /\ Show(<<>>, 0)

(* Mutant: one turn of the loop too many.                                  *)
AllLeftThumbnailTabCloseOneMore ==
  Menu /\ Show(SubSeq(pages, sel + 1, Len(pages)), IF sel = Len(pages) THEN 0 ELSE 1)

AllLeftThumbnailTabClose == Menu /\ Show(SubSeq(pages, sel, Len(pages)), 1)

AllRightThumbnailTabClose == Menu /\ Show(SubSeq(pages, 1, sel), sel)

(* The menu and the wheel; an index the notebook lacks changes nothing.    *)
SelectLeftThumbnailTab == Menu /\ sel > 1 /\ Show(pages, sel - 1)

SelectRightThumbnailTab == Menu /\ sel < Len(pages) /\ Show(pages, sel + 1)

-----------------------------------------------------------------------------
(* The page that is looked at                                              *)

Looked(page) == Show([pages EXCEPT ![sel] = page], sel)
Cached == cache[FileName(pages[sel].href)]

(* Ten additions of 0.1 to 1.0 make 2.000000000000001 and ten subtractions *)
(* 1.4e-16, so that neither comparison with 2.0 and 0.1 ever holds and     *)
(* both last steps are taken, and none after them: of the last one down    *)
(* nothing is left to draw.                                                *)
Resize(up) ==
  /\ Menu /\ pages[sel].zoom \notin {-Shrink, Grow}
  /\ LET zoom == pages[sel].zoom + IF up THEN 1 ELSE -1
     IN \E ok \in Loads(Cached) :
          Looked([pages[sel] EXCEPT
                    !.zoom = zoom,
                    !.pic = IF ok /\ zoom # -Shrink THEN Cached ELSE "none"])

Reset ==
  /\ Menu
  /\ \E ok \in Loads(Cached) :
       Looked([pages[sel] EXCEPT !.zoom = IF ok THEN 0 ELSE @,
                                 !.pic = IF ok THEN Cached ELSE "none"])

-----------------------------------------------------------------------------
(* The program                                                             *)

(* The program ends, whatever it is doing; the files and the table remain. *)
End ==
  /\ running /\ kills < MaxKills
  /\ kills' = kills + 1 /\ running' = FALSE
  /\ calls' = <<>> /\ pages' = <<>> /\ sel' = 0 /\ frozen' = 0
  /\ UNCHANGED <<cache, rows, clicks>>

OnInit ==
  /\ ~running /\ running' = TRUE
  /\ UNCHANGED <<cache, rows, calls, viewer, clicks, kills>>

Download ==
  \/ \E h \in Hrefs : OnLeftClickHtmlWindow(h)
  \/ Read \/ ReadAll \/ Broken \/ SaveImageFileInfoDB \/ SetImageFile

Use ==
  \/ OnClose \/ OneThumbnailTabClose \/ AllThumbnailTabClose
  \/ AllLeftThumbnailTabClose \/ AllRightThumbnailTabClose
  \/ SelectLeftThumbnailTab \/ SelectRightThumbnailTab
  \/ Resize(TRUE) \/ Resize(FALSE) \/ Reset

Next == Download \/ Use \/ End \/ OnInit

-----------------------------------------------------------------------------
(* Properties                                                              *)

(* A picture that was loaded from a whole file stays, however it is        *)
(* resized and whatever other downloads do, those of the same address that *)
(* began earlier included: only a later click on the same address can take *)
(* its file away, and only the last step down its picture.                 *)
PictureStands ==
  \A n \in 1 .. Len(pages) :
    LET p == pages[n]
    IN p.from = "whole" /\ clicks[p.href] = p.opened =>
         /\ cache[FileName(p.href)] = "whole"
         /\ p.pic = "whole" \/ p.zoom = -Shrink

(* Wherever the program ends, a row written for a web address has its      *)
(* file.  A row written for an ftp address has none, ever: its click       *)
(* downloads nothing and records an empty file name all the same; what     *)
(* remains true is that the viewer has no page for it, while every page it *)
(* has is of an address with a row and a file.                             *)
OnlyFtpRowsLackFiles ==
  /\ \A h \in Hrefs : rows[h] > 0 => (cache[FileName(h)] = "absent" <=> h \in Ftp)
  /\ \A n \in 1 .. Len(pages) :
       rows[pages[n].href] > 0 /\ cache[FileName(pages[n].href)] # "absent"

(* An image that arrives, and pages closed on either side, leave the page  *)
(* that is looked at where it is.  If it goes while others remain, it goes *)
(* alone, and the next one is shown, or the last if it was the last.       *)
SelectionKept ==
  [][ (pages # <<>> /\ pages' # <<>> /\ Len(pages') # Len(pages)) =>
        IF pages[sel] \in Range(pages')
        THEN pages'[sel'] = pages[sel]
        ELSE /\ Len(pages') = Len(pages) - 1
             /\ pages'[sel'] = pages[IF sel = Len(pages) THEN sel - 1 ELSE sel + 1] ]_vars
=============================================================================
