----------------------------- MODULE ThreadLog -----------------------------
(***************************************************************************)
(* The log XrossBoard keeps of one 2ch thread, and the call that updates   *)
(* it: SocketCommunication::DownloadThread with DownloadThreadNew,         *)
(* DownloadThreadMod and DownloadThreadPast, one action per step that      *)
(* leaves a trace on disk or talks to the server.                          *)
(*                                                                         *)
(* A thread on the server is the responses 1..posted.  A file is absent or *)
(* a sequence of them; Junk stands for the body of an error page.  The     *)
(* application runs one call at a time (the window is blocked meanwhile)   *)
(* but the server moves on, connections break, and a blocked application   *)
(* is killed, between any two steps.                                       *)
(***************************************************************************)
EXTENDS Naturals, Sequences

CONSTANTS
  MaxPosts,     (* bound: responses the thread may receive                 *)
  MaxFaults,    (* bound: faults of all kinds together                     *)
  Faults,       (* the kinds of fault the environment may inject           *)
  Absent        (* a file that does not exist                              *)

Junk == 0       (* what an error page puts into a file, unit by unit       *)
NoStamp == 0    (* a stored answer that has no Last-Modified line          *)

(* timeout   a transfer stops in the middle: curlpp throws                 *)
(* busy      the server answers 302 or 404 although the thread is alive    *)
(* fullBody  the server ignores Range and answers 200 to an update         *)
(* crash     the process ends during a call                                *)
(* deleteDat the user deletes the log (only .dat goes)                     *)
FaultKinds == {"timeout", "busy", "fullBody", "crash", "deleteDat"}

ASSUME BoundsAssumption == MaxPosts \in Nat \ {0} /\ MaxFaults \in Nat
ASSUME FaultsAssumption == Faults \subseteq FaultKinds
ASSUME AbsentAssumption == Absent \notin Seq(Nat) /\ Absent \notin Nat

VARIABLES
  posted,   (* responses the server has for the thread                     *)
  life,     (* where the server keeps it: main, dropped (nowhere), kako    *)
  dat,      (* <number>.dat, UTF-8, what the window shows                  *)
  sjis,     (* <number>.sjis, the raw bytes; its size is the Range offset  *)
  gzip,     (* <number>.gzip, the body as it came                          *)
  header,   (* <number>.header, its Last-Modified                          *)
  pc,       (* where the call is                                           *)
  req,      (* what the update request asks for: Range offset, date        *)
  resp,     (* respBuf, the header lines received so far                   *)
  buffer,   (* received, but not yet in the file: bodyBuf, ofstream        *)
  faults,   (* faults injected so far                                      *)
  call      (* history of the running or last call, read by no action      *)

disk   == <<dat, sjis, gzip, header>>
server == <<posted, life>>
memory == <<req, resp, buffer>>
vars   == <<server, disk, pc, memory, faults, call>>

(***************************************************************************)
(* Contents                                                                *)
(***************************************************************************)
Content    == Seq(0 .. MaxPosts)
Stamp      == 0 .. MaxPosts
Full(n)    == [i \in 1 .. n |-> i]
After(o)   == [i \in 1 .. (posted - o) |-> o + i]
Prefix(s)  == {SubSeq(s, 1, n) : n \in 0 .. Len(s)}
ErrorPages == {<<>>, <<Junk>>}

PCs == {"idle", "newWait", "modWait", "append", "reconvert", "flush",
        "pastWait", "pastHeader", "saveHeader", "close",
        "decompress", "unpack", "convert", "fill", "cleanup"}

(* Of a call: which branch it took, the .sjis and whether a gzip file was  *)
(* there when it began, what the server answered, whether it got the       *)
(* thread from the archive, whether it returned.                           *)
Statuses == {200, 203, 206, 302, 304, 404, 416}
History ==
  [path : {"none", "new", "mod"}, base : Content \cup {Absent}, left : BOOLEAN,
   status : Statuses \cup {0}, kako : BOOLEAN, done : BOOLEAN]

TypeOK ==
  /\ posted \in 0 .. MaxPosts
  /\ life \in {"main", "dropped", "kako"}
  /\ dat \in Content \cup {Absent}
  /\ sjis \in Content \cup {Absent}
  /\ gzip \in Content \cup {Absent}
  /\ header \in Stamp \cup {Absent}
  /\ pc \in PCs
  /\ req \in [offset : Nat, since : Stamp]
  /\ resp \in Stamp \cup {Absent}
  /\ buffer \in Content
  /\ faults \in 0 .. MaxFaults
  /\ call \in History

Init ==
  /\ posted \in 1 .. MaxPosts
  /\ life = "main"
  /\ dat = Absent /\ sjis = Absent /\ gzip = Absent /\ header = Absent
  /\ pc = "idle"
  /\ req = [offset |-> 0, since |-> NoStamp]
  /\ resp = Absent
  /\ buffer = <<>>
  /\ faults = 0
  /\ call = [path |-> "none", base |-> Absent, left |-> FALSE, status |-> 0,
             kako |-> FALSE, done |-> TRUE]

Fault(kind) ==
  /\ kind \in Faults
  /\ faults < MaxFaults
  /\ faults' = faults + 1

Goto(from, to) == pc = from /\ pc' = to

(***************************************************************************)
(* The server                                                              *)
(***************************************************************************)
Post ==
  /\ life = "main"
  /\ posted < MaxPosts
  /\ posted' = posted + 1
  /\ UNCHANGED <<life, disk, pc, memory, faults, call>>

(* The thread leaves the board's dat directory, then reaches the archive.  *)
Drop ==
  /\ \/ life = "main" /\ life' = "dropped"
     \/ life = "dropped" /\ life' = "kako"
  /\ UNCHANGED <<posted, disk, pc, memory, faults, call>>

(***************************************************************************)
(* Entry: with the .dat or the .header missing the thread is fetched anew, *)
(* otherwise the difference is requested.                                  *)
(***************************************************************************)
BeginCall(path) ==
  call' = [path |-> path, base |-> sjis, left |-> gzip # Absent,
           status |-> 0, kako |-> FALSE, done |-> FALSE]

BeginNew ==
  /\ dat = Absent \/ header = Absent
  /\ Goto("idle", "newWait")
  /\ gzip' = <<>>
  /\ resp' = Absent /\ buffer' = <<>>
  /\ BeginCall("new")
  /\ UNCHANGED <<server, dat, sjis, header, req, faults>>

(* Mutant: the update branch is taken on the .dat alone.                   *)
BeginModOnDatAlone ==
  /\ dat # Absent /\ sjis # Absent
  /\ Goto("idle", "modWait")
  /\ req' = [offset |-> Len(sjis), since |-> header]
  /\ resp' = Absent /\ buffer' = <<>>
  /\ BeginCall("mod")
  /\ UNCHANGED <<server, disk, faults>>

(* Mutant: the offset is the index of the last byte, not the size.         *)
BeginModFromLast ==
  /\ dat # Absent /\ header # Absent /\ sjis # Absent
  /\ Goto("idle", "modWait")
  /\ req' = [offset |-> IF sjis = <<>> THEN 0 ELSE Len(sjis) - 1, since |-> header]
  /\ resp' = Absent /\ buffer' = <<>>
  /\ BeginCall("mod")
  /\ UNCHANGED <<server, disk, faults>>

(* Mutant: the time of the request is sent instead of Last-Modified.       *)
BeginModSinceNow ==
  /\ dat # Absent /\ header # Absent /\ sjis # Absent
  /\ Goto("idle", "modWait")
  /\ req' = [offset |-> Len(sjis), since |-> posted]
  /\ resp' = Absent /\ buffer' = <<>>
  /\ BeginCall("mod")
  /\ UNCHANGED <<server, disk, faults>>

BeginMod ==
  /\ dat # Absent /\ header # Absent
  /\ sjis # Absent          \* otherwise an error box; SizeKnown excludes it
  /\ Goto("idle", "modWait")
  /\ req' = [offset |-> Len(sjis), since |-> header]
  /\ resp' = Absent /\ buffer' = <<>>
  /\ BeginCall("mod")
  /\ UNCHANGED <<server, disk, faults>>

Answered(status) == call' = [call EXCEPT !.status = status]

(* No answer has this status unless the thread is gone or the server busy. *)
ErrorStatus(status) ==
  \/ life # "main" /\ UNCHANGED faults
  \/ life = "main" /\ status \in {302, 404} /\ Fault("busy")

(* An ofstream has some of its contents in the file and buffers the rest   *)
(* until it is closed.                                                     *)
WriteGzip(contents) ==
  \E n \in 0 .. Len(contents) :
    /\ gzip' = SubSeq(contents, 1, n)
    /\ buffer' = SubSeq(contents, n + 1, Len(contents))

(***************************************************************************)
(* DownloadThreadNew: the body of whatever answer goes into the gzip file. *)
(***************************************************************************)
NewAnswer ==
  /\ life = "main"
  /\ Goto("newWait", "saveHeader")
  /\ WriteGzip(Full(posted))
  /\ resp' = posted
  /\ Answered(200)
  /\ UNCHANGED <<server, dat, sjis, header, req, faults>>

NewError(status) ==
  /\ pc = "newWait"
  /\ ErrorStatus(status)
  /\ pc' = IF status = 404 THEN "saveHeader" ELSE "pastWait"
  /\ \E page \in ErrorPages : WriteGzip(page)
  /\ resp' = NoStamp
  /\ Answered(status)
  /\ UNCHANGED <<server, dat, sjis, header, req>>

(* Mutant: the header lines received before the break are stored too.      *)
NewBrokenSaves ==
  /\ Fault("timeout")
  /\ Goto("newWait", "saveHeader")
  /\ gzip' \in IF life = "main" THEN Prefix(Full(posted)) ELSE ErrorPages
  /\ resp' = IF life = "main" THEN posted ELSE NoStamp
  /\ UNCHANGED <<server, dat, sjis, header, req, buffer, call>>

(* perform() throws: the header is not written, the file keeps its start.  *)
NewBroken ==
  /\ Fault("timeout")
  /\ Goto("newWait", "decompress")
  /\ gzip' \in IF life = "main" THEN Prefix(Full(posted)) ELSE ErrorPages
  /\ UNCHANGED <<server, dat, sjis, header, memory, call>>

(***************************************************************************)
(* DownloadThreadMod: the body is collected in memory, so a broken         *)
(* transfer leaves no trace.                                               *)
(***************************************************************************)
NotModified ==
  /\ life = "main"
  /\ req.since >= posted
  /\ Goto("modWait", "saveHeader")
  /\ resp' \in {NoStamp, posted}
  /\ Answered(304)
  /\ UNCHANGED <<server, disk, req, buffer, faults>>

PartialContent ==
  /\ life = "main"
  /\ req.since < posted /\ req.offset < posted
  /\ Goto("modWait", "append")
  /\ buffer' = After(req.offset)
  /\ resp' = posted
  /\ Answered(206)
  /\ UNCHANGED <<server, disk, req, faults>>

RangeNotSatisfiable ==
  /\ life = "main"
  /\ req.since < posted /\ req.offset >= posted
  /\ Goto("modWait", "saveHeader")
  /\ resp' = NoStamp
  /\ Answered(416)
  /\ UNCHANGED <<server, disk, req, buffer, faults>>

(* 200: the body is appended to the .dat alone.                            *)
FullBody ==
  /\ life = "main"
  /\ req.since < posted
  /\ Fault("fullBody")
  /\ Goto("modWait", "saveHeader")
  /\ dat' = dat \o Full(posted)
  /\ resp' = posted
  /\ Answered(200)
  /\ UNCHANGED <<server, sjis, gzip, header, req, buffer>>

(* Mutant: the error page goes into the gzip file, as it does for a new    *)
(* thread and did for updates before issue 26 was fixed.                   *)
ModErrorToGzip(status) ==
  /\ pc = "modWait"
  /\ ErrorStatus(status)
  /\ pc' = IF status = 404 THEN "saveHeader" ELSE "pastWait"
  /\ gzip' \in ErrorPages
  /\ resp' = NoStamp
  /\ Answered(status)
  /\ UNCHANGED <<server, dat, sjis, header, req, buffer>>

ModError(status) ==
  /\ pc = "modWait"
  /\ ErrorStatus(status)
  /\ pc' = IF status = 404 THEN "saveHeader" ELSE "pastWait"
  /\ resp' = NoStamp
  /\ Answered(status)
  /\ UNCHANGED <<server, disk, req, buffer>>

(* Mutant: the gzip file is opened for writing, as it is for a new thread  *)
(* and for a list of threads.                                              *)
ModBrokenTruncates ==
  /\ Fault("timeout")
  /\ Goto("modWait", "decompress")
  /\ gzip' = <<>>
  /\ UNCHANGED <<server, dat, sjis, header, memory, call>>

ModBroken ==
  /\ Fault("timeout")
  /\ Goto("modWait", "decompress")
  /\ UNCHANGED <<server, disk, memory, call>>

(* Mutant: what was flushed is written again when the stream closes.       *)
Append206Twice ==
  /\ Goto("append", "reconvert")
  /\ dat' = Absent
  /\ \E flushed \in Prefix(buffer) : sjis' = sjis \o flushed
  /\ UNCHANGED <<server, gzip, header, memory, faults, call>>

(* 206: the stream is still open while the .dat is rebuilt, so the rebuilt *)
(* .dat misses what the stream buffers and only the flush completes .sjis. *)
Append206 ==
  /\ Goto("append", "reconvert")
  /\ dat' = Absent
  /\ \E flushed \in Prefix(buffer) :
       /\ sjis' = sjis \o flushed
       /\ buffer' = SubSeq(buffer, Len(flushed) + 1, Len(buffer))
  /\ UNCHANGED <<server, gzip, header, req, resp, faults, call>>

Reconvert206 ==
  /\ Goto("reconvert", "flush")
  /\ dat' = sjis
  /\ UNCHANGED <<server, sjis, gzip, header, memory, faults, call>>

Flush206 ==
  /\ Goto("flush", "saveHeader")
  /\ sjis' = sjis \o buffer
  /\ buffer' = <<>>
  /\ UNCHANGED <<server, dat, gzip, header, req, resp, faults, call>>

(***************************************************************************)
(* DownloadThreadPast, called after 203 or 302 by both: the archive.  Its  *)
(* temporary file is renamed to the gzip file only after a 200, and no     *)
(* other call reads it, so it is not a variable.                           *)
(***************************************************************************)
(* Mutant: the temporary file is not renamed.                              *)
PastAnswerKeepsTemp ==
  /\ life = "kako"
  /\ Goto("pastWait", "pastHeader")
  /\ resp' = posted
  /\ call' = [call EXCEPT !.kako = TRUE]
  /\ UNCHANGED <<server, disk, req, buffer, faults>>

PastAnswer ==
  /\ life = "kako"
  /\ Goto("pastWait", "pastHeader")
  /\ WriteGzip(Full(posted))
  /\ resp' = posted
  /\ call' = [call EXCEPT !.kako = TRUE]
  /\ UNCHANGED <<server, dat, sjis, header, req, faults>>

PastError ==
  /\ life # "kako"
  /\ Goto("pastWait", "pastHeader")
  /\ resp' = NoStamp
  /\ UNCHANGED <<server, disk, req, buffer, faults, call>>

(* The caller goes on and stores the header lines that did arrive.         *)
PastBroken ==
  /\ Fault("timeout")
  /\ Goto("pastWait", "saveHeader")
  /\ resp' \in {Absent, IF life = "kako" THEN posted ELSE NoStamp}
  /\ UNCHANGED <<server, disk, req, buffer, call>>

StoreHeader == header' = IF resp = Absent THEN header ELSE resp

SavePastHeader ==
  /\ Goto("pastHeader", "saveHeader")
  /\ StoreHeader
  /\ UNCHANGED <<server, dat, sjis, gzip, memory, faults, call>>

SaveHeader ==
  /\ Goto("saveHeader", "close")
  /\ StoreHeader
  /\ UNCHANGED <<server, dat, sjis, gzip, memory, faults, call>>

(* The streams close when the try block ends, after the header is written. *)
(* The page DownloadThreadNew buffered is lost if the archive was renamed  *)
(* over its file meanwhile: PastAnswer replaces the buffer.                *)
CloseGzip ==
  /\ Goto("close", "decompress")
  /\ gzip' = IF buffer = <<>> THEN gzip ELSE gzip \o buffer
  /\ buffer' = <<>>
  /\ UNCHANGED <<server, dat, sjis, header, req, resp, faults, call>>

(***************************************************************************)
(* The common end of DownloadThread.  fopen("wb") and the ofstream         *)
(* truncate the old file before the new contents arrive.                   *)
(***************************************************************************)
OpenSjis ==
  /\ pc = "decompress"
  /\ IF gzip = Absent
     THEN pc' = "convert" /\ UNCHANGED sjis
     ELSE pc' = "unpack" /\ sjis' \in Prefix(gzip)
  /\ UNCHANGED <<server, dat, gzip, header, memory, faults, call>>

Decompress ==
  /\ Goto("unpack", "convert")
  /\ sjis' = gzip
  /\ UNCHANGED <<server, dat, gzip, header, memory, faults, call>>

(* Mutant: the conversion is skipped when no new body was fetched.         *)
OpenDatAfterGzip ==
  /\ pc = "convert"
  /\ IF gzip = Absent
     THEN pc' = "cleanup" /\ UNCHANGED dat
     ELSE pc' = "fill" /\ dat' = <<>>
  /\ UNCHANGED <<server, sjis, gzip, header, memory, faults, call>>

OpenDat ==
  /\ pc = "convert"
  /\ IF sjis = Absent
     THEN pc' = "cleanup" /\ UNCHANGED dat
     ELSE pc' = "fill" /\ dat' = <<>>
  /\ UNCHANGED <<server, sjis, gzip, header, memory, faults, call>>

ConvertSJISToUTF8 ==
  /\ Goto("fill", "cleanup")
  /\ dat' = sjis
  /\ UNCHANGED <<server, sjis, gzip, header, memory, faults, call>>

(* Mutant: the .sjis file is treated as temporary too.                     *)
ReturnDropsSjis ==
  /\ Goto("cleanup", "idle")
  /\ gzip' = Absent /\ sjis' = Absent
  /\ call' = [call EXCEPT !.done = TRUE]
  /\ UNCHANGED <<server, dat, header, memory, faults>>

Return ==
  /\ Goto("cleanup", "idle")
  /\ gzip' = Absent
  /\ call' = [call EXCEPT !.done = TRUE]
  /\ UNCHANGED <<server, dat, sjis, header, memory, faults>>

(***************************************************************************)
(* The user and the operating system                                       *)
(***************************************************************************)
DeleteDatFile ==
  /\ Fault("deleteDat")
  /\ pc = "idle" /\ dat # Absent
  /\ dat' = Absent
  /\ UNCHANGED <<server, sjis, gzip, header, pc, memory, call>>

Crash ==
  /\ Fault("crash")
  /\ pc # "idle" /\ pc' = "idle"
  /\ resp' = Absent /\ buffer' = <<>>
  /\ UNCHANGED <<server, disk, req, call>>

Call == BeginNew \/ BeginMod

Fetch ==
  \/ NewAnswer \/ NewBroken \/ \E s \in {203, 302, 404} : NewError(s)
  \/ NotModified \/ PartialContent \/ RangeNotSatisfiable \/ FullBody
  \/ ModBroken \/ \E s \in {203, 302, 404} : ModError(s)
  \/ PastAnswer \/ PastError \/ PastBroken

Store ==
  \/ Append206 \/ Reconvert206 \/ Flush206 \/ SavePastHeader \/ SaveHeader
  \/ CloseGzip
  \/ OpenSjis \/ Decompress \/ OpenDat \/ ConvertSJISToUTF8 \/ Return

Next == Post \/ Drop \/ Call \/ Fetch \/ Store \/ DeleteDatFile \/ Crash

(* A started call runs to its end (curl's own timeout ends a dead          *)
(* connection), and the user keeps reloading the thread.                   *)
Fairness == WF_vars(Call) /\ WF_vars(Fetch) /\ WF_vars(Store)

Spec == Init /\ [][Next]_vars
FairSpec == Spec /\ Fairness
-----------------------------------------------------------------------------
Units(file) == IF file = Absent THEN {} ELSE {file[i] : i \in 1 .. Len(file)} \ {Junk}

(* The last call ran to its end: no crash since it began.                  *)
Settled == pc = "idle" /\ call.done

(* DownloadThreadMod takes the size of the .sjis file as its Range offset  *)
(* and puts up an error box when there is none.  Whatever was interrupted  *)
(* before, a thread that qualifies for an update has its .sjis file.       *)
SizeKnown ==
  pc = "idle" /\ dat # Absent /\ header # Absent => sjis # Absent

(* The window shows .dat and the next request is computed from .sjis: once *)
(* a call has returned the two agree again, whatever a crash, an update    *)
(* answered 200 or the buffered append left behind.                        *)
DatMatchesSjis == Settled /\ dat # Absent => dat = sjis

(* An update that starts without a left-over gzip file keeps every         *)
(* response it found, whatever the server answers, if and when the         *)
(* connection breaks, and whatever happened in earlier calls.              *)
UpdateKeepsLog ==
  Settled /\ call.path = "mod" /\ ~call.left => Units(call.base) \subseteq Units(sjis)

(* An update answered 206 ends with the newest response in the log, in the *)
(* place after the one it had: nothing is stored twice or left out.        *)
PartStored ==
  Settled /\ call.status = 206 /\ ~call.left =>
    /\ SubSeq(sjis, 1, Len(call.base)) = call.base
    /\ sjis[Len(sjis)] = header /\ Len(sjis) = header

(* A call that got the thread from the archive shows all of it, though the *)
(* 302 page was written to the same gzip file before.                      *)
ArchiveWins == Settled /\ call.kako /\ dat # Absent => dat = Full(posted)

(* With broken connections as the only faults, the stored Last-Modified    *)
(* never promises more than the stored bytes hold: otherwise the server    *)
(* answers 304 and the missing responses stay hidden.                      *)
HonestHeader ==
  pc = "idle" /\ life = "main" /\ header # Absent => header <= Len(sjis)

Beginning(file) == Len(file) <= posted /\ \A i \in 1 .. Len(file) : file[i] = i

(* With broken connections as the only faults, the log is the beginning of *)
(* the thread, without gap, repetition or foreign bytes; only a thread the *)
(* server has dropped may leave an error page.                             *)
LogIsPrefix ==
  pc = "idle" /\ sjis # Absent =>
    Beginning(sjis) \/ (sjis = <<Junk>> /\ life # "main")

(* A response posted while the thread is alive is shown sooner or later if *)
(* the user keeps reloading and the connection breaks only so often.       *)
CatchesUp ==
  \A n \in 1 .. MaxPosts :
    (posted = n /\ life = "main") ~> (life # "main" \/ n \in Units(dat))

(* With broken connections as the only faults, the calls seen from outside *)
(* are the steps of ThreadMirror: between two calls the log is what the    *)
(* reader sees, during a call what it was when the call began.             *)
Mirror == INSTANCE ThreadMirror WITH
  shown <- IF pc = "idle" THEN sjis ELSE call.base,
  kept  <- IF pc = "idle" THEN dat # Absent /\ header # Absent ELSE call.path = "mod"
MirrorsThread == Mirror!Spec

(* ChangeLog:2035, "prevent to overwrite dat file when HTTP 302 received": *)
(* a call answered 302 does not leave an empty .dat where there were       *)
(* responses.  (With broken connections as the only faults the .sjis in    *)
(* call.base is what the .dat held, DatMatchesSjis.)                       *)
NotEmptiedBy302 ==
  Settled /\ call.status = 302 /\ Units(call.base) # {} => dat # <<>>

(* The comment on the 206 branch of DownloadThreadMod: the updated part is *)
(* added.                                                                  *)
UpdatedPartAdded ==
  Settled /\ call.status = 206 => header \in Units(sjis)
=============================================================================
