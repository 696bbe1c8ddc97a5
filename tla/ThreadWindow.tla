---------------------------- MODULE ThreadWindow ----------------------------
(***************************************************************************)
(* The window that shows a thread, as far as its links go: a click on the  *)
(* address of an image is handled by ImageViewer, and the mouse over an    *)
(* anchor shows the popup of Anchors, made from the log as it is then.     *)
(*                                                                         *)
(* A popup is gone before anything else is done, so it is not kept; only   *)
(* one that reads outside the log can change the state.                    *)
(***************************************************************************)
EXTENDS ImageViewer, Anchors

CONSTANT Logs  (* what the .dat file of the thread can be                  *)

(* The beginning of the thread or an error page: ThreadLog's LogIsPrefix.  *)
ASSUME LogsAssumption ==
  \A log \in Logs :
    \/ log = NoLog
    \/ /\ log \in Seq(Nat \cup {ErrorLine})
       /\ \A n \in 1 .. Len(log) : log[n] \in {n, ErrorLine}

VARIABLE dat   (* the .dat file of the thread                              *)

WindowTypeOK == TypeOK /\ dat \in Logs

WindowInit == Init /\ dat \in Logs

(* datFile[i-1] outside the file is undefined behaviour: a popup with some *)
(* text, which changes nothing, or the end of the program.                 *)
OnCellHover(start, end) ==
  /\ Listening /\ dat # NoLog /\ start <= MaxRes
  /\ ~Readable(dat, start, end)
  /\ End
  /\ UNCHANGED dat

Anchored == 0 .. MaxRes + 1

WindowNext ==
  \/ Next /\ UNCHANGED dat
  \/ \E start \in Anchored, end \in Anchored \cup {NoEnd} : OnCellHover(start, end)

WindowSpec == WindowInit /\ [][WindowNext]_<<vars, dat>>

(* The popup for a response, or a range of them, that the log has shows    *)
(* these responses.                                                        *)
PopupShowsResponses ==
  dat # NoLog =>
    \A start \in 1 .. MaxRes : start <= Len(dat) =>
      /\ Shows(FindAnchoredResponse(dat, start, NoEnd), dat, start, start)
      /\ \A end \in start .. MaxRes : end <= Len(dat) =>
           Shows(FindAnchoredResponse(dat, start, end), dat, start, end)
=============================================================================
