------------------------------ MODULE Anchors ------------------------------
(***************************************************************************)
(* Popups for anchors: XrossBoardUtil::FindAnchoredResponse reads the .dat *)
(* file of a thread, one response to a line, and makes the page of the     *)
(* popup from the line, or the range of lines, the anchor names.           *)
(***************************************************************************)
EXTENDS Naturals, SequencesExt, Selection

CONSTANTS
  MaxRes,       (* the last response an anchor can name, 1000              *)
  ErrorLine,    (* a line that is no response: part of an error page       *)
  NoLog,        (* there is no .dat file                                   *)
  NoEnd         (* an anchor to one response                               *)

ASSUME AnchorsAssumption ==
  MaxRes \in Nat \ {0} /\ ErrorLine \notin Nat /\ NoEnd \notin Nat

NoPopup == <<>>

(* A line that neither expression for responses matches adds nothing.      *)
Text(line) == IF line = ErrorLine THEN <<>> ELSE <<line>>

(* One response; past the last line GetNextLine returns an empty one.      *)
OneResponse(dat, start) ==
  <<[number |-> start,
     texts  |-> IF start \in 1 .. Len(dat) THEN Text(dat[start]) ELSE <<>>]>>

(* Mutant: the loop over the range stops before its end.                   *)
SeveralButLast(dat, start, end) ==
  [k \in 1 .. end - start |->
     [number |-> start + k - 1,
      texts  |-> FlattenSeq([i \in 1 .. k |-> Text(dat[start + i - 1])])]]

(* A range, empty if it runs backwards.  The text of the responses is not  *)
(* reset between two turns of the loop: each item repeats the earlier ones.*)
SeveralResponses(dat, start, end) ==
  [k \in 1 .. end + 1 - start |->
     [number |-> start + k - 1,
      texts  |-> FlattenSeq([i \in 1 .. k |-> Text(dat[start + i - 1])])]]

(* Ranges are read without a look at the number of lines: only these can   *)
(* be read at all.                                                         *)
Readable(dat, start, end) ==
  end # NoEnd /\ start <= end /\ end <= MaxRes => start >= 1 /\ end <= Len(dat)

FindAnchoredResponse(dat, start, end) ==
  IF dat = NoLog \/ start > MaxRes \/ (end # NoEnd /\ end > MaxRes) THEN NoPopup
  ELSE IF end = NoEnd THEN OneResponse(dat, start)
  ELSE SeveralResponses(dat, start, end)

-----------------------------------------------------------------------------
(* What a reader expects of the popup for the responses start .. end, as   *)
(* far as the code keeps to it: one item for each, in order, the item of a *)
(* response ends with its text, no item shows one that was not asked for,  *)
(* and the last shows each of them once.                                   *)
Shows(popup, dat, start, end) ==
  /\ Len(popup) = end + 1 - start
  /\ \A k \in 1 .. Len(popup) :
       /\ popup[k].number = start + k - 1
       /\ ToSet(popup[k].texts) \subseteq start .. popup[k].number
       /\ dat[popup[k].number] # ErrorLine => Last(popup[k].texts) = popup[k].number
  /\ Last(popup).texts = Picked(dat, {n \in start .. end : dat[n] # ErrorLine})
=============================================================================
