----------------------------- MODULE MCBoards -----------------------------
(***************************************************************************)
(* Instances of Boards for TLC.  Two versions of the page: in the second a *)
(* board has moved to another server, one is new, and an excluded heading  *)
(* stands between the two categories.                                      *)
(***************************************************************************)
EXTENDS Boards

CONSTANTS news, newsMoved, live, game, own, newsName, liveName, gameName, ownName, c1, c2, other

AllBoards == {news, newsMoved, live, game, own}
AllNames  == {newsName, liveName, gameName, ownName}
Named     == [b \in AllBoards |->
                CASE b \in {news, newsMoved} -> newsName
                  [] b = live -> liveName
                  [] b = game -> gameName
                  [] b = own  -> ownName]

TwoMenus == << <<c1, news, live, c2, game>>,
               <<c1, newsMoved, other, live, c2, game>> >>

(* A board of the user's own, registered under a category of the page.     *)
OwnRow == {[board |-> own, category |-> c1]}

(* A keyword found in the second board of one category and in the other    *)
(* category, and one found in the page's first board and the user's own.   *)
TwoKeywords == {{liveName, gameName}, {newsName, ownName}}

AllFaults == FaultKinds
=============================================================================
