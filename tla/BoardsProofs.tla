---------------------------- MODULE BoardsProofs ----------------------------
(***************************************************************************)
(* Theorems about Boards, for any boards, versions of the page and faults. *)
(***************************************************************************)
EXTENDS Boards, SelectionProofs

Contents == Seq(Items)

(* The types of the files and of the update that writes them.              *)
FilesOK ==
  /\ menu \in 1 .. Len(Menus)
  /\ html \in Contents \cup {Absent} /\ gzip \in Contents \cup {Absent}
  /\ buffer \in Contents
  /\ header \in Stamp \cup {Absent} /\ resp \in Stamp \cup {Absent}
  /\ pc \in {"save", "close", "fill"} => gzip # Absent

(* Every version of the page is a page, with a stamp of its own.           *)
LEMMA PageContents ==
  /\ Absent \notin Contents /\ Absent \notin Stamp /\ <<>> \in Contents
  /\ Len(Menus) \in Nat /\ 1 <= Len(Menus)
  /\ \A n \in 1 .. Len(Menus) : Menus[n] \in Contents
<1>1. Len(Menus) \in Nat /\ 1 <= Len(Menus)
  BY MenusAssumption
<1>2. \A n \in 1 .. Len(Menus) : Menus[n] \in Contents
  BY MenusAssumption, ElementOfSeq DEF Contents
<1> QED BY <1>1, <1>2, BoardsAssumption, EmptySeq DEF Contents, Stamp

(* What a broken transfer leaves of a page is a content.                   *)
LEMMA PartContents ==
  ASSUME NEW s \in Contents, NEW p \in Prefix(s)
  PROVE  p \in Contents
<1>1. PICK n \in 0 .. Len(s) : p = SubSeq(s, 1, n)
  BY DEF Prefix
<1>2. Len(s) \in Nat /\ \A i \in 1 .. n : s[i] \in Items
  BY LenProperties, ElementOfSeq DEF Contents
<1> QED BY <1>1, <1>2, SubSeqProperties DEF Contents

(* However much of a page the stream has written, the file and what the    *)
(* stream buffers are the page.                                            *)
LEMMA WrittenPage ==
  ASSUME NEW s \in Contents, WriteGzip(s)
  PROVE  gzip' \in Contents /\ buffer' \in Contents /\ gzip' \o buffer' = s
<1>1. PICK n \in 0 .. Len(s) : gzip' = SubSeq(s, 1, n) /\ buffer' = SubSeq(s, n + 1, Len(s))
  BY DEF WriteGzip
<1>2. Len(s) \in Nat /\ SubSeq(s, 1, Len(s)) = s /\ \A i \in 1 .. Len(s) : s[i] \in Items
  BY LenProperties, SubSeqFull, ElementOfSeq DEF Contents
<1>3. SubSeq(s, 1, n) \in Contents
  BY <1>2, SubSeqProperties DEF Contents
<1>4. SubSeq(s, n + 1, Len(s)) \in Contents
  <2> DEFINE m == n + 1
             k == Len(s)
  <2>1. m \in Int /\ k \in Int /\ \A i \in m .. k : s[i] \in Items
    BY <1>2
  <2>2. SubSeq(s, m, k) \in Contents
    <3> HIDE DEF m, k
    <3> QED BY <2>1, SubSeqProperties DEF Contents
  <2> QED BY <2>2
<1>5. SubSeq(s, 1, n) \o SubSeq(s, n + 1, Len(s)) = SubSeq(s, 1, Len(s))
  <2>1. 1 \in 1 .. Len(s) + 1 /\ n \in 1 - 1 .. Len(s) /\ Len(s) \in n .. Len(s)
    BY <1>2
  <2> QED BY <2>1, ConcatAdjacentSubSeq DEF Contents
<1> QED BY <1>1, <1>2, <1>3, <1>4, <1>5

(***************************************************************************)
(* The stored date and the stored page.  Between two updates they belong   *)
(* together; during one, what the page is about to become belongs to the   *)
(* date that is stored or about to be.                                     *)
(***************************************************************************)
Dated(stamp) == stamp \notin {Absent, NoStamp}

DateInv ==
  ~killed =>
    /\ pc \in {"idle", "mod", "delete", "extract", "show"} =>
         gzip = Absent /\ (Dated(header) => html = Menus[header])
    /\ pc = "new" => ~Dated(header)
    /\ pc = "save" /\ Dated(resp) => gzip \o buffer = Menus[resp]
    /\ pc = "close" /\ Dated(header) => gzip \o buffer = Menus[header]
    /\ pc \in {"open", "fill"} /\ Dated(header) =>
         Menus[header] = IF gzip = Absent THEN html ELSE gzip
    /\ pc = "remove" /\ Dated(header) => html = Menus[header]

(* A fresh installation has no files.                                      *)
LEMMA DateInit == Init => FilesOK /\ DateInv
BY PageContents DEF Init, FilesOK, DateInv, Dated

(* Every step keeps both, one case per action; a kill ends what DateInv    *)
(* promises.                                                               *)
LEMMA DateNext == FilesOK /\ DateInv /\ [Next]_vars => FilesOK' /\ DateInv'
<1> SUFFICES ASSUME FilesOK, DateInv, [Next]_vars PROVE FilesOK' /\ DateInv'
  OBVIOUS
<1> USE PageContents DEF FilesOK, files, rows, home, view, call, Goto
<1>0. Page \in Contents
  BY DEF Page
<1>1. CASE Answer
  <2>1. gzip' \in Contents /\ buffer' \in Contents /\ gzip' \o buffer' = Menus[menu]
    BY <1>0, <1>1, WrittenPage DEF Answer, Page
  <2> QED BY <1>1, <2>1 DEF Answer, DateInv, Dated, Stamp
<1>2. CASE NotModified
  BY <1>2 DEF NotModified, DateInv
<1>3. CASE ErrorPage
  BY <1>3 DEF ErrorPage, DateInv, Dated, Stamp, NoStamp
<1>4. CASE Broken
  <2>1. gzip' \in Contents \cup {Absent}
    BY <1>0, <1>4, PartContents DEF Broken
  <2> QED BY <1>4, <2>1 DEF Broken, DateInv
<1>5. CASE SaveHeader
  BY <1>5 DEF SaveHeader, DateInv
<1>6. CASE CloseGzip
  <2>1. gzip' \in Contents
    BY <1>6, ConcatProperties DEF CloseGzip, Contents
  <2> QED BY <1>6, <2>1 DEF CloseGzip, DateInv
<1>7. CASE OpenHtml
  <2>1. gzip # Absent => html' \in Contents
    BY <1>7, PartContents DEF OpenHtml
  <2> QED BY <1>7, <2>1 DEF OpenHtml, DateInv
<1>8. CASE ConvertSJISToUTF8
  BY <1>8 DEF ConvertSJISToUTF8, DateInv
<1>9. CASE RemoveTmpFile
  BY <1>9 DEF RemoveTmpFile, DateInv
<1>10. CASE DeleteTableData \/ SetBoardInfoCommit \/ ShowBoards
  BY <1>10 DEF DeleteTableData, SetBoardInfoCommit, ShowBoards, DateInv
<1>11. CASE OnGetBoardList
  BY <1>11 DEF OnGetBoardList, Ready, DownloadBoardList, DateInv, Dated, Stamp, NoStamp
<1>12. CASE OnInit
  BY <1>12 DEF OnInit, DownloadBoardList, DateInv, Dated, Stamp, NoStamp
<1>13. CASE Kill
  BY <1>13 DEF Kill, DateInv
<1>14. CASE MenuChanges
  BY <1>14 DEF MenuChanges, DateInv
<1>15. ASSUME UNCHANGED <<menu, files, pc, call, killed>> PROVE FilesOK' /\ DateInv'
  BY <1>15 DEF DateInv
<1>16. CASE \/ OnCloseWindow \/ SearchBoxClear \/ UNCHANGED vars
            \/ \E added \in Additions : CallNewBoardAddDialog(added)
            \/ \E keyword \in Keywords : SearchBoardTree(keyword)
  BY <1>15, <1>16
     DEF OnCloseWindow, SearchBoxClear, CallNewBoardAddDialog, SearchBoardTree, vars
<1> QED
  BY <1>1, <1>2, <1>3, <1>4, <1>5, <1>6, <1>7, <1>8, <1>9, <1>10, <1>11, <1>12, <1>13,
     <1>14, <1>16 DEF Next, Update, User

(* As long as no update was killed, whatever connections broke and error   *)
(* pages came, the stored date is that of the stored page.                 *)
THEOREM DatesSpeakForPages == Spec => []DateMatchesPage
<1>1. FilesOK /\ DateInv => DateMatchesPage
  BY DEF DateInv, Dated, DateMatchesPage
<1>2. Spec => [](FilesOK /\ DateInv)
  BY DateInit, DateNext, PTL DEF Spec
<1> QED BY <1>1, <1>2, PTL

(***************************************************************************)
(* What is read from the page and the table.                               *)
(***************************************************************************)
(* The rows read from a page are rows, and there are none on an empty page.*)
LEMMA RowsOfPage ==
  /\ \A page \in Contents : FindBoardInfo(page) \in Seq(Row)
  /\ FindBoardInfo(<<>>) = <<>>
<1>1. ASSUME NEW page \in Contents PROVE FindBoardInfo(page) \in Seq(Row)
  <2> DEFINE found == {i \in 1 .. Len(page) : page[i] \in Boards /\ Headings(page, i) # {}}
             order == Ascending(found)
  <2>1. Len(page) \in Nat
    BY LenProperties DEF Contents
  <2>2. order \in Seq(found) /\ Len(order) \in Nat /\ \A n \in 1 .. Len(order) : order[n] \in found
    BY <2>1, Places, AscendingLists
  <2>3. ASSUME NEW i \in found PROVE RowAt(page, i) \in Row
    <3>1. Headings(page, i) \in SUBSET (0 .. i) /\ i \in Nat /\ Headings(page, i) # {}
      BY <2>1 DEF Headings
    <3>2. Max(Headings(page, i)) \in Headings(page, i)
      BY <3>1, MaxIsGreatest
    <3>3. page[Max(Headings(page, i))] \in Categories
      BY <3>2 DEF Headings
    <3> QED BY <3>3 DEF RowAt, Row
  <2>4. [n \in 1 .. Len(order) |-> RowAt(page, order[n])] \in [1 .. Len(order) -> Row]
    BY <2>2, <2>3
  <2>5. \A k \in Nat : \A f \in [1 .. k -> Row] : f \in Seq(Row)
    BY SeqDef
  <2>6. [n \in 1 .. Len(order) |-> RowAt(page, order[n])] \in Seq(Row)
    <3> HIDE DEF order
    <3> QED BY <2>2, <2>4, <2>5
  <2> QED BY <2>6 DEF FindBoardInfo
<1>2. FindBoardInfo(<<>>) = <<>>
  <2>1. {i \in 1 .. Len(<<>>) : <<>>[i] \in Boards /\ Headings(<<>>, i) # {}} = {}
    OBVIOUS
  <2>2. FindBoardInfo(<<>>) = [n \in 1 .. Len(Ascending({})) |-> RowAt(<<>>, Ascending({})[n])]
    BY <2>1 DEF FindBoardInfo
  <2>3. Ascending({}) = <<>> /\ 1 .. Len(<<>>) = {}
    BY NothingAscends
  <2> QED BY <2>2, <2>3
<1> QED BY <1>1, <1>2

(* Whoever reads the table sees its rows and no others.                    *)
LEMMA RowsOfTable ==
  ASSUME NEW t \in Seq(Row)
  PROVE  /\ GetBoardInfo(t) \in Seq(Row)
         /\ \A i \in 1 .. Len(GetBoardInfo(t)) : \E j \in 1 .. Len(t) : GetBoardInfo(t)[i] = t[j]
         /\ \A j \in 1 .. Len(t) : \E i \in 1 .. Len(GetBoardInfo(t)) : GetBoardInfo(t)[i] = t[j]
<1>1. CASE t = <<>>
  BY <1>1 DEF GetBoardInfo
<1>2. CASE t # <<>>
  <2>1. Len(t) \in Nat /\ 1 \in 1 .. Len(t)
    BY <1>2, EmptySeq, LenProperties
  <2>2. t[1] \in Row
    BY <2>1, ElementOfSeq
  <2> DEFINE one == <<t[1]>>
  <2>3. one \in Seq(Row) /\ Len(one) = 1 /\ one[1] = t[1]
    BY <2>2
  <2>4. GetBoardInfo(t) = one \o t
    BY <1>2 DEF GetBoardInfo
  <2> HIDE DEF one
  <2>5. /\ one \o t \in Seq(Row) /\ Len(one \o t) = 1 + Len(t)
        /\ \A i \in 1 .. 1 + Len(t) : (one \o t)[i] = IF i <= 1 THEN one[i] ELSE t[i - 1]
    BY <2>3, ConcatProperties
  <2>6. (one \o t)[1] = t[1]
    BY <2>1, <2>3, <2>5
  <2>7. \A j \in 1 .. Len(t) : j + 1 \in 1 .. 1 + Len(t) /\ (one \o t)[j + 1] = t[j]
    BY <2>1, <2>5
  <2>8. ASSUME NEW i \in 1 .. 1 + Len(t) PROVE \E j \in 1 .. Len(t) : (one \o t)[i] = t[j]
    <3>1. CASE i = 1
      BY <2>1, <2>6, <3>1
    <3>2. CASE i # 1
      <4>1. i - 1 \in 1 .. Len(t) /\ ~(i <= 1)
        BY <2>1, <3>2
      <4> QED BY <2>5, <4>1
    <3> QED BY <3>1, <3>2
  <2> QED BY <2>4, <2>5, <2>7, <2>8
<1> QED BY <1>1, <1>2

(* retainHash finds for every name in the rows a row of that name.         *)
LEMMA RowsByName ==
  ASSUME NEW s \in Seq(Row)
  PROVE  /\ HashOf(s) \in [Names -> Boards \cup {Blank}]
         /\ \A i \in 1 .. Len(s) : \E j \in 1 .. Len(s) :
              /\ HashOf(s)[NameOf[s[i].board]] = s[j].board
              /\ NameOf[s[i].board] = NameOf[s[j].board]
<1>1. Len(s) \in Nat /\ \A i \in 1 .. Len(s) : s[i] \in Row
  BY LenProperties, ElementOfSeq
<1>2. ASSUME NEW n \in Names, PlacesOf(s, n) # {}
      PROVE  Max(PlacesOf(s, n)) \in PlacesOf(s, n)
  <2>1. PlacesOf(s, n) \in SUBSET (0 .. Len(s))
    BY <1>1 DEF PlacesOf
  <2> QED BY <1>1, <1>2, <2>1, MaxIsGreatest
<1>3. ASSUME NEW n \in Names, PlacesOf(s, n) # {}
      PROVE  \E j \in 1 .. Len(s) : s[Max(PlacesOf(s, n))] = s[j] /\ NameOf[s[j].board] = n
  BY <1>2, <1>3 DEF PlacesOf
<1>4. ASSUME NEW n \in Names PROVE HashOf(s)[n] \in Boards \cup {Blank}
  <2>1. CASE PlacesOf(s, n) = {}
    BY <2>1 DEF HashOf
  <2>2. CASE PlacesOf(s, n) # {}
    BY <1>1, <1>3, <2>2 DEF HashOf, Row
  <2> QED BY <2>1, <2>2
<1>5. ASSUME NEW i \in 1 .. Len(s)
      PROVE  \E j \in 1 .. Len(s) : /\ HashOf(s)[NameOf[s[i].board]] = s[j].board
                                    /\ NameOf[s[i].board] = NameOf[s[j].board]
  <2> DEFINE n == NameOf[s[i].board]
  <2>1. n \in Names
    BY <1>1, BoardsAssumption DEF Row
  <2>2. PlacesOf(s, n) # {}
    BY DEF PlacesOf
  <2>3. HashOf(s)[n] = s[Max(PlacesOf(s, n))].board
    BY <2>1, <2>2 DEF HashOf
  <2> QED BY <1>3, <2>1, <2>2, <2>3
<1>6. HashOf(s) \in [Names -> Boards \cup {Blank}]
  BY <1>4 DEF HashOf
<1> QED BY <1>5, <1>6

(* The first row of a category begins a run of rows of this category.      *)
LEMMA RunOfCategory ==
  ASSUME NEW s \in Seq(Row), NEW i \in 1 .. Len(s)
  PROVE  \E k \in RunStarts(s) : s[k].category = s[i].category
<1> DEFINE T == {k \in 1 .. Len(s) : s[k].category = s[i].category}
<1>1. Len(s) \in Nat /\ T \in SUBSET Nat /\ i \in T
  BY LenProperties
<1>2. PICK m \in T : \A k \in T : m <= k
  BY <1>1, LeastNumber
<1>3. m \in RunStarts(s)
  <2>1. CASE m = 1
    BY <2>1 DEF RunStarts
  <2>2. CASE m # 1
    <3>1. m - 1 \in 1 .. Len(s) /\ ~(m <= m - 1)
      BY <1>1, <2>2
    <3>2. m - 1 \notin T
      BY <1>2, <3>1
    <3> QED BY <3>1, <3>2 DEF RunStarts
  <2> QED BY <2>1, <2>2
<1> QED BY <1>3

(* What a search shows are rows of the table, of the categories that have  *)
(* matching rows and of no other.                                          *)
LEMMA RowsOfSearch ==
  ASSUME NEW t \in Seq(Row), NEW keyword
  PROVE  /\ MatchingRows(t, keyword) \in Seq(Row)
         /\ \A i \in 1 .. Len(MatchingRows(t, keyword)) : \E j \in 1 .. Len(t) :
              MatchingRows(t, keyword)[i] = t[j]
         /\ CategoriesOf(MatchingRows(t, keyword)) =
              {r.category : r \in {q \in ToSet(t) : NameOf[q.board] \in keyword}}
<1> DEFINE all  == GetBoardInfo(t)
           hits == Picked(all, Hits(all, keyword))
           pick == Picked(hits, RunStarts(hits))
<1>1. /\ all \in Seq(Row)
      /\ \A i \in 1 .. Len(all) : \E j \in 1 .. Len(t) : all[i] = t[j]
      /\ \A j \in 1 .. Len(t) : \E i \in 1 .. Len(all) : all[i] = t[j]
  BY RowsOfTable
<1>2. MatchingRows(t, keyword) = pick
  BY DEF MatchingRows
<1>3. Hits(all, keyword) \in SUBSET (1 .. Len(all))
      /\ \A i \in 1 .. Len(all) : i \in Hits(all, keyword) <=> NameOf[all[i].board] \in keyword
  BY DEF Hits
<1> HIDE DEF all
<1>4. /\ hits \in Seq(Row)
      /\ \A n \in 1 .. Len(hits) : \E i \in 1 .. Len(all) :
           hits[n] = all[i] /\ NameOf[all[i].board] \in keyword
      /\ \A i \in 1 .. Len(all) : NameOf[all[i].board] \in keyword =>
           \E n \in 1 .. Len(hits) : hits[n] = all[i]
  <2>1. /\ hits \in Seq(Row) /\ Len(hits) = Cardinality(Hits(all, keyword))
        /\ \A n \in 1 .. Cardinality(Hits(all, keyword)) :
             /\ Ascending(Hits(all, keyword))[n] \in Hits(all, keyword)
             /\ hits[n] = all[Ascending(Hits(all, keyword))[n]]
        /\ \A i \in Hits(all, keyword) :
             \E n \in 1 .. Cardinality(Hits(all, keyword)) : hits[n] = all[i]
    BY <1>1, <1>3, PickedLists
  <2> QED BY <1>3, <2>1
<1>5. RunStarts(hits) \in SUBSET (1 .. Len(hits))
  BY DEF RunStarts
<1> HIDE DEF hits
<1>6. /\ pick \in Seq(Row)
      /\ \A n \in 1 .. Len(pick) : \E i \in 1 .. Len(hits) : pick[n] = hits[i]
      /\ \A i \in RunStarts(hits) : \E n \in 1 .. Len(pick) : pick[n] = hits[i]
  <2>1. /\ pick \in Seq(Row) /\ Len(pick) = Cardinality(RunStarts(hits))
        /\ \A n \in 1 .. Cardinality(RunStarts(hits)) :
             /\ Ascending(RunStarts(hits))[n] \in RunStarts(hits)
             /\ pick[n] = hits[Ascending(RunStarts(hits))[n]]
        /\ \A i \in RunStarts(hits) :
             \E n \in 1 .. Cardinality(RunStarts(hits)) : pick[n] = hits[i]
    BY <1>4, <1>5, PickedLists
  <2> QED BY <1>5, <2>1
<1> HIDE DEF pick
<1>7. ASSUME NEW n \in 1 .. Len(pick)
      PROVE  \E j \in 1 .. Len(t) : pick[n] = t[j] /\ NameOf[t[j].board] \in keyword
  <2>1. PICK m \in 1 .. Len(hits) : pick[n] = hits[m]
    BY <1>6
  <2>2. PICK i \in 1 .. Len(all) : hits[m] = all[i] /\ NameOf[all[i].board] \in keyword
    BY <1>4
  <2>3. PICK j \in 1 .. Len(t) : all[i] = t[j]
    BY <1>1
  <2> QED BY <2>1, <2>2, <2>3
<1>8. ASSUME NEW j \in 1 .. Len(t), NameOf[t[j].board] \in keyword
      PROVE  \E n \in 1 .. Len(pick) : pick[n].category = t[j].category
  <2>1. PICK i \in 1 .. Len(all) : all[i] = t[j]
    BY <1>1
  <2>2. PICK m \in 1 .. Len(hits) : hits[m] = all[i]
    BY <1>4, <1>8, <2>1
  <2>3. PICK k \in RunStarts(hits) : hits[k].category = hits[m].category
    BY <1>4, RunOfCategory
  <2>4. PICK n \in 1 .. Len(pick) : pick[n] = hits[k]
    BY <1>6
  <2> QED BY <2>1, <2>2, <2>3, <2>4
<1>9. CategoriesOf(pick) = {r.category : r \in {q \in ToSet(t) : NameOf[q.board] \in keyword}}
  <2>1. \A q : q \in ToSet(t) <=> \E j \in 1 .. Len(t) : q = t[j]
    BY DEF ToSet
  <2>2. ASSUME NEW c \in CategoriesOf(pick)
        PROVE  c \in {r.category : r \in {q \in ToSet(t) : NameOf[q.board] \in keyword}}
    <3>1. PICK n \in 1 .. Len(pick) : c = pick[n].category
      BY DEF CategoriesOf
    <3> QED BY <1>7, <2>1, <3>1
  <2>3. ASSUME NEW r \in {q \in ToSet(t) : NameOf[q.board] \in keyword}
        PROVE  r.category \in CategoriesOf(pick)
    <3>1. PICK j \in 1 .. Len(t) : r = t[j]
      BY <2>1
    <3>2. PICK n \in 1 .. Len(pick) : pick[n].category = t[j].category
      BY <1>8, <3>1
    <3> QED BY <3>1, <3>2 DEF CategoriesOf
  <2>4. ASSUME NEW c \in {r.category : r \in {q \in ToSet(t) : NameOf[q.board] \in keyword}}
        PROVE  c \in CategoriesOf(pick)
    BY <2>3
  <2> QED BY <2>2, <2>4
<1> QED BY <1>2, <1>6, <1>7, <1>9

(***************************************************************************)
(* The tables, and what the window shows of them.                          *)
(***************************************************************************)
(* A page is there where the update needs one; a download that succeeded   *)
(* leaves one to convert or had one to start from.                         *)
TableOK ==
  /\ table \in Seq(Row) /\ outside \in 0 .. MaxOutside /\ outside <= Len(table)
  /\ installed \in BOOLEAN /\ created \in BOOLEAN /\ window \in BOOLEAN
  /\ ~created => table = <<>>
  /\ tree \in Seq(Row) /\ retainHash \in [Names -> Boards \cup {Blank}]
  /\ pc \in PCs
  /\ pc = "mod" => html # Absent /\ header # Absent
  /\ pc = "open" /\ rc = 0 => gzip # Absent \/ html # Absent
  /\ pc = "remove" /\ rc = 0 => html # Absent
  /\ pc \in {"delete", "extract"} => html # Absent
  /\ rc \in {0, -1} /\ faults \in 0 .. MaxFaults /\ killed \in BOOLEAN

(* While a board can be chosen, retainHash is that of the table and every  *)
(* row of the tree is a row of it.                                         *)
TreeInv ==
  window /\ pc \notin {"extract", "show"} =>
    /\ retainHash = HashOf(GetBoardInfo(table))
    /\ \A i \in 1 .. Len(tree) : \E j \in 1 .. Len(table) : tree[i] = table[j]

(* Before the first start nothing is shown and no name is known.           *)
LEMMA NothingKnown == Nothing \in [Names -> Boards \cup {Blank}]
BY DEF Nothing

(* Before the first start the table and the tree are empty.                *)
LEMMA TableInit == Init => TableOK /\ TreeInv
<1> SUFFICES ASSUME Init PROVE TableOK /\ TreeInv
  OBVIOUS
<1>1. <<>> \in Seq(Row) /\ Len(<<>>) = 0
  BY EmptySeq
<1>2. 0 \in 0 .. MaxOutside /\ 0 \in 0 .. MaxFaults
  BY LimitsAssumption
<1>3. retainHash \in [Names -> Boards \cup {Blank}]
  BY NothingKnown DEF Init
<1>4. table \in Seq(Row) /\ outside <= Len(table) /\ tree \in Seq(Row)
  BY <1>1 DEF Init
<1>5. TableOK
  BY <1>2, <1>3, <1>4 DEF Init, TableOK, PCs
<1> QED BY <1>5 DEF Init, TreeInv

(* What the boards are shown from is what is shown.                        *)
LEMMA ShownRows ==
  ASSUME NEW t \in Seq(Row), NEW updateHash \in BOOLEAN, SetBoardList(t, updateHash)
  PROVE  /\ tree' \in Seq(Row)
         /\ \A i \in 1 .. Len(tree') : \E j \in 1 .. Len(t) : tree'[i] = t[j]
         /\ updateHash => /\ retainHash' = HashOf(GetBoardInfo(t))
                          /\ retainHash' \in [Names -> Boards \cup {Blank}]
         /\ ~updateHash => retainHash' = retainHash
<1>1. /\ GetBoardInfo(t) \in Seq(Row)
      /\ \A i \in 1 .. Len(GetBoardInfo(t)) : \E j \in 1 .. Len(t) : GetBoardInfo(t)[i] = t[j]
  BY RowsOfTable
<1>2. HashOf(GetBoardInfo(t)) \in [Names -> Boards \cup {Blank}]
  BY <1>1, RowsByName
<1> QED BY <1>1, <1>2 DEF SetBoardList

(* The rows of an addition stand behind those of the page.                 *)
LEMMA AddedRows ==
  ASSUME FilesOK, TableOK, NEW added \in Additions
  PROVE  /\ added \in Seq(Row) /\ table \o added \in Seq(Row)
         /\ Len(added) \in Nat /\ Len(table) \in Nat /\ Len(table \o added) = Len(table) + Len(added)
         /\ outside + Len(added) \in 0 .. MaxOutside
<1>1. CASE added = <<>>
  <2>1. added \in Seq(Row) /\ Len(added) = 0
    BY <1>1, EmptySeq
  <2> QED BY <2>1, ConcatProperties, LenProperties, LimitsAssumption DEF TableOK
<1>2. CASE added # <<>>
  <2>1. outside < MaxOutside /\ \E r \in OutsideRows : added = <<r>>
    BY <1>2 DEF Additions
  <2>2. added \in Seq(Row) /\ Len(added) = 1
    BY <2>1, UserAssumption
  <2> QED BY <2>1, <2>2, ConcatProperties, LenProperties, LimitsAssumption DEF TableOK
<1> QED BY <1>1, <1>2

(* Where there is a table the rows are stored; where there is none, there  *)
(* are still no rows.                                                      *)
LEMMA StoredRows ==
  ASSUME TableOK, created' = created,
         NEW t \in Seq(Row), NEW own \in 0 .. MaxOutside, own <= Len(t), StoreRows(t, own)
  PROVE  /\ table' \in Seq(Row) /\ outside' \in 0 .. MaxOutside /\ outside' <= Len(table')
         /\ ~created' => table' = <<>>
BY DEF StoreRows, TableOK, rows

(* Every step keeps both: what changes the table while the window is ready *)
(* shows it anew, and an update ends by showing it.                        *)
LEMMA TableNext ==
  FilesOK /\ TableOK /\ TreeInv /\ [Next]_vars => TableOK' /\ TreeInv'
<1> SUFFICES ASSUME FilesOK, TableOK, TreeInv, [Next]_vars PROVE TableOK' /\ TreeInv'
  OBVIOUS
<1> USE DEF files, rows, home, view, call, Goto
<1>0. Page \in Contents /\ Absent \notin Contents
  BY PageContents DEF Page, FilesOK
<1>1. CASE Answer
  BY <1>1 DEF Answer, TableOK, TreeInv, PCs
<1>2. CASE NotModified
  BY <1>2 DEF NotModified, TableOK, TreeInv, PCs
<1>3. CASE ErrorPage
  BY <1>3, LimitsAssumption DEF ErrorPage, Fault, TableOK, TreeInv, PCs
<1>4. CASE Broken
  BY <1>4, LimitsAssumption DEF Broken, Fault, TableOK, TreeInv, PCs
<1>5. CASE SaveHeader
  BY <1>5 DEF SaveHeader, TableOK, TreeInv, PCs
<1>6. CASE CloseGzip
  <2>1. gzip' # Absent
    BY <1>0, <1>6, ConcatProperties DEF CloseGzip, Contents, FilesOK
  <2> QED BY <1>6, <2>1 DEF CloseGzip, TableOK, TreeInv, PCs
<1>7. CASE OpenHtml
  BY <1>7 DEF OpenHtml, TableOK, TreeInv, PCs
<1>8. CASE ConvertSJISToUTF8
  BY <1>8 DEF ConvertSJISToUTF8, FilesOK, TableOK, TreeInv, PCs
<1>9. CASE RemoveTmpFile
  BY <1>9 DEF RemoveTmpFile, TableOK, TreeInv, PCs
<1>10. CASE DeleteTableData
  <2>1. <<>> \in Seq(Row) /\ Len(<<>>) = 0 /\ 0 \in 0 .. MaxOutside /\ 0 <= 0
    BY EmptySeq, LimitsAssumption
  <2>2. /\ table' \in Seq(Row) /\ outside' \in 0 .. MaxOutside /\ outside' <= Len(table')
        /\ ~created' => table' = <<>>
    BY <1>10, <2>1, StoredRows DEF DeleteTableData
  <2> QED BY <1>10, <2>2 DEF DeleteTableData, TableOK, TreeInv, PCs
<1>11. CASE SetBoardInfoCommit
  <2>1. FindBoardInfo(html) \in Seq(Row)
    BY <1>11, RowsOfPage DEF SetBoardInfoCommit, TableOK, FilesOK
  <2>2. 0 <= Len(FindBoardInfo(html)) /\ 0 \in 0 .. MaxOutside
    BY <2>1, LenProperties, LimitsAssumption
  <2>3. /\ table' \in Seq(Row) /\ outside' \in 0 .. MaxOutside /\ outside' <= Len(table')
        /\ ~created' => table' = <<>>
    BY <1>11, <2>1, <2>2, StoredRows DEF SetBoardInfoCommit
  <2> QED BY <1>11, <2>3 DEF SetBoardInfoCommit, TableOK, TreeInv, PCs
<1>12. CASE ShowBoards
  <2>1. table \in Seq(Row) /\ SetBoardList(table, TRUE)
    BY <1>12 DEF ShowBoards, TableOK
  <2> QED BY <1>12, <2>1, ShownRows DEF ShowBoards, TableOK, TreeInv, PCs
<1>13. CASE OnGetBoardList
  BY <1>13 DEF OnGetBoardList, Ready, DownloadBoardList, TableOK, TreeInv, PCs
<1>14. CASE OnInit
  BY <1>14 DEF OnInit, DownloadBoardList, TableOK, TreeInv, PCs
<1>15. CASE OnCloseWindow
  BY <1>15, NothingKnown, EmptySeq DEF OnCloseWindow, Ready, Gone, TableOK, TreeInv, PCs
<1>16. CASE Kill
  <2>1. faults' \in 0 .. MaxFaults
    BY <1>16, LimitsAssumption DEF Kill, Fault, TableOK
  <2>2. tree' \in Seq(Row) /\ retainHash' \in [Names -> Boards \cup {Blank}]
    BY <1>16, NothingKnown, EmptySeq DEF Kill, Gone
  <2> QED BY <1>16, <2>1, <2>2 DEF Kill, Gone, TableOK, TreeInv, PCs
<1>17. ASSUME NEW added \in Additions, CallNewBoardAddDialog(added) PROVE TableOK' /\ TreeInv'
  <2>0. table \o added \in Seq(Row) /\ outside + Len(added) <= Len(table \o added)
        /\ outside + Len(added) \in 0 .. MaxOutside
    BY AddedRows DEF TableOK
  <2>1. /\ table' \in Seq(Row) /\ outside' \in 0 .. MaxOutside /\ outside' <= Len(table')
        /\ ~created' => table' = <<>>
    BY <1>17, <2>0, StoredRows DEF CallNewBoardAddDialog
  <2>2. SetBoardList(table', TRUE)
    BY <1>17 DEF CallNewBoardAddDialog
  <2>3. /\ tree' \in Seq(Row) /\ retainHash' = HashOf(GetBoardInfo(table'))
        /\ retainHash' \in [Names -> Boards \cup {Blank}]
        /\ \A i \in 1 .. Len(tree') : \E j \in 1 .. Len(table') : tree'[i] = table'[j]
    BY <2>1, <2>2, ShownRows
  <2> QED BY <1>17, <2>1, <2>3 DEF CallNewBoardAddDialog, Ready, TableOK, TreeInv, PCs
<1>18. ASSUME NEW keyword \in Keywords, SearchBoardTree(keyword) PROVE TableOK' /\ TreeInv'
  <2>1. /\ MatchingRows(table, keyword) \in Seq(Row)
        /\ \A i \in 1 .. Len(MatchingRows(table, keyword)) :
             \E j \in 1 .. Len(table) : MatchingRows(table, keyword)[i] = table[j]
    BY RowsOfSearch DEF TableOK
  <2> QED BY <1>18, <2>1 DEF SearchBoardTree, Ready, TableOK, TreeInv, PCs
<1>19. CASE SearchBoxClear
  <2>1. table \in Seq(Row) /\ SetBoardList(table, FALSE)
    BY <1>19 DEF SearchBoxClear, TableOK
  <2> QED BY <1>19, <2>1, ShownRows DEF SearchBoxClear, Ready, TableOK, TreeInv, PCs
<1>20. CASE MenuChanges
  BY <1>20 DEF MenuChanges, TableOK, TreeInv, PCs
<1>21. CASE UNCHANGED vars
  BY <1>21 DEF vars, TableOK, TreeInv, PCs
<1> QED
  BY <1>1, <1>2, <1>3, <1>4, <1>5, <1>6, <1>7, <1>8, <1>9, <1>10, <1>11, <1>12, <1>13,
     <1>14, <1>15, <1>16, <1>17, <1>18, <1>19, <1>20, <1>21 DEF Next, Update, User

(***************************************************************************)
(* Whole pages.  As long as no update was killed, what a download that     *)
(* succeeded hands on is empty, an error page's, or all of a version.      *)
(***************************************************************************)
Whole     == {<<>>} \cup {Menus[n] : n \in 1 .. Len(Menus)}
WholeList == {<<>>} \cup {FindBoardInfo(Menus[n]) : n \in 1 .. Len(Menus)}

FromPage(t, own) == SubSeq(t, 1, Len(t) - own)

WholeInv ==
  ~killed =>
    /\ rc = 0 /\ pc \in {"save", "close"} => gzip \o buffer \in Whole
    /\ rc = 0 /\ pc \in {"open", "fill"} => (IF gzip = Absent THEN html ELSE gzip) \in Whole
    /\ rc = 0 /\ pc = "remove" => html \in Whole
    /\ pc \in {"delete", "extract"} => html \in Whole
    /\ FromPage(table, outside) \in WholeList

(* An empty table has no rows of a page.                                   *)
LEMMA NoRows == FromPage(<<>>, 0) = <<>>
BY SubSeqEmpty, EmptySeq DEF FromPage

(* The rows the user adds leave those of the page as they are.             *)
LEMMA PageRowsKept ==
  ASSUME NEW t \in Seq(Row), NEW added \in Seq(Row), NEW own \in 0 .. Len(t)
  PROVE  FromPage(t \o added, own + Len(added)) = FromPage(t, own)
<1> DEFINE n == Len(t) - own
<1>1. Len(t) \in Nat /\ Len(added) \in Nat /\ Len(t \o added) = Len(t) + Len(added)
  BY LenProperties, ConcatProperties
<1>2. n \in Int /\ Len(t \o added) - (own + Len(added)) = n
  BY <1>1
<1>3. CASE n < 1
  <2>1. SubSeq(t \o added, 1, n) = <<>> /\ SubSeq(t, 1, n) = <<>>
    <3> HIDE DEF n
    <3> QED BY <1>2, <1>3, SubSeqEmpty
  <2> QED BY <1>2, <2>1 DEF FromPage
<1>4. CASE ~(n < 1)
  <2>1. 1 \in 1 .. Len(t) /\ n \in 1 .. Len(t)
    BY <1>1, <1>4
  <2>2. SubSeq(t \o added, 1, n) = SubSeq(t, 1, n)
    <3> HIDE DEF n
    <3> QED BY <2>1, SubSeqOfConcat1
  <2> QED BY <1>2, <2>2 DEF FromPage
<1> QED BY <1>3, <1>4

(* ... and nothing of a list is in the table.                              *)
LEMMA WholeInit == Init => WholeInv
BY NoRows DEF Init, WholeInv, WholeList

(* Every step keeps it: a failed download is not extracted, and a 304      *)
(* leaves the page that DateInv says is whole.                             *)
LEMMA WholeNext ==
  FilesOK /\ DateInv /\ TableOK /\ WholeInv /\ [Next]_vars => WholeInv'
<1> SUFFICES ASSUME FilesOK, DateInv, TableOK, WholeInv, [Next]_vars PROVE WholeInv'
  OBVIOUS
<1> USE DEF files, rows, home, view, call, Goto
<1>u. UNCHANGED <<table, outside>> => FromPage(table, outside)' = FromPage(table, outside)
  BY DEF FromPage
<1>v. Whole' = Whole /\ WholeList' = WholeList
  BY DEF Whole, WholeList, FindBoardInfo, Headings, RowAt
<1>0. Page \in Contents /\ Page \in Whole /\ Absent \notin Contents
  BY PageContents DEF Page, FilesOK, Whole
<1>1. CASE Answer
  <2>1. gzip' \o buffer' = Page
    BY <1>0, <1>1, WrittenPage DEF Answer
  <2> QED BY <1>0, <1>1, <1>u, <1>v, <2>1 DEF Answer, WholeInv
<1>2. CASE NotModified
  <2>1. header \in 1 .. Len(Menus) /\ ~killed => html = Menus[header] /\ gzip = Absent
    BY <1>2, PageContents DEF NotModified, DateInv, Dated, FilesOK, NoStamp, Stamp
  <2>2. header \in 1 .. Len(Menus)
    BY <1>2 DEF NotModified, FilesOK
  <2>3. ~killed => html \in Whole
    BY <2>1, <2>2 DEF Whole
  <2> QED BY <1>2, <1>u, <1>v, <2>1, <2>2, <2>3 DEF NotModified, WholeInv
<1>3. CASE ErrorPage
  <2>1. <<>> \o <<>> \in Whole
    BY EmptySeq, ConcatEmptySeq DEF Whole
  <2> QED BY <1>3, <1>u, <1>v, <2>1 DEF ErrorPage, WholeInv
<1>4. CASE Broken
  BY <1>4, <1>u, <1>v DEF Broken, WholeInv
<1>5. CASE SaveHeader
  BY <1>5, <1>u, <1>v DEF SaveHeader, WholeInv
<1>6. CASE CloseGzip
  <2>1. gzip' # Absent
    BY <1>0, <1>6, ConcatProperties DEF CloseGzip, Contents, FilesOK
  <2> QED BY <1>6, <1>u, <1>v, <2>1 DEF CloseGzip, WholeInv
<1>7. CASE OpenHtml
  BY <1>7, <1>u, <1>v DEF OpenHtml, WholeInv
<1>8. CASE ConvertSJISToUTF8
  BY <1>8, <1>u, <1>v DEF ConvertSJISToUTF8, WholeInv, FilesOK
<1>9. CASE RemoveTmpFile
  BY <1>9, <1>u, <1>v DEF RemoveTmpFile, WholeInv
<1>10. CASE DeleteTableData
  <2>1. UNCHANGED <<table, outside>> \/ FromPage(table', outside') \in WholeList
    BY <1>10, NoRows DEF DeleteTableData, StoreRows, WholeList
  <2> QED BY <1>10, <1>u, <1>v, <2>1 DEF DeleteTableData, WholeInv
<1>11. CASE SetBoardInfoCommit
  <2>1. FindBoardInfo(html) \in Seq(Row)
    BY <1>11, RowsOfPage DEF SetBoardInfoCommit, TableOK, FilesOK
  <2>2. FromPage(FindBoardInfo(html), 0) = FindBoardInfo(html)
    <3>1. Len(FindBoardInfo(html)) - 0 = Len(FindBoardInfo(html))
      BY <2>1, LenProperties
    <3> QED BY <2>1, <3>1, SubSeqFull DEF FromPage
  <2>3. ~killed => html \in Whole
    BY <1>11 DEF SetBoardInfoCommit, WholeInv
  <2>4. ~killed => FindBoardInfo(html) \in WholeList
    BY <2>3, RowsOfPage DEF Whole, WholeList
  <2>5. UNCHANGED <<table, outside>> \/ FromPage(table', outside') = FindBoardInfo(html)
    BY <1>11, <2>2 DEF SetBoardInfoCommit, StoreRows
  <2> QED BY <1>11, <1>u, <1>v, <2>4, <2>5 DEF SetBoardInfoCommit, WholeInv
<1>12. CASE ShowBoards
  BY <1>12, <1>u, <1>v DEF ShowBoards, WholeInv
<1>13. CASE OnGetBoardList
  BY <1>13, <1>u, <1>v DEF OnGetBoardList, Ready, DownloadBoardList, WholeInv
<1>14. CASE OnInit
  BY <1>14, <1>u, <1>v DEF OnInit, DownloadBoardList, WholeInv
<1>15. CASE OnCloseWindow
  BY <1>15, <1>u, <1>v DEF OnCloseWindow, Ready, WholeInv
<1>16. CASE Kill
  BY <1>16 DEF Kill, WholeInv
<1>17. ASSUME NEW added \in Additions, CallNewBoardAddDialog(added) PROVE WholeInv'
  <2>1. added \in Seq(Row) /\ table \in Seq(Row) /\ outside \in 0 .. Len(table)
    BY AddedRows, LenProperties DEF TableOK
  <2>2. FromPage(table', outside') = FromPage(table, outside)
    BY <1>17, <1>u, <2>1, PageRowsKept DEF CallNewBoardAddDialog, StoreRows
  <2> QED BY <1>17, <1>v, <2>2 DEF CallNewBoardAddDialog, Ready, WholeInv
<1>18. ASSUME NEW keyword \in Keywords, SearchBoardTree(keyword) PROVE WholeInv'
  BY <1>18, <1>u, <1>v DEF SearchBoardTree, Ready, WholeInv
<1>19. CASE SearchBoxClear
  BY <1>19, <1>u, <1>v DEF SearchBoxClear, Ready, WholeInv
<1>20. CASE MenuChanges
  BY <1>20, <1>u, <1>v DEF MenuChanges, WholeInv
<1>21. CASE UNCHANGED vars
  BY <1>21, <1>u, <1>v DEF vars, WholeInv
<1> QED
  BY <1>1, <1>2, <1>3, <1>4, <1>5, <1>6, <1>7, <1>8, <1>9, <1>10, <1>11, <1>12, <1>13,
     <1>14, <1>15, <1>16, <1>17, <1>18, <1>19, <1>20, <1>21 DEF Next, Update, User

(***************************************************************************)
(* The invariant, and what it says.                                        *)
(***************************************************************************)
BoardsInv == FilesOK /\ DateInv /\ TableOK /\ TreeInv /\ WholeInv

(* The types, the page that each step of the update needs, the tree of     *)
(* boards and the whole pages, in every state.                             *)
THEOREM BoardsInvariant == Spec => []BoardsInv
<1>1. Init => BoardsInv
  BY DateInit, TableInit, WholeInit DEF BoardsInv
<1>2. BoardsInv /\ [Next]_vars => BoardsInv'
  BY DateNext, TableNext, WholeNext DEF BoardsInv
<1> QED BY <1>1, <1>2, PTL DEF Spec

(* The table never holds part of a page, as long as no update was killed.  *)
THEOREM NeverHalfList == Spec => []NoHalfList
<1>1. BoardsInv => NoHalfList
  BY DEF BoardsInv, WholeInv, WholeList, FromPage, NoHalfList
<1> QED BY <1>1, BoardsInvariant, PTL

(* Every variable has its type, and a download or an extraction finds the  *)
(* files it reads.                                                         *)
THEOREM BoardsTypes == Spec => []TypeOK
<1>1. BoardsInv => TypeOK
  BY DEF BoardsInv, FilesOK, TableOK, TypeOK, Contents
<1> QED BY <1>1, BoardsInvariant, PTL

(* Whatever was added, searched for or updated, a board in the tree opens  *)
(* at the address the table has for its name.                              *)
THEOREM TreeAlwaysOpens == Spec => []TreeOpensBoards
<1>1. BoardsInv => TreeOpensBoards
  <2> SUFFICES ASSUME TableOK, TreeInv, Ready, NEW i \in 1 .. Len(tree)
               PROVE  \E j \in 1 .. Len(table) :
                        /\ retainHash[NameOf[tree[i].board]] = table[j].board
                        /\ NameOf[tree[i].board] = NameOf[table[j].board]
    BY DEF BoardsInv, TreeOpensBoards
  <2> DEFINE all == GetBoardInfo(table)
  <2>1. retainHash = HashOf(all) /\ \E j \in 1 .. Len(table) : tree[i] = table[j]
    BY DEF TreeInv, Ready
  <2>2. /\ all \in Seq(Row)
        /\ \A k \in 1 .. Len(all) : \E j \in 1 .. Len(table) : all[k] = table[j]
        /\ \A j \in 1 .. Len(table) : \E k \in 1 .. Len(all) : all[k] = table[j]
    BY RowsOfTable DEF TableOK
  <2>3. PICK k \in 1 .. Len(all) : all[k] = tree[i]
    BY <2>1, <2>2
  <2> HIDE DEF all
  <2>4. PICK m \in 1 .. Len(all) : /\ HashOf(all)[NameOf[all[k].board]] = all[m].board
                                   /\ NameOf[all[k].board] = NameOf[all[m].board]
    BY <2>2, RowsByName
  <2>5. PICK j \in 1 .. Len(table) : all[m] = table[j]
    BY <2>2
  <2> QED BY <2>1, <2>3, <2>4, <2>5
<1> QED BY <1>1, BoardsInvariant, PTL

(* A search shows the categories of the boards that match, and no other.   *)
THEOREM SearchesFindCategories == Spec => SearchFindsCategories
<1>1. TableOK => \A keyword \in Keywords : SearchBoardTree(keyword) =>
        CategoriesOf(tree') =
          {r.category : r \in {q \in ToSet(table) : NameOf[q.board] \in keyword}}
  <2> SUFFICES ASSUME TableOK, NEW keyword \in Keywords, SearchBoardTree(keyword)
               PROVE  CategoriesOf(tree') =
                        {r.category : r \in {q \in ToSet(table) : NameOf[q.board] \in keyword}}
    OBVIOUS
  <2>1. tree' = MatchingRows(table, keyword) /\ table \in Seq(Row)
    BY DEF SearchBoardTree, TableOK
  <2> QED BY <2>1, RowsOfSearch
<1>2. BoardsInv /\ [Next]_vars =>
        [\A keyword \in Keywords : SearchBoardTree(keyword) =>
           CategoriesOf(tree') =
             {r.category : r \in {q \in ToSet(table) : NameOf[q.board] \in keyword}}]_vars
  BY <1>1 DEF BoardsInv
<1> QED BY <1>2, BoardsInvariant, PTL DEF Spec, SearchFindsCategories
=============================================================================
