--------------------------- MODULE ListingProofs ---------------------------
(***************************************************************************)
(* For every line table and every order of the map, the search of          *)
(* pcTofileLine returns what LineTable says it returns; for every file,    *)
(* line and range, a listing that is printed is the window around the line *)
(* that the search has returned.                                           *)
(***************************************************************************)
EXTENDS Listing, TLAPS

-----------------------------------------------------------------------------
(***************************************************************************)
(* The search.                                                             *)
(***************************************************************************)

\* A row's address and line are numbers.
LEMMA RowType ==
  ASSUME NEW i \in DOMAIN Rows
  PROVE  Rows[i].addr \in Nat /\ Rows[i].line \in Nat
<1> DEFINE Row == [addr : Nat \ {0}, line : Nat \ {0}, prologueEnd : BOOLEAN]
<1>1. Rows \in Seq(Row)
  BY RowsAssumption
<1>2. Rows[i] \in Row
  <2> HIDE DEF Row
  <2>. QED BY <1>1
<1>. QED BY <1>2

\* A row the search has still to come to.
ToCome(i) == Rows[i].line \in todo \/ i \in rest

\* rangeMin is a row up to pc, or there is none yet.
MinIsRow ==
  IF rangeMin.existedPc
  THEN \E i \in DOMAIN Rows : /\ Rows[i].addr = rangeMin.pc
                              /\ Rows[i].line = rangeMin.line
                              /\ Rows[i].addr <= pc
  ELSE rangeMin.line = NotFound

\* Of the rows the search has passed, none is at pc and none is between rangeMin and pc.
MinIsClosest ==
  result = Pending =>
    \A i \in DOMAIN Rows :
      \/ ToCome(i)
      \/ Rows[i].addr > pc
      \/ Rows[i].addr < pc /\ rangeMin.existedPc /\ Rows[i].addr <= rangeMin.pc

SearchInv == SearchTypeOK /\ MinIsRow /\ MinIsClosest /\ FindsClosestRow

\* The line of a row at pc itself is a possible result.
LEMMA ExactRow ==
  ASSUME NEW i \in DOMAIN Rows, Rows[i].addr \in Nat
  PROVE  Rows[i].line \in pcTofileLine(Rows[i].addr)
BY RowType DEF pcTofileLine

LEMMA SearchInitInv == SearchInit => SearchInv
<1> SUFFICES ASSUME SearchInit PROVE SearchInv
  OBVIOUS
<1>1. SearchTypeOK
  BY DEF SearchInit, SearchTypeOK, NotFound
<1>2. MinIsClosest
  BY DEF SearchInit, MinIsClosest, ToCome, LineNo
<1>. QED BY <1>1, <1>2 DEF SearchInit, SearchInv, MinIsRow, FindsClosestRow

LEMMA SearchStepInv ==
  ASSUME SearchInv, SearchNext
  PROVE  SearchInv'
<1> USE DEF SearchInv, SearchTypeOK
<1>1. CASE NextLine
  <2>1. PICK l \in todo : rest' = Sources(l) /\ todo' = todo \ {l}
    BY <1>1 DEF NextLine
  <2>2. UNCHANGED <<pc, rangeMin, result>> /\ rest = {}
    BY <1>1 DEF NextLine
  <2>3. SearchTypeOK'
    BY <2>1, <2>2 DEF Sources
  <2>4. \A i \in DOMAIN Rows : ToCome(i)' <=> ToCome(i)
    BY <2>1, <2>2 DEF ToCome, Sources
  <2>5. MinIsClosest' /\ MinIsRow' /\ FindsClosestRow'
    BY <2>2, <2>4 DEF MinIsClosest, MinIsRow, FindsClosestRow
  <2>. QED BY <2>3, <2>5
<1>2. CASE NextRow
  <2>1. PICK i \in rest :
          /\ rest' = rest \ {i}
          /\ \/ /\ Rows[i].addr = pc
                /\ result' = Rows[i].line
                /\ UNCHANGED rangeMin
             \/ /\ Rows[i].addr # pc
                /\ rangeMin' =
                     IF Better(Rows[i])
                     THEN [existedPc |-> TRUE, pc |-> Rows[i].addr,
                           line |-> Rows[i].line]
                     ELSE rangeMin
                /\ UNCHANGED result
    BY <1>2 DEF NextRow
  <2>2. UNCHANGED <<pc, todo>> /\ result = Pending
    BY <1>2 DEF NextRow
  <2>3. i \in DOMAIN Rows /\ Rows[i].addr \in Nat /\ Rows[i].line \in Nat
    BY RowType
  <2>4. pc \in Nat
    BY AddrsAssumption
  <2>5. CASE Rows[i].addr = pc /\ result' = Rows[i].line /\ UNCHANGED rangeMin
    <3>1. result' # Pending /\ result' \in pcTofileLine(pc)
      BY <2>3, <2>5, ExactRow DEF Pending
    <3>. QED
      BY <2>1, <2>2, <2>3, <2>5, <3>1 DEF MinIsRow, MinIsClosest, FindsClosestRow
  <2>6. CASE /\ Rows[i].addr # pc
             /\ ~Better(Rows[i])
             /\ UNCHANGED <<rangeMin, result>>
    <3>1. \/ Rows[i].addr > pc
          \/ Rows[i].addr < pc /\ rangeMin.existedPc /\ Rows[i].addr <= rangeMin.pc
      BY <2>3, <2>4, <2>6 DEF Better
    <3>2. MinIsClosest'
      BY <2>1, <2>2, <2>6, <3>1 DEF MinIsClosest, ToCome
    <3>. QED
      BY <2>1, <2>2, <2>6, <3>2 DEF MinIsRow, FindsClosestRow
  <2>7. CASE /\ Rows[i].addr # pc
             /\ Better(Rows[i])
             /\ rangeMin' = [existedPc |-> TRUE, pc |-> Rows[i].addr,
                             line |-> Rows[i].line]
             /\ UNCHANGED result
    <3>1. /\ rangeMin'.existedPc /\ rangeMin'.pc = Rows[i].addr
          /\ rangeMin'.line = Rows[i].line
          /\ rangeMin' \in [existedPc : BOOLEAN, pc : Nat, line : Nat]
      BY <2>3, <2>7
    <3>2. Rows[i].addr < pc
      BY <2>3, <2>4, <2>7 DEF Better
    <3>3. MinIsRow'
      BY <2>2, <2>3, <3>1, <3>2, <2>4 DEF MinIsRow
    <3>4. ASSUME NEW j \in DOMAIN Rows
          PROVE  \/ ToCome(j)'
                 \/ Rows[j].addr > pc
                 \/ Rows[j].addr < pc /\ Rows[j].addr <= Rows[i].addr
      <4>1. CASE j = i
        BY <2>3, <3>2, <4>1
      <4>2. CASE j # i /\ ToCome(j)
        BY <2>1, <2>2, <4>2 DEF ToCome
      <4>3. CASE Rows[j].addr > pc
        BY <4>3
      <4>4. CASE Rows[j].addr < pc /\ rangeMin.existedPc /\ Rows[j].addr <= rangeMin.pc
        BY <2>3, <2>7, <4>4, RowType DEF Better
      <4>. QED BY <2>2, <4>1, <4>2, <4>3, <4>4 DEF MinIsClosest
    <3>5. MinIsClosest'
      BY <2>2, <3>1, <3>4 DEF MinIsClosest
    <3>. QED
      BY <2>1, <2>2, <2>7, <3>1, <3>3, <3>5 DEF FindsClosestRow
  <2>. QED BY <2>1, <2>5, <2>6, <2>7
<1>3. CASE ReturnMin
  <2>1. /\ result = Pending /\ result' = rangeMin.line
        /\ UNCHANGED <<pc, todo, rest, rangeMin>>
        /\ rest = {} /\ todo = {}
    BY <1>3 DEF ReturnMin
  <2>2. \A i \in DOMAIN Rows :
          \/ Rows[i].addr > pc
          \/ Rows[i].addr < pc /\ rangeMin.existedPc /\ Rows[i].addr <= rangeMin.pc
    BY <2>1 DEF MinIsClosest, ToCome
  <2>3. pc \in Nat /\ \A i \in DOMAIN Rows : Rows[i].addr \in Nat
    BY AddrsAssumption, RowType
  <2>4. CASE rangeMin.existedPc
    <3>1. PICK i \in DOMAIN Rows : /\ Rows[i].addr = rangeMin.pc
                                   /\ Rows[i].line = rangeMin.line
                                   /\ Rows[i].addr <= pc
      BY <2>4 DEF MinIsRow
    <3>2. \A j \in DOMAIN Rows : Rows[j].addr <= pc => Rows[j].addr <= Rows[i].addr
      BY <2>2, <2>3, <3>1
    <3>3. Rows[i].line \in pcTofileLine(pc)
      BY <3>1, <3>2 DEF pcTofileLine
    <3>. QED
      BY <2>1, <3>1, <3>3 DEF MinIsRow, MinIsClosest, FindsClosestRow, Pending
  <2>5. CASE ~rangeMin.existedPc
    <3>1. pcTofileLine(pc) = {NotFound}
      BY <2>2, <2>3, <2>5 DEF pcTofileLine
    <3>2. result' = NotFound
      BY <2>1, <2>5 DEF MinIsRow
    <3>. QED
      BY <2>1, <3>1, <3>2 DEF MinIsRow, MinIsClosest, FindsClosestRow, Pending, NotFound
  <2>. QED BY <2>4, <2>5
<1>. QED BY <1>1, <1>2, <1>3 DEF SearchNext

LEMMA SearchStutterInv ==
  ASSUME SearchInv, UNCHANGED searchVars
  PROVE  SearchInv'
BY DEF searchVars, SearchInv, SearchTypeOK, MinIsRow, MinIsClosest, ToCome, FindsClosestRow

\* The search of pcTofileLine is correct for every table, program counter and map order.
THEOREM SearchCorrect == SearchSpec => []FindsClosestRow
<1>1. SearchInv /\ [SearchNext]_searchVars => SearchInv'
  BY SearchStepInv, SearchStutterInv
<1>2. SearchInv => FindsClosestRow
  BY DEF SearchInv
<1>. QED BY SearchInitInv, <1>1, <1>2, PTL DEF SearchSpec

-----------------------------------------------------------------------------
(***************************************************************************)
(* The listing.                                                            *)
(***************************************************************************)

ListingTypeOK ==
  /\ file \in SourceFile
  /\ lineno \in Int
  /\ rangeline \in Int
  /\ curLine \in 0..file.newlines
  /\ slice \in Seq([no : Int, arrow : BOOLEAN])
  /\ stage \in {"prompt", "reading", "printed", "refused"}

\* The lines of the window that have been read.
Read == {n \in 1..curLine : Wanted(n)}

\* The slice holds the lines of the window that have been read.
SliceIsRead ==
  stage \in {"reading", "printed"} =>
    /\ {slice[i].no : i \in DOMAIN slice} = Read
    /\ \A i, j \in DOMAIN slice : i < j => slice[i].no < slice[j].no
    /\ \A i \in DOMAIN slice : slice[i].arrow <=> slice[i].no = lineno

\* Nothing of the window is left when it is printed, and the window is not empty.
WindowIsRead ==
  /\ stage = "printed" => curLine = file.newlines \/ curLine + 1 > rangeMaxOf(lineno, rangeline)
  /\ stage \in {"reading", "printed"} =>
       rangeMaxOf(lineno, rangeline) - rangeMinOf(lineno, rangeline) > 0

ListInv == ListingTypeOK /\ SliceIsRead /\ WindowIsRead

LEMMA ListingInitInv == ListingInit => ListInv
<1> SUFFICES ASSUME ListingInit PROVE ListInv
  OBVIOUS
<1>1. ListingTypeOK
  <2>1. file \in SourceFile
    BY ListingAssumption DEF ListingInit
  <2>2. file.newlines \in Nat
    BY <2>1 DEF SourceFile
  <2>. QED BY <2>1, <2>2 DEF ListingInit, ListingTypeOK
<1>. QED BY <1>1 DEF ListingInit, ListInv, SliceIsRead, WindowIsRead

\* A listing begins with nothing read.
LEMMA ListingBegins ==
  ASSUME ListInv, NEW l \in Int, NEW r \in Int, listFileLine(l, r)
  PROVE  ListInv'
<1>0. /\ lineno' = l /\ rangeline' = r /\ curLine' = 0 /\ slice' = <<>>
      /\ file' = file /\ stage' \in {"reading", "refused"}
  BY DEF listFileLine
<1>1. ListingTypeOK'
  BY <1>0 DEF ListInv, ListingTypeOK, SourceFile
<1>2. SliceIsRead'
  BY <1>0 DEF SliceIsRead, Read
<1>3. WindowIsRead'
  <2>1. stage' = "reading" => rangeMaxOf(l, r) - rangeMinOf(l, r) > 0
    BY DEF listFileLine, rangeMaxOf, rangeMinOf
  <2>. QED BY <1>0, <2>1 DEF WindowIsRead
<1>. QED BY <1>1, <1>2, <1>3 DEF ListInv

LEMMA LineIsRead ==
  ASSUME ListInv, readLine
  PROVE  ListInv'
<1> DEFINE n == curLine + 1
           e == [no |-> n, arrow |-> n = lineno]
<1>0. /\ stage = "reading" /\ stage' = "reading"
      /\ n <= file.newlines /\ curLine' = n
      /\ UNCHANGED <<file, lineno, rangeline>>
      /\ slice' = IF Wanted(n) THEN Append(slice, e) ELSE slice
  BY DEF readLine, More
<1>1. /\ file \in SourceFile /\ file.newlines \in Nat
      /\ lineno \in Int /\ rangeline \in Int
      /\ curLine \in 0..file.newlines /\ n \in Nat /\ n \in 1..file.newlines
      /\ slice \in Seq([no : Int, arrow : BOOLEAN])
      /\ e \in [no : Int, arrow : BOOLEAN]
  BY <1>0 DEF ListInv, ListingTypeOK, SourceFile
<1>2. /\ {slice[i].no : i \in DOMAIN slice} = Read
      /\ \A i, j \in DOMAIN slice : i < j => slice[i].no < slice[j].no
      /\ \A i \in DOMAIN slice : slice[i].arrow <=> slice[i].no = lineno
  BY <1>0 DEF ListInv, SliceIsRead
<1>3. \A i \in DOMAIN slice : slice[i].no < n /\ slice[i].no \in Int
  <2>1. \A k \in Read : k < n /\ k \in Int
    BY <1>1 DEF Read
  <2>. QED BY <1>2, <2>1
<1>4. Read' = IF Wanted(n) THEN Read \cup {n} ELSE Read
  <2>1. \A k : Wanted(k)' <=> Wanted(k)
    BY <1>0 DEF Wanted
  <2>2. 1..(curLine + 1) = (1..curLine) \cup {n}
    BY <1>1
  <2>3. Read' = {k \in (1..curLine) \cup {n} : Wanted(k)}
    BY <1>0, <2>1, <2>2 DEF Read
  <2>. QED BY <2>3 DEF Read
<1>5. ListingTypeOK'
  <2>1. slice' \in Seq([no : Int, arrow : BOOLEAN])
    <3> DEFINE E == [no : Int, arrow : BOOLEAN]
    <3>1. e \in E /\ slice \in Seq(E) /\ (slice' = slice \/ slice' = Append(slice, e))
      BY <1>0, <1>1
    <3>2. slice' \in Seq(E)
      <4> HIDE DEF e, E
      <4>. QED BY <3>1
    <3>. QED BY <3>2
  <2>2. curLine' \in 0..file'.newlines
    BY <1>0, <1>1
  <2>. QED BY <1>0, <1>1, <2>1, <2>2 DEF ListInv, ListingTypeOK
<1>6. SliceIsRead'
  <2>1. CASE Wanted(n)
    <3>1. slice' = Append(slice, e) /\ Read' = Read \cup {n}
      BY <2>1, <1>0, <1>4
    <3>2. DOMAIN slice = 1..Len(slice) /\ DOMAIN slice' = 1..(Len(slice) + 1) /\ Len(slice) \in Nat
      BY <3>1, <1>1
    <3>3. \A i \in DOMAIN slice : slice'[i] = slice[i]
      <4> HIDE DEF e
      <4>. QED BY <3>1, <3>2, <1>1
    <3>4. slice'[Len(slice) + 1] = e
      <4> HIDE DEF e
      <4>. QED BY <3>1, <3>2, <1>1
    <3>5. e.no = n /\ (e.arrow <=> n = lineno)
      OBVIOUS
    <3> HIDE DEF e
    <3>6. \A i \in DOMAIN slice' : i \in DOMAIN slice \/ i = Len(slice) + 1
      BY <3>2
    <3>7. {slice'[i].no : i \in DOMAIN slice'} = Read'
      BY <3>1, <3>2, <3>3, <3>4, <3>5, <3>6, <1>2
    <3>8. \A i, j \in DOMAIN slice' : i < j => slice'[i].no < slice'[j].no
      BY <3>2, <3>3, <3>4, <3>5, <3>6, <1>2, <1>3
    <3>9. \A i \in DOMAIN slice' : slice'[i].arrow <=> slice'[i].no = lineno'
      BY <3>3, <3>4, <3>5, <3>6, <1>0, <1>2
    <3>. QED BY <3>7, <3>8, <3>9 DEF SliceIsRead
  <2>2. CASE ~Wanted(n)
    <3>1. slice' = slice /\ Read' = Read
      BY <2>2, <1>0, <1>4
    <3>. QED BY <3>1, <1>0, <1>2 DEF SliceIsRead
  <2>. QED BY <2>1, <2>2
<1>7. WindowIsRead'
  BY <1>0 DEF ListInv, WindowIsRead
<1>. QED BY <1>5, <1>6, <1>7 DEF ListInv

LEMMA ListingEnds ==
  ASSUME ListInv, readFails \/ print
  PROVE  ListInv'
<1>0. /\ UNCHANGED <<file, lineno, rangeline, curLine, slice>>
      /\ stage = "reading"
      /\ stage' \in {"printed", "refused"}
      /\ stage' = "printed" => ~More \/ curLine >= file.newlines
  BY DEF readFails, print, More
<1>1. ListingTypeOK'
  BY <1>0 DEF ListInv, ListingTypeOK
<1>2. SliceIsRead'
  <2>1. Read' = Read
    BY <1>0 DEF Read, Wanted
  <2>. QED BY <1>0, <2>1 DEF ListInv, SliceIsRead
<1>3. WindowIsRead'
  <2>1. curLine \in 0..file.newlines /\ file.newlines \in Nat
        /\ rangeMaxOf(lineno, rangeline) \in Int
    BY DEF ListInv, ListingTypeOK, SourceFile, rangeMaxOf
  <2>2. stage' = "printed" =>
          curLine = file.newlines \/ curLine + 1 > rangeMaxOf(lineno, rangeline)
    BY <1>0, <2>1 DEF More
  <2>. QED BY <1>0, <2>2 DEF ListInv, WindowIsRead
<1>. QED BY <1>1, <1>2, <1>3 DEF ListInv

LEMMA ListingStepInv ==
  ASSUME SearchInv, ListInv, [ListingNext]_listingVars
  PROVE  ListInv'
<1>1. CASE SearchNext /\ UNCHANGED listVars
  BY <1>1 DEF listVars, ListInv, ListingTypeOK, SliceIsRead, WindowIsRead, Read, Wanted
<1>2. CASE listFileLineByPtracePc
  <2>1. result \in Int
    BY DEF SearchInv, SearchTypeOK, Pending
  <2>. QED BY <1>2, <2>1, ListingBegins DEF listFileLineByPtracePc
<1>3. CASE listUserLine
  <2>1. PICK l \in UserLinenos, r \in UserRanges \cup {6} : listFileLine(l, r)
    BY <1>3 DEF listUserLine
  <2>2. l \in Int /\ r \in Int
    BY <2>1, ListingAssumption
  <2>. QED BY <2>1, <2>2, ListingBegins
<1>4. CASE readLine \/ readFails \/ print
  BY <1>4, LineIsRead, ListingEnds
<1>5. CASE UNCHANGED listingVars
  BY <1>5 DEF listingVars, listVars, ListInv, ListingTypeOK, SliceIsRead, WindowIsRead, Read, Wanted
<1>. QED BY <1>1, <1>2, <1>3, <1>4, <1>5 DEF ListingNext

\* l leaves the search alone.
LEMMA ListingSearches ==
  ASSUME [ListingNext]_listingVars
  PROVE  [SearchNext]_searchVars
BY DEF ListingNext, listingVars, listFileLineByPtracePc, listUserLine, listFileLine,
       readLine, readFails, print

LEMMA InvListsWindow == ListInv => ListsWindow
<1> SUFFICES ASSUME ListInv, stage = "printed" PROVE ListsWindow
  BY DEF ListsWindow
<1> DEFINE inWindow(n) == lineno - rangeline - 1 <= n /\ n <= lineno + rangeline - 1
           window == {n \in 1..LastLine : inWindow(n)}
           shown == {slice[i].no : i \in DOMAIN slice}
<1>1. /\ file.newlines \in Nat /\ curLine \in 0..file.newlines
      /\ lineno \in Int /\ rangeline \in Int
      /\ LastLine \in Nat /\ file.newlines <= LastLine
  BY DEF ListInv, ListingTypeOK, SourceFile, LastLine
<1>2. \A n \in 1..LastLine : Wanted(n) <=> inWindow(n)
  BY <1>1 DEF Wanted, rangeMinOf, rangeMaxOf
<1>3. \A n \in 1..file.newlines : Wanted(n) => n <= curLine
  BY <1>1 DEF ListInv, WindowIsRead, Wanted, rangeMaxOf
<1>4. shown = Read
  BY DEF ListInv, SliceIsRead
<1>5. window \cap 1..file.newlines \subseteq shown
  BY <1>1, <1>2, <1>3, <1>4 DEF Read
<1>6. shown \subseteq window
  BY <1>1, <1>2, <1>4 DEF Read
<1>7. lineno \in 1..LastLine => lineno \in window
  BY <1>1 DEF ListInv, WindowIsRead, rangeMinOf, rangeMaxOf
<1>. QED BY <1>5, <1>6, <1>7 DEF ListInv, SliceIsRead, ListsWindow

\* What l, c, s and n print around a line is the window around it, for every file, line and
\* range (listFileLine).
THEOREM Listings == ListingSpec => []ListsWindow
<1>1. ListingInit => SearchInv /\ ListInv
  BY ListingInitInv, SearchInitInv DEF ListingInit
<1>2. SearchInv /\ ListInv /\ [ListingNext]_listingVars => (SearchInv /\ ListInv)'
  BY ListingStepInv, ListingSearches, SearchStepInv, SearchStutterInv
<1>. QED BY <1>1, <1>2, InvListsWindow, PTL DEF ListingSpec

\* The search keeps its types, and the row it starts from is the closest one, also in the
\* commands that list (pcTofileLine under listFileLineByPtracePc).
THEOREM ListedLineIsClosest == ListingSpec => [](SearchTypeOK /\ FindsClosestRow)
<1>1. ListingInit => SearchInv
  BY SearchInitInv DEF ListingInit
<1>2. SearchInv /\ [ListingNext]_listingVars => SearchInv'
  BY ListingSearches, SearchStepInv, SearchStutterInv
<1>3. SearchInv => SearchTypeOK /\ FindsClosestRow
  BY DEF SearchInv
<1>. QED BY <1>1, <1>2, <1>3, PTL DEF ListingSpec
=============================================================================
