------------------------------ MODULE Listing ------------------------------
(***************************************************************************)
(* l (list.go): the lines around one line of a source file, read one by    *)
(* one.  Without arguments the line is that of pc, which LineSearch looks  *)
(* up; c, s and n list in the same way whenever they stop.  The user may   *)
(* also name the line, and how far to go around it.                        *)
(***************************************************************************)
EXTENDS LineSearch

CONSTANTS
  Files,       \* the source files considered
  UserLinenos, \* the line numbers the user types
  UserRanges   \* the ranges the user types

\* A file, as ReadSlice sees it.  A line longer than the reader's buffer does not fit in.
SourceFile ==
  [newlines : Nat,           \* lines that end with a newline
   unended  : BOOLEAN,       \* text after the last newline: one more line
   tooLong  : SUBSET Nat]

ASSUME ListingAssumption ==
  /\ Files \subseteq SourceFile
  /\ UserLinenos \subseteq Int
  /\ UserRanges \subseteq Int

VARIABLES
  file,       \* the file listed
  lineno,     \* listFileLine: the line in the middle
  rangeline,  \* listFileLine: the range
  curLine,    \* listFileLine: the line read last
  slice,      \* listFileLineBytesSlice: records [no, arrow]
  stage       \* where the listing is

listVars    == <<file, lineno, rangeline, curLine, slice, stage>>
listingVars == <<searchVars, listVars>>

ListingInit ==
  /\ SearchInit
  /\ file \in Files
  /\ lineno = 0
  /\ rangeline = 0
  /\ curLine = 0
  /\ slice = <<>>
  /\ stage = "prompt"

-----------------------------------------------------------------------------

rangeMinOf(l, r) == IF l - r - 1 < 1 THEN 1 ELSE l - r - 1
rangeMaxOf(l, r) == l + r - 1

Wanted(n) == rangeMinOf(lineno, rangeline) <= n /\ n <= rangeMaxOf(lineno, rangeline)

\* listFileLine, up to its loop.
listFileLine(l, r) ==
  /\ lineno' = l
  /\ rangeline' = r
  /\ curLine' = 0
  /\ slice' = <<>>
  /\ stage' \in IF rangeMaxOf(l, r) - rangeMinOf(l, r) <= 0
                THEN {"refused"}
                ELSE {"reading", "refused"}   \* the file may be missing
  /\ UNCHANGED <<searchVars, file>>

\* l, and every command that stops: pc may be outside every line.
listFileLineByPtracePc ==
  /\ stage = "prompt"
  /\ result \notin {Pending, NotFound}
  /\ listFileLine(result, 6)

\* l <file:line>, l <file:line> <range>
listUserLine ==
  /\ stage \in {"prompt", "printed", "refused"}
  /\ result # Pending
  /\ \E l \in UserLinenos, r \in UserRanges \cup {6} : listFileLine(l, r)

More == stage = "reading" /\ curLine + 1 <= rangeMaxOf(lineno, rangeline)

\* Mutant of readLine: the lines are counted after they are read.
readLine_Late ==
  /\ More
  /\ curLine + 1 <= file.newlines
  /\ curLine + 1 \notin file.tooLong
  /\ slice' = IF Wanted(curLine)
              THEN Append(slice, [no |-> curLine, arrow |-> curLine = lineno])
              ELSE slice
  /\ curLine' = curLine + 1
  /\ UNCHANGED <<searchVars, file, lineno, rangeline, stage>>

\* ReadSlice returns a line with its newline.
readLine ==
  /\ More
  /\ curLine + 1 <= file.newlines
  /\ curLine + 1 \notin file.tooLong
  /\ slice' = IF Wanted(curLine + 1)
              THEN Append(slice, [no |-> curLine + 1, arrow |-> curLine + 1 = lineno])
              ELSE slice
  /\ curLine' = curLine + 1
  /\ UNCHANGED <<searchVars, file, lineno, rangeline, stage>>

\* The buffer is full before the line ends: nothing is printed.
readFails ==
  /\ More
  /\ curLine + 1 \in file.tooLong
  /\ \/ curLine + 1 <= file.newlines
     \/ curLine = file.newlines /\ file.unended
  /\ stage' = "refused"
  /\ UNCHANGED <<searchVars, file, lineno, rangeline, curLine, slice>>

\* The window is complete, or the file ends.  A last line without a newline comes together
\* with EOF and is dropped.
print ==
  /\ \/ stage = "reading" /\ ~More
     \/ /\ More
        /\ curLine >= file.newlines
        /\ ~(curLine = file.newlines /\ file.unended /\ curLine + 1 \in file.tooLong)
  /\ stage' = "printed"
  /\ UNCHANGED <<searchVars, file, lineno, rangeline, curLine, slice>>

ListingNext ==
  \/ SearchNext /\ UNCHANGED listVars
  \/ listFileLineByPtracePc
  \/ listUserLine
  \/ readLine \/ readFails \/ print

ListingSpec == ListingInit /\ [][ListingNext]_listingVars

-----------------------------------------------------------------------------
\* The lines of the file, the one that no newline ends included.
LastLine == IF file.unended THEN file.newlines + 1 ELSE file.newlines

\* A listing that is printed is the window around the line: the lines from rangeline + 1
\* before it to rangeline - 1 after it that the file has, each once and in order, of which
\* only a last line without a newline may be missing; the arrow is at the line and nowhere
\* else; and the line is in the window when the file has it (listFileLine).
ListsWindow ==
  stage = "printed" =>
    LET window == {n \in 1..LastLine :
                     lineno - rangeline - 1 <= n /\ n <= lineno + rangeline - 1}
        shown  == {slice[i].no : i \in DOMAIN slice}
    IN  /\ window \cap 1..file.newlines \subseteq shown
        /\ shown \subseteq window
        /\ \A i, j \in DOMAIN slice : i < j => slice[i].no < slice[j].no
        /\ \A i \in DOMAIN slice : slice[i].arrow <=> slice[i].no = lineno
        /\ lineno \in 1..LastLine => lineno \in window
=============================================================================
