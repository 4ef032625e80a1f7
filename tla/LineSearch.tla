----------------------------- MODULE LineSearch -----------------------------
(***************************************************************************)
(* The search that pcTofileLine makes (bininfo.go).  It ranges over the    *)
(* map Sources, which yields the lines in an arbitrary order, and over the *)
(* rows of each line in theirs.  It returns at once at a row whose address *)
(* is pc; otherwise it remembers the best row so far in rangeMin.          *)
(* LineTable says what the result may be.                                  *)
(***************************************************************************)
EXTENDS LineTable

CONSTANT Addrs   \* the program counters that are looked up

ASSUME AddrsAssumption == Addrs \subseteq Nat

VARIABLES
  pc,         \* the argument
  todo,       \* the lines the range over the map has not yielded yet
  rest,       \* the rows of the current line still to come
  rangeMin,   \* the best row so far, [existedPc, pc, line]
  result      \* the line returned, or Pending

searchVars == <<pc, todo, rest, rangeMin, result>>

Pending == -1

SearchTypeOK ==
  /\ pc \in Addrs
  /\ todo \subseteq LineNo
  /\ rest \subseteq DOMAIN Rows
  /\ rangeMin \in [existedPc : BOOLEAN, pc : Nat, line : Nat]
  /\ result \in Nat \cup {Pending}

SearchInit ==
  /\ pc \in Addrs
  /\ todo = LineNo
  /\ rest = {}
  /\ rangeMin = [existedPc |-> FALSE, pc |-> 0, line |-> NotFound]
  /\ result = Pending

\* The map yields its next line.
NextLine ==
  /\ result = Pending
  /\ rest = {}
  /\ \E l \in todo :
       /\ rest' = Sources(l)
       /\ todo' = todo \ {l}
  /\ UNCHANGED <<pc, rangeMin, result>>

Better_Any(row) == row.addr <= pc   \* mutant: the last row up to pc wins

Better(row) ==
  row.addr <= pc /\ (~rangeMin.existedPc \/ row.addr > rangeMin.pc)

\* One row of the current line.
NextRow ==
  /\ result = Pending
  /\ \E i \in rest :
       /\ \A j \in rest : i <= j
       /\ rest' = rest \ {i}
       /\ \/ /\ Rows[i].addr = pc
             /\ result' = Rows[i].line
             /\ UNCHANGED rangeMin
          \/ /\ Rows[i].addr # pc
             /\ rangeMin' =
                  IF Better(Rows[i])
                  THEN [existedPc |-> TRUE, pc |-> Rows[i].addr, line |-> Rows[i].line]
                  ELSE rangeMin
             /\ UNCHANGED result
  /\ UNCHANGED <<pc, todo>>

\* Every row has been seen.
ReturnMin ==
  /\ result = Pending
  /\ rest = {} /\ todo = {}
  /\ result' = rangeMin.line
  /\ UNCHANGED <<pc, todo, rest, rangeMin>>

SearchNext == NextLine \/ NextRow \/ ReturnMin

SearchSpec == SearchInit /\ [][SearchNext]_searchVars

-----------------------------------------------------------------------------
\* The search returns a line that has a row at the greatest row address up to pc, whatever
\* the order of the map (pcTofileLine, which every command that shows or compares a line
\* relies on), and nothing when no row is that low.
FindsClosestRow == result # Pending => result \in pcTofileLine(pc)
=============================================================================
