----------------------------- MODULE LineTable ------------------------------
(***************************************************************************)
(* BI.Sources, the index from source lines to line-table rows, and the two *)
(* lookups the debugger makes in it (bininfo.go).  A row says where the    *)
(* code of a line starts; a line may have several rows and, at the seam of *)
(* two line sequences, an address may carry rows of several lines.  A line *)
(* stands for the pair of file name and line number.                       *)
(***************************************************************************)
EXTENDS Integers, Sequences, FiniteSetsExt

CONSTANT Rows   \* the rows in the order the line program emits them

ASSUME RowsAssumption ==
  Rows \in Seq([addr : Nat \ {0}, line : Nat \ {0}, prologueEnd : BOOLEAN])

\* The result when no row qualifies: NotFoundSourceLineErr or an empty file name.
NotFound == 0

LineNo == {Rows[i].line : i \in DOMAIN Rows}

Sources_OffByOne(l) == {i - 1 : i \in {j \in DOMAIN Rows : Rows[j].line = l}}   \* mutant

\* bi.Sources[filename][lineno]: the indices of a line's rows.
Sources(l) == {i \in DOMAIN Rows : Rows[i].line = l}

(***************************************************************************)
(* The address a breakpoint on line l goes to: that of the first row that  *)
(* ends a prologue, otherwise the lowest address of the line.              *)
(***************************************************************************)
fileLineToPcForBreakPoint(l) ==
  LET prologueEnds == {i \in Sources(l) : Rows[i].prologueEnd}
  IN  CASE Sources(l) = {}    -> NotFound
        [] prologueEnds # {}  -> Rows[Min(prologueEnds)].addr
        [] OTHER              -> Min({Rows[i].addr : i \in Sources(l)})

(***************************************************************************)
(* The lines pcTofileLine(pc) may return.  It looks for the row with the   *)
(* greatest address up to pc.  It ranges over Go maps, whose order changes *)
(* from call to call, and the first row met at that address wins: where    *)
(* several lines have a row there, any of them may come back.              *)
(***************************************************************************)
pcTofileLine(pc) ==
  LET below == {i \in DOMAIN Rows : Rows[i].addr <= pc}
      last  == {i \in below : \A j \in below : Rows[j].addr <= Rows[i].addr}
  IN  IF below = {} THEN {NotFound} ELSE {Rows[i].line : i \in last}
=============================================================================
