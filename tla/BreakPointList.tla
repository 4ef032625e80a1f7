--------------------------- MODULE BreakPointList ---------------------------
(***************************************************************************)
(* bp.infos in the order of the slice (breakpoint.go, b, bc and bl of      *)
(* prompt.go).  BreakPoint keeps the table as a set; b appends to the      *)
(* slice, bl numbers its entries from 1, and bc n takes the n-th out.  All *)
(* entries are user breakpoints, so an entry's number is its position.     *)
(***************************************************************************)
EXTENDS Executor

VARIABLE order   \* the addresses of bp.infos

ListInit == order = <<>>

\* b
append(l) ==
  /\ SetFileLineBreakPoint(l)
  /\ order' = IF infos' = infos THEN order ELSE Append(order, fileLineToPcForBreakPoint(l))

\* bc all
clearAll ==
  /\ clear(infos)
  /\ order' = <<>>

\* Mutant of clearNth: the slice is cut one entry too late.
clearNth_Late(n) ==
  /\ \E i \in findBreakPoint(order[n]) : clear({i})
  /\ order' = SubSeq(order, 1, n) \o SubSeq(order, n + 2, Len(order))

\* bc <n>.  With a number that bl does not show an error is printed, once or twice.
clearNth(n) ==
  /\ \E i \in findBreakPoint(order[n]) : clear({i})
  /\ order' = SubSeq(order, 1, n - 1) \o SubSeq(order, n + 1, Len(order))

\* The commands, with what they do to the slice.
ListCommand ==
  \/ \E l \in UserLines : append(l)
  \/ clearAll
  \/ \E n \in DOMAIN order : clearNth(n)
  \/ /\ restart \/ disassWithoutProcess \/ quit \/ continue \/ step \/ next
        \/ \E c \in {"c", "s", "n"} : refused(c)
     /\ UNCHANGED order

-----------------------------------------------------------------------------
\* bl shows every address with a breakpoint under one number, and nothing else, however
\* breakpoints have been set, refused, cleared by number and set again (setPcBreakPoint's
\* search, append, and bc's cut).
ListIsTable ==
  /\ {order[n] : n \in DOMAIN order} = Listed
  /\ \A m, n \in DOMAIN order : order[m] = order[n] => m = n
=============================================================================
