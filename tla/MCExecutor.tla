----------------------------- MODULE MCExecutor -----------------------------
(***************************************************************************)
(* Small programs for model checking Executor.  An instruction is listed   *)
(* with its length, its kind, where it leads and the line-table row that   *)
(* starts at it; line 0 means that none does.                              *)
(***************************************************************************)
EXTENDS Executor

I(addr, len, op, dest, line, prologueEnd) ==
  [addr |-> addr, len |-> len, op |-> op, dest |-> dest, line |-> line, pe |-> prologueEnd]

AddrsOf(prog) == {i.addr : i \in prog}
At(prog, a)   == CHOOSE i \in prog : i.addr = a

InstOf(prog)    == AddrsOf(prog)
InstLenOf(prog) == [a \in AddrsOf(prog) |-> At(prog, a).len]
OpOf(prog)      == [a \in AddrsOf(prog) |-> At(prog, a).op]
DestOf(prog)    == [a \in AddrsOf(prog) |-> At(prog, a).dest]
RowsOf(prog)    ==
  LET rows == {i \in prog : i.line # 0}
      nth(n) == CHOOSE i \in rows : Cardinality({j \in rows : j.addr < i.addr}) = n - 1
  IN  [n \in 1..Cardinality(rows) |->
         [addr |-> nth(n).addr, line |-> nth(n).line, prologueEnd |-> nth(n).pe]]

(***************************************************************************)
(* A function with a call in the middle of a line and a loop, and a callee *)
(* whose line has a prologue.                                              *)
(*   1: for cond {                                                         *)
(*   2:   x = f() }                                                        *)
(*   3: exit                                                               *)
(*   4: func f()                                                           *)
(*   5:   return                                                           *)
(***************************************************************************)
Calls ==
  {I(1,  2, "op",   {3, 8},  1, FALSE),
   I(3,  2, "call", {10},    2, FALSE),
   I(5,  1, "op",   {6},     0, FALSE),
   I(6,  2, "op",   {1},     0, FALSE),
   I(8,  2, "exit", {},      3, FALSE),
   I(10, 2, "op",   {12},    4, FALSE),
   I(12, 2, "op",   {14},    4, TRUE),
   I(14, 1, "ret",  {},      5, FALSE)}

CallsInst    == InstOf(Calls)
CallsInstLen == InstLenOf(Calls)
CallsOp      == OpOf(Calls)
CallsDest    == DestOf(Calls)
CallsRows    == RowsOf(Calls)

\* The same program without the loop: it always ends.
Straight == (Calls \ {At(Calls, 6)}) \cup {I(6, 2, "op", {8}, 0, FALSE)}

StraightInst    == InstOf(Straight)
StraightInstLen == InstLenOf(Straight)
StraightOp      == OpOf(Straight)
StraightDest    == DestOf(Straight)
StraightRows    == RowsOf(Straight)

(***************************************************************************)
(* A function that may call itself.                                        *)
(*   1: f(); exit                                                          *)
(*   2: func f() {                                                         *)
(*   3:   if cond { f() }                                                  *)
(*   4:   g = 1                                                            *)
(*   5: }                                                                  *)
(***************************************************************************)
Recursive ==
  {I(1,  2, "call", {10},     1, FALSE),
   I(3,  2, "exit", {},       0, FALSE),
   I(10, 2, "op",   {12},     2, FALSE),
   I(12, 2, "op",   {14, 18}, 3, FALSE),
   I(14, 2, "call", {10},     0, FALSE),
   I(16, 2, "op",   {18},     4, FALSE),
   I(18, 1, "ret",  {},       5, FALSE)}

RecursiveInst    == InstOf(Recursive)
RecursiveInstLen == InstLenOf(Recursive)
RecursiveOp      == OpOf(Recursive)
RecursiveDest    == DestOf(Recursive)
RecursiveRows    == RowsOf(Recursive)

(***************************************************************************)
(* A line that starts with an instruction of one byte, as the closing      *)
(* brace of a function with a defer does: a NOP, then the call of          *)
(* runtime.deferreturn.                                                    *)
(***************************************************************************)
OneByte ==
  {I(1, 1, "op",   {2}, 1, FALSE),
   I(2, 2, "call", {6}, 0, FALSE),
   I(4, 2, "exit", {},  2, FALSE),
   I(6, 2, "op",   {8}, 3, FALSE),
   I(8, 1, "ret",  {},  3, FALSE)}

OneByteInst    == InstOf(OneByte)
OneByteInstLen == InstLenOf(OneByte)
OneByteOp      == OpOf(OneByte)
OneByteDest    == DestOf(OneByte)
OneByteRows    == RowsOf(OneByte)

\* The callees stand behind their callers, so where there is no recursion the number of
\* callees up to an address is a level.
Callees == UNION {Dest[a] : a \in {c \in Inst : Op[c] = "call"}}

ASSUME CallsAreLevelled ==
  Inst # RecursiveInst
    => IsLevel([a \in Inst |-> Cardinality({d \in Callees : d <= a})])

ASSUME PatchesFit == Inst # OneByteInst => BreakableIsLong

ASSUME LinesAreTold == OneLine
=============================================================================
