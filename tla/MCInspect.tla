----------------------------- MODULE MCInspect -----------------------------
(***************************************************************************)
(* A program with everything bt, p and disass depend on: a function with a *)
(* frame that may call itself, a leaf without a frame behind it, without a *)
(* gap, and calls that end their lines.                                    *)
(*   1: f()                 the root, which has no frame                   *)
(*   2: exit                                                               *)
(*   3: func f() {                                                         *)
(*   4:   s := ...          two words                                      *)
(*   5:   if cond { f() }                                                  *)
(*   6:   g()                                                              *)
(*   7: }                                                                  *)
(*   8: func g() { }                                                       *)
(*   9: runtime.morestack, which f's prologue may call                      *)
(***************************************************************************)
EXTENDS Inspect

\* Address, length, kind, branches, line, prologue end; part in the frame.
I(addr, len, op, dest, line, does, cfa, ready) ==
  [addr |-> addr, len |-> len, op |-> op, dest |-> dest, line |-> line,
   frame |-> [does |-> does, size |-> 3, cfa |-> cfa, num |-> -4, ready |-> ready]]

Sample ==
  {I(1,  2, "call", {10},     1, "none",      0, FALSE),
   I(3,  2, "exit", {},       2, "none",      0, FALSE),
   I(10, 2, "op",   {12, 33}, 3, "none",      1, FALSE),
   I(12, 2, "op",   {14},     0, "alloc",     1, FALSE),
   I(14, 2, "op",   {16},     0, "saveBP",    4, FALSE),
   I(16, 2, "op",   {18},     0, "setBP",     4, FALSE),
   I(18, 2, "op",   {20},     4, "ptr",       4, TRUE),
   I(20, 2, "op",   {22},     0, "len",       4, TRUE),
   I(22, 2, "op",   {24, 26}, 5, "none",      4, TRUE),
   I(24, 2, "call", {10},     0, "none",      4, TRUE),
   I(26, 2, "call", {37},     6, "none",      4, TRUE),
   I(28, 2, "op",   {30},     7, "restoreBP", 4, TRUE),
   I(30, 2, "op",   {32},     0, "free",      4, FALSE),
   I(32, 1, "ret",  {},       0, "none",      1, FALSE),
   I(33, 2, "call", {40},     3, "none",      1, FALSE),
   I(35, 2, "op",   {10},     0, "none",      1, FALSE),
   I(37, 2, "op",   {39},     8, "none",      1, FALSE),
   I(39, 1, "ret",  {},       0, "none",      1, FALSE),
   I(40, 1, "ret",  {},       9, "none",      1, FALSE)}

Addrs   == {i.addr : i \in Sample}
At(a)   == CHOOSE i \in Sample : i.addr = a

CodeInstLen == [a \in Addrs |-> At(a).len]
CodeOp      == [a \in Addrs |-> At(a).op]
CodeDest    == [a \in Addrs |-> At(a).dest]
CodeFrame   == [a \in Addrs |-> At(a).frame]
CodeRows    ==
  LET rows == {i \in Sample : i.line # 0}
      nth(n) == CHOOSE i \in rows : Cardinality({j \in rows : j.addr < i.addr}) = n - 1
  IN  [n \in 1..Cardinality(rows) |->
         [addr |-> nth(n).addr, line |-> nth(n).line, prologueEnd |-> FALSE]]

CodeFdes == {[begin |-> 1, size |-> 4], [begin |-> 10, size |-> 27],
             [begin |-> 37, size |-> 3], [begin |-> 40, size |-> 1]}

Words == 100..115

\* Two strings, told apart by address and by length.
Hello == 201
World == 202
Lengths == [s \in {Hello, World} |-> s - 200]

\* One is enough where the strings do not matter.
HelloOnly == [s \in {Hello} |-> 1]

D(tag, owner, name, lowpc, highpc, location, num) ==
  [tag |-> tag, owner |-> owner, name |-> name, lowpc |-> lowpc, highpc |-> highpc,
   location |-> location, num |-> num, lines |-> TRUE, broken |-> FALSE]

Unit(name)           == D("cu", 0, name, 0, 0, "none", 0)
Func(name, low, high) == D("subprogram", 0, name, low, high, "none", 0)
Other(owner)         == D("other", owner, "", 0, 0, "none", 0)
Local(owner, name, num) == D("variable", owner, name, 0, 0, "fbreg", num)
NoPlace(owner, name) == D("variable", owner, name, 0, 0, "none", 0)
Global(name)         == D("variable", 0, name, 0, 0, "other", 0)

\* A unit for each package.  The package-level variable of the name of a local one goes to
\* the function before it, the one behind the last function to that; the root has a
\* variable without a place.
TwoUnits ==
  <<Unit("runtime"), Func("root", 1, 5), NoPlace(2, "h"), Func("morestack", 40, 41),
    Unit("main"), Global("s"), Func("f", 10, 37), Other(7), Local(7, "s", -4),
    Func("g", 37, 40), Global("v")>>

\* A package-level variable comes first; functions without a unit; a unit without lines; a
\* broken entry.
Compiled      == <<Func("root", 1, 5), Func("f", 10, 37), Func("g", 37, 40)>>
VariableFirst == <<Unit("main"), Global("v")>> \o Compiled
NoUnit        == Compiled
NoLines       == <<Unit("main")>> \o Compiled \o <<[Unit("C") EXCEPT !.lines = FALSE]>>
BrokenEntry   == <<Unit("main")>> \o Compiled \o <<[Other(4) EXCEPT !.broken = TRUE]>>

Sections == {TwoUnits, VariableFirst, NoUnit, NoLines, BrokenEntry}

\* What TLC compares states by: the history of the commands steers nothing, and no property
\* of Inspect reads it.
WithoutHistory ==
  <<traceeVars, bpVars, procs, dbg, locals, order, infoVars, frameVars>>

\* Where f's string may be assigned.
Body == 20..32 \cap Addrs

ASSUME FunctionsAreTiled == FunctionsAreCode

ASSUME PatchesFit == BreakableIsLong

ASSUME ProgramIsGo ==
  /\ FramesAreGo
  /\ StackFits
  /\ CallsAreInFunctions
  /\ StringsAreLocal
  /\ IsCovered(Body)
  /\ StringsAreShort
=============================================================================
