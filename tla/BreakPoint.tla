----------------------------- MODULE BreakPoint -----------------------------
(***************************************************************************)
(* The breakpoint table BP and its operations on the tracee's code bytes   *)
(* (breakpoint.go).  bp.infos is a slice; the debugger identifies an entry *)
(* by its address, which setPcBreakPoint keeps unique, or by its number in *)
(* the listing, which names exactly one user entry, so a set of entries    *)
(* keeps what matters here; BreakPointList has the slice.  Every entry is  *)
(* a user breakpoint: nothing in the repository calls                      *)
(* SetInternalBreakPoint.                                                  *)
(*                                                                         *)
(* singleStepInstructionWithBreakpointCheck and the step and next commands *)
(* disable the breakpoint control stands on and defer enableBreakPoint to  *)
(* their return; deferred holds the addresses of the calls outstanding.    *)
(***************************************************************************)
EXTENDS Tracee

VARIABLES
  infos,     \* bp.infos: records [pc, original]
  deferred   \* addresses whose enableBreakPoint is deferred to the command's return

bpVars == <<infos, deferred>>

BInfo == [pc : Inst, original : Byte]

PcsOf(S) == {i.pc : i \in S}
Listed   == PcsOf(infos)

BreakPointTypeOK ==
  /\ infos \subseteq BInfo
  /\ deferred \subseteq Inst

BreakPointInit ==
  /\ infos = {}
  /\ deferred = {}

findBreakPoint(a) == {i \in infos : i.pc = a}

Trapped_AtPc == findBreakPoint(pc) # {}   \* mutant: forgets that INT3 moves pc

\* The thread is one byte behind a listed address: it has executed that INT3, and the
\* commands that look for a hit test just this.
Trapped == findBreakPoint(pc - 1) # {}

Original(S) == [a \in PcsOf(S) |-> (CHOOSE i \in S : i.pc = a).original]

\* text after a poke of INT3 at the addresses A, and of the saved bytes of the entries S.
enableBreakPoint(A)  == Poke(A, Int3)
disableBreakPoint_Lost(S) == text   \* mutant: the poke is lost
disableBreakPoint(S) == Poke(PcsOf(S), Original(S))

\* Mutant: the byte is not read before it is overwritten.
setPcBreakPoint_NoPeek(a) ==
  /\ findBreakPoint(a) = {}
  /\ infos' = infos \cup {[pc |-> a, original |-> "zero"]}
  /\ text' = enableBreakPoint({a})

\* Save the byte at a, overwrite it, and list the breakpoint.
setPcBreakPoint(a) ==
  /\ findBreakPoint(a) = {}
  /\ infos' = infos \cup {[pc |-> a, original |-> text[a]]}
  /\ text' = enableBreakPoint({a})

\* Mutant: the program counter stays behind the INT3.
stepBack_KeepsPc ==
  /\ text' = disableBreakPoint(findBreakPoint(pc - 1))
  /\ pc' = pc
  /\ deferred' = deferred \cup {pc - 1}

\* The breakpoint control has just hit is taken out and pc moved back to its address.
stepBack ==
  /\ text' = disableBreakPoint(findBreakPoint(pc - 1))
  /\ pc' = pc - 1
  /\ deferred' = deferred \cup {pc - 1}

\* Mutant: the calls are dropped.
runDeferred_Dropped ==
  /\ UNCHANGED text
  /\ deferred' = {}

\* The deferred calls run: they poke if the process still lives.
runDeferred ==
  /\ text' = IF Alive THEN enableBreakPoint(deferred) ELSE text
  /\ deferred' = {}
=============================================================================
