-------------------------------- MODULE Code --------------------------------
(***************************************************************************)
(* The executable that godbg builds, analyses and traces: its code bytes   *)
(* and what each instruction does to the traced thread.  This is not code  *)
(* of the repository.  It is the compiled Go program, modelled by what the *)
(* debugger relies on: an instruction has a start address, a length and a  *)
(* kind (x86asm.Inst.Len and Op), calls push the address behind the call,  *)
(* returns pop it, and the exit system call ends the process.              *)
(***************************************************************************)
EXTENDS Integers, Sequences

CONSTANTS
  Inst,      \* the addresses at which an instruction starts
  InstLen,   \* the length of each instruction in bytes
  Op,        \* "op", "call", "ret" or "exit"
  Dest,      \* where control may go next: the branches of an "op", the callees of a "call"
  Entry,     \* the instruction a new process stops at
  MaxDepth   \* bound: return addresses the stack holds before it overflows

ASSUME CodeAssumption ==
  /\ Inst \subseteq Nat \ {0}
  /\ InstLen \in [Inst -> Nat \ {0}]
  /\ Op \in [Inst -> {"op", "call", "ret", "exit"}]
  /\ Dest \in [Inst -> SUBSET Inst]
  /\ Entry \in Inst
  /\ MaxDepth \in Nat
  \* instructions do not overlap
  /\ \A a, b \in Inst : a < b => a + InstLen[a] <= b
  \* a call returns to an instruction
  /\ \A a \in Inst : Op[a] = "call" => a + InstLen[a] \in Inst

ReturnAddress(a) == a + InstLen[a]

(***************************************************************************)
(* What executing instruction a on a thread with return stack s may lead   *)
(* to: the next instruction, the new stack and whether the process lives   *)
(* on.  A call on a full stack is fatal, as Go's stack overflow is, and so *)
(* is a return with nothing to return to.                                  *)
(***************************************************************************)
Outcome(ip, s, fate) == [ip |-> ip, stack |-> s, fate |-> fate]

Outcomes(a, s) ==
  CASE Op[a] = "op"   -> {Outcome(d, s, "alive") : d \in Dest[a]}
    [] Op[a] = "call" ->
         IF Len(s) < MaxDepth
         THEN {Outcome(d, <<ReturnAddress(a)>> \o s, "alive") : d \in Dest[a]}
         ELSE {Outcome(a, s, "killed")}
    [] Op[a] = "ret"  ->
         IF s # <<>> THEN {Outcome(Head(s), Tail(s), "alive")}
                     ELSE {Outcome(a, s, "killed")}
    [] Op[a] = "exit" -> {Outcome(a, s, "exited")}

(***************************************************************************)
(* A hypothesis of theorems: no function of the program calls itself, even *)
(* indirectly.  Each instruction has a level that control inside a         *)
(* function, behind its calls too, never leaves downwards, and a callee is *)
(* above the address it returns to.                                        *)
(***************************************************************************)
IsLevel(level) ==
  \A a \in Inst : \A d \in Dest[a] :
    /\ Op[a] = "op"   => level[a] <= level[d]
    /\ Op[a] = "call" => /\ level[a] <= level[ReturnAddress(a)]
                         /\ level[ReturnAddress(a)] < level[d]

NoRecursion == \E level \in [Inst -> Nat] : IsLevel(level)
=============================================================================
