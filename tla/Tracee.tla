------------------------------- MODULE Tracee -------------------------------
(***************************************************************************)
(* The traced thread, as ptrace and wait4 show it to the debugger.  This   *)
(* is the kernel and the CPU, not code of the repository: it is modelled   *)
(* by how the repository uses it.  An INT3 byte (0xCC) at pc makes the     *)
(* thread stop with SIGTRAP one byte further on; a pending signal stops it *)
(* before the instruction; wait4 reports one such event at a time.  When   *)
(* the debugger ends, the kernel detaches the thread and lets it run on.   *)
(***************************************************************************)
EXTENDS Code

CONSTANT Signals   \* stops other than SIGTRAP: "urg" is SIGURG, "other" any other signal

VARIABLES
  text,      \* the code bytes at instruction starts: "code" or "int3"
  pc,        \* the program counter register
  stack,     \* return addresses, innermost first
  stat,      \* run state, or the event wait4 will report; "loose" without a debugger
  sigstop    \* a SIGSTOP is queued for the thread

traceeVars == <<text, pc, stack, stat, sigstop>>

Byte == {"code", "int3"}

Stops    == {"trap", "urg", "other"}   \* the thread stopped, wait4 has not reported it
Deaths   == {"exited", "killed"}       \* the process ended, wait4 has not reported it
Resumed  == {"running", "stepping"}    \* after PTRACE_CONT, after PTRACE_SINGLESTEP

TraceeTypeOK ==
  /\ text \in [Inst -> Byte]
  /\ pc \in Nat
  /\ stack \in Seq(Inst)
  /\ stat \in {"stopped", "gone", "loose"} \cup Resumed \cup Stops \cup Deaths
  /\ sigstop \in BOOLEAN

ASSUME SignalsAssumption == Signals \subseteq {"urg", "other"}

\* runexec: the kernel stops the new process at its first instruction.
TraceeInit ==
  /\ text = [a \in Inst |-> "code"]
  /\ pc = Entry
  /\ stack = <<>>
  /\ stat = "stopped"
  /\ sigstop = FALSE

Alive == stat \notin Deaths \cup {"gone"}

-----------------------------------------------------------------------------
\* Requests of the debugger.

\* PTRACE_POKEDATA of one byte at each address of A.
Poke(A, byte) == [a \in Inst |-> IF a \in A THEN byte[a] ELSE text[a]]

Int3 == [a \in Inst |-> "int3"]

\* wait4 has something to report, and what the process is after the report.
Reportable == stat \in Stops \cup Deaths
Reported   == IF stat \in Stops THEN "stopped" ELSE "gone"

\* What a thread is after the debugger has ended.  The child asks for no death signal and
\* no PTRACE_O_EXITKILL is set, so a stopped thread is detached and runs on.
Released == IF stat = "stopped" THEN "loose" ELSE stat

-----------------------------------------------------------------------------
\* Steps of the thread and of its environment.

\* After an instruction: an ended process is reported as such, a single-step as a trap.
AfterInst(fate) ==
  IF fate # "alive" THEN fate ELSE IF stat = "stepping" THEN "trap" ELSE "running"

\* The thread executes the instruction at pc.  From inside an instruction it would
\* execute whatever the bytes there happen to mean; no step is defined for that, and
\* Executor!ControlExplained says that control never gets there.
ExecuteInst ==
  /\ stat \in Resumed /\ ~sigstop
  /\ pc \in Inst
  /\ text[pc] = "code"
  /\ \E o \in Outcomes(pc, stack) :
       /\ pc' = o.ip
       /\ stack' = o.stack
       /\ stat' = AfterInst(o.fate)
  /\ UNCHANGED <<text, sigstop>>

\* The thread executes INT3.
ExecuteInt3 ==
  /\ stat \in Resumed /\ ~sigstop
  /\ pc \in Inst
  /\ text[pc] = "int3"
  /\ pc' = pc + 1
  /\ stat' = "trap"
  /\ UNCHANGED <<text, stack, sigstop>>

ThreadStep == ExecuteInst \/ ExecuteInt3

\* The queued SIGSTOP is delivered before anything is executed.
DeliverStop ==
  /\ stat \in Resumed /\ sigstop
  /\ stat' = "other"
  /\ sigstop' = FALSE
  /\ UNCHANGED <<text, pc, stack>>

\* Another signal arrives, such as the Go scheduler's preemption request SIGURG.
DeliverSignal ==
  /\ stat \in Resumed /\ ~sigstop
  /\ stat' \in Signals
  /\ UNCHANGED <<text, pc, stack, sigstop>>

-----------------------------------------------------------------------------
\* Steps without a debugger, on the code bytes the debugger has left behind.

LooseInst ==
  /\ stat = "loose" /\ ~sigstop
  /\ pc \in Inst
  /\ text[pc] = "code"
  /\ \E o \in Outcomes(pc, stack) :
       /\ pc' = o.ip
       /\ stack' = o.stack
       /\ stat' = IF o.fate = "alive" THEN "loose" ELSE o.fate
  /\ UNCHANGED <<text, sigstop>>

\* An INT3 nobody waits for is fatal.
LooseInt3 ==
  /\ stat = "loose" /\ ~sigstop
  /\ pc \in Inst
  /\ text[pc] = "int3"
  /\ pc' = pc + 1
  /\ stat' \in Deaths
  /\ UNCHANGED <<text, stack, sigstop>>

\* Let go behind an INT3, the thread executes the rest of an instruction's bytes, whatever
\* they mean, and then any instruction, or dies of it.
LooseStray ==
  /\ stat = "loose" /\ ~sigstop
  /\ pc \notin Inst
  /\ \/ pc' \in Inst /\ UNCHANGED stat
     \/ stat' \in Deaths /\ UNCHANGED pc
  /\ UNCHANGED <<text, stack, sigstop>>

RunLoose == LooseInst \/ LooseInt3 \/ LooseStray

-----------------------------------------------------------------------------
\* Another thread exits the process, or a fatal signal ends it, at any time.
Die ==
  /\ Alive
  /\ stat' \in Deaths
  /\ UNCHANGED <<text, pc, stack, sigstop>>
=============================================================================
