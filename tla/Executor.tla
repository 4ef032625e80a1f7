------------------------------ MODULE Executor ------------------------------
(***************************************************************************)
(* The prompt's executor and the process it controls (prompt.go,           *)
(* register.go, with breakpoint.go and bininfo.go): one action for each    *)
(* command that ends at once, and for the commands that resume the process *)
(* one action for each segment between two waits.  Within a segment the    *)
(* traced thread is stopped, so nothing can come between its requests      *)
(* except the death of the process.  When godbg ends, the process is let   *)
(* go with the INT3s that are in its code.                                 *)
(*                                                                         *)
(* bt, p, disass, l, bl and h only read and print: no steps here, but for  *)
(* a crash.  Inspect, Disassemble and Listing say what they show.          *)
(***************************************************************************)
EXTENDS BreakPoint, LineTable

CONSTANTS
  UserLines,   \* the lines the user names in b, which need not exist
  MaxProcs,    \* bound: how many processes restart may start, counting the first
  GodbgTest    \* the environment variable GODBG_TEST is set: q does not exit

BreakAddrs == {fileLineToPcForBreakPoint(l) : l \in UserLines} \ {NotFound}

ASSUME ExecutorAssumption ==
  /\ UserLines \subseteq Nat \ {0}
  /\ MaxProcs \in Nat \ {0}
  /\ GodbgTest \in BOOLEAN
  /\ BreakAddrs \subseteq Inst

\* No breakpoint goes on a one-byte instruction.  The code relies on this without
\* checking it, so it is a hypothesis of the theorems and not an assumption here.
BreakableIsLong == \A a \in BreakAddrs : InstLen[a] >= 2

\* Every address has one line, and no row starts inside an instruction that may be patched.
\* A hypothesis of the theorem about s, which compares lines.
OneLine ==
  /\ \A i, j \in DOMAIN Rows : Rows[i].addr = Rows[j].addr => Rows[i].line = Rows[j].line
  /\ \A a \in BreakAddrs, i \in DOMAIN Rows : Rows[i].addr # a + 1

VARIABLES
  pid,       \* target.cmd.Process.Pid, 0 when target.cmd.Process is nil
  newest,    \* the pid of the process started last
  dbg,       \* where the executor is
  oldline,   \* step, next: the line the command began on
  calling,   \* next: callingfpc while calling is true, otherwise 0
  fall,      \* next: the address whose line is looked up after the single-step, or 0
  hist       \* history: the last c, s or n, for the properties below

locals == <<oldline, calling, fall>>
procs  == <<pid, newest>>
vars   == <<traceeVars, bpVars, procs, dbg, locals, hist>>

Ended   == {"exited", "crashed"}
Waiting == {"c_step", "c_wait", "s_wait", "n_wait"}
Looping == {"s_loop", "n_loop"}
InStep  == {"s_loop", "s_wait"}
InNext  == {"n_loop", "n_wait"}

History == [cmd : {"none", "c", "s", "n"},
            depth : Nat,          \* return addresses on the stack when it began
            trapped : BOOLEAN,    \* it began on a breakpoint just hit
            ran : 0..2,           \* instructions executed since, 2 for two or more
            outcome : {"none", "listed", "error", "exited", "lost"}]

NoCommand == [cmd |-> "none", depth |-> 0, trapped |-> FALSE, ran |-> 0, outcome |-> "none"]

Began(c) ==
  [cmd |-> c, depth |-> Len(stack), trapped |-> Trapped, ran |-> 0, outcome |-> "none"]

TypeOK ==
  /\ TraceeTypeOK
  /\ BreakPointTypeOK
  /\ pid \in 0..MaxProcs
  /\ newest \in 1..MaxProcs
  /\ dbg \in {"idle"} \cup Waiting \cup Looping \cup Ended
  /\ oldline \in Nat
  /\ calling \in Nat
  /\ fall \in Nat
  /\ hist \in History

Init ==
  /\ TraceeInit
  /\ BreakPointInit
  /\ pid = 1
  /\ newest = 1
  /\ dbg = "idle"
  /\ oldline = 0
  /\ calling = 0
  /\ fall = 0
  /\ hist = NoCommand

\* A ptrace request on target.cmd.Process succeeds.
CanPtrace == pid # 0 /\ stat = "stopped"

Prompt == dbg = "idle"

-----------------------------------------------------------------------------
\* Commands that end at once.

\* b <file:line>
SetFileLineBreakPoint(l) ==
  LET a == fileLineToPcForBreakPoint(l)
  IN  /\ Prompt
      /\ \/ /\ CanPtrace
            /\ a # NotFound
            /\ setPcBreakPoint(a)
         \/ /\ ~CanPtrace \/ a = NotFound \/ findBreakPoint(a) # {}
            /\ UNCHANGED <<text, infos>>
      /\ hist' = NoCommand
      /\ UNCHANGED <<pc, stack, stat, sigstop, deferred, procs, dbg, locals>>

\* Mutant: control is moved back whether it has hit one of the entries or not.
clear_Unchecked(S) ==
  /\ Prompt
  /\ CanPtrace
  /\ text' = disableBreakPoint(S)
  /\ pc' = pc - 1
  /\ infos' = infos \ S
  /\ hist' = NoCommand
  /\ UNCHANGED <<stack, stat, sigstop, deferred, procs, dbg, locals>>

\* bc: the entries S are removed; control that has just hit one is moved back to it.
clear(S) ==
  /\ Prompt
  /\ CanPtrace
  /\ text' = disableBreakPoint(S)
  /\ pc' = IF pc - 1 \in PcsOf(S) THEN pc - 1 ELSE pc
  /\ infos' = infos \ S
  /\ hist' = NoCommand
  /\ UNCHANGED <<stack, stat, sigstop, deferred, procs, dbg, locals>>

\* bc all, bc <n>
bclear == clear(infos) \/ \E i \in infos : clear({i})

SetBpWhenRestart ==
  text' = IF stat = "stopped" THEN enableBreakPoint(Listed) ELSE text

\* r: the new process is kept in the executor's local cmd.  target.cmd, which every
\* other command uses, still is the old process, now with a SIGSTOP queued.  Without an
\* old process, target.cmd.Process.Pid dereferences nil.
restart ==
  /\ Prompt
  /\ sigstop' = (sigstop \/ (pid # 0 /\ Alive))
  /\ \/ UNCHANGED <<newest, text, stat, dbg>>   \* runexec fails
     \/ /\ newest < MaxProcs
        /\ newest' = newest + 1
        /\ \/ pid # 0 /\ SetBpWhenRestart /\ UNCHANGED <<stat, dbg>>
           \/ pid = 0 /\ dbg' = "crashed" /\ stat' = Released /\ UNCHANGED text
  /\ hist' = NoCommand
  /\ UNCHANGED <<pc, stack, bpVars, pid, locals>>

\* disass reads target.cmd.Process.Pid before anything else.
disassWithoutProcess ==
  /\ Prompt
  /\ pid = 0
  /\ dbg' = "crashed"
  /\ stat' = Released
  /\ hist' = NoCommand
  /\ UNCHANGED <<text, pc, stack, sigstop, bpVars, procs, locals>>

\* q kills the process, unless c has lost it.
quit ==
  /\ Prompt
  /\ stat' = IF pid # 0 /\ Alive THEN "killed" ELSE IF GodbgTest THEN stat ELSE Released
  /\ dbg' = IF GodbgTest THEN "idle" ELSE "exited"
  /\ hist' = NoCommand
  /\ UNCHANGED <<text, pc, stack, sigstop, bpVars, procs, locals>>

\* c, s or n without a process, or with one that cannot be traced.
refused(c) ==
  /\ Prompt
  /\ ~CanPtrace
  /\ hist' = [Began(c) EXCEPT !.outcome = "error"]
  /\ UNCHANGED <<traceeVars, bpVars, procs, dbg, locals>>

-----------------------------------------------------------------------------
\* c

\* singleStepInstructionWithBreakpointCheck, up to its wait; without a breakpoint to
\* leave, Continue.
continue ==
  /\ Prompt
  /\ CanPtrace
  /\ \/ /\ Trapped
        /\ stepBack
        /\ stat' = "stepping"
        /\ dbg' = "c_step"
     \/ /\ ~Trapped
        /\ stat' = "running"
        /\ dbg' = "c_wait"
        /\ UNCHANGED <<text, pc, deferred>>
  /\ hist' = Began("c")
  /\ UNCHANGED <<stack, sigstop, infos, procs, locals>>

SteppedOver_Urg == stat \in {"trap", "urg"}   \* mutant: as lenient as the other waits

\* What the wait after the single-step accepts.
SteppedOver == stat = "trap"

\* The single-step is reported and enableBreakPoint runs.  After a trap the command goes
\* on with Continue.  Any other stop ends it, and so does the end of the process, which
\* Continue finds out.
continueStepped ==
  /\ dbg = "c_step"
  /\ Reportable
  /\ runDeferred
  /\ \/ /\ SteppedOver
        /\ stat' = "running"
        /\ dbg' = "c_wait"
        /\ UNCHANGED hist
     \/ /\ ~SteppedOver
        /\ stat' = Reported
        /\ dbg' = "idle"
        /\ hist' = [hist EXCEPT !.outcome = "error"]
  /\ UNCHANGED <<pc, stack, sigstop, infos, procs, locals>>

\* A trap or a SIGURG is shown to the user.  After anything else target.cmd.Process is
\* nil, although the process may just have stopped at a signal.
continued ==
  /\ dbg = "c_wait"
  /\ Reportable
  /\ stat' = Reported
  /\ dbg' = "idle"
  /\ \/ /\ stat \in {"trap", "urg"}
        /\ hist' = [hist EXCEPT !.outcome = "listed"]
        /\ UNCHANGED pid
     \/ /\ stat \notin {"trap", "urg"}
        /\ hist' = [hist EXCEPT !.outcome = IF stat = "exited" THEN "exited" ELSE "lost"]
        /\ pid' = 0
  /\ UNCHANGED <<text, pc, stack, sigstop, bpVars, newest, locals>>

-----------------------------------------------------------------------------
\* s and n

\* The command returns to the prompt and its deferred calls run.
return(outcome) ==
  /\ runDeferred
  /\ dbg' = "idle"
  /\ oldline' = 0 /\ calling' = 0 /\ fall' = 0
  /\ hist' = [hist EXCEPT !.outcome = outcome]

\* PtraceSingleStep, followed by a wait.
singleStep(wait) ==
  /\ stat' = "stepping"
  /\ dbg' = wait

\* The process died since the last wait: the next request fails.
foundDead ==
  /\ dbg \in Looping
  /\ ~CanPtrace
  /\ return("error")
  /\ UNCHANGED <<pc, stack, stat, sigstop, infos, procs>>

\* The wait after a single-step reports something that ends the command.
stepEnded ==
  /\ dbg \in {"s_wait", "n_wait"}
  /\ Reportable
  /\ stat' = Reported
  /\ \/ stat = "exited" /\ return("exited") /\ pid' = 0
     \/ stat \in {"other", "killed"} /\ return("error") /\ UNCHANGED pid
  /\ UNCHANGED <<pc, stack, sigstop, infos, newest>>

\* Mutant: the line the command begins on is not recorded.
step_NoLine ==
  /\ Prompt
  /\ CanPtrace
  /\ oldline' = 0
  /\ dbg' = "s_loop"
  /\ hist' = Began("s")
  /\ UNCHANGED <<traceeVars, bpVars, procs, calling, fall>>

step ==
  /\ Prompt
  /\ CanPtrace
  /\ oldline' \in pcTofileLine(pc)
  /\ dbg' = "s_loop"
  /\ hist' = Began("s")
  /\ UNCHANGED <<traceeVars, bpVars, procs, calling, fall>>

stepArrived ==
  /\ dbg = "s_loop"
  /\ CanPtrace
  /\ \E l \in pcTofileLine(pc) : l # oldline
  /\ return("listed")
  /\ UNCHANGED <<pc, stack, stat, sigstop, infos, procs>>

stepOn ==
  /\ dbg = "s_loop"
  /\ CanPtrace
  /\ oldline \in pcTofileLine(pc)
  /\ \/ Trapped /\ stepBack
     \/ ~Trapped /\ UNCHANGED <<text, pc, deferred>>
  /\ singleStep("s_wait")
  /\ UNCHANGED <<stack, sigstop, infos, procs, locals, hist>>

stepWaited ==
  /\ dbg = "s_wait"
  /\ stat \in {"trap", "urg"}
  /\ stat' = Reported
  /\ dbg' = "s_loop"
  /\ UNCHANGED <<text, pc, stack, sigstop, bpVars, procs, locals, hist>>

-----------------------------------------------------------------------------

next ==
  /\ Prompt
  /\ CanPtrace
  /\ \/ Trapped /\ stepBack
     \/ ~Trapped /\ UNCHANGED <<text, pc, deferred>>
  /\ oldline' \in pcTofileLine(pc')
  /\ dbg' = "n_loop"
  /\ hist' = Began("n")
  /\ UNCHANGED <<stack, stat, sigstop, infos, procs, calling, fall>>

\* The loop starts over: control has hit a breakpoint.
nextTrapped ==
  /\ dbg = "n_loop"
  /\ CanPtrace
  /\ Trapped
  /\ return("listed")
  /\ UNCHANGED <<pc, stack, stat, sigstop, infos, procs>>

NextTurn == dbg = "n_loop" /\ CanPtrace /\ ~Trapped

\* Inside the call: single-step until control is at the address behind it.
nextInCall ==
  /\ NextTurn
  /\ calling # 0 /\ pc # calling
  /\ singleStep("n_wait")
  /\ UNCHANGED <<text, pc, stack, sigstop, bpVars, procs, locals, hist>>

\* Control is at the address behind the call.
nextCallDone ==
  /\ NextTurn
  /\ calling # 0 /\ pc = calling
  /\ \/ /\ \E l \in pcTofileLine(pc) : l # oldline
        /\ return("listed")
     \/ /\ oldline \in pcTofileLine(pc)
        /\ calling' = 0
        /\ UNCHANGED <<text, deferred, dbg, oldline, fall, hist>>
  /\ UNCHANGED <<pc, stack, stat, sigstop, infos, procs>>

SeesCall_Never == FALSE   \* mutant: calls are not recognised

\* getSingleMemInst decodes what the memory holds: at an INT3 that is an instruction of
\* one byte which is no call.
SeesCall == pc \in Inst /\ text[pc] = "code" /\ Op[pc] = "call"
MemInstLen == IF text[pc] = "int3" THEN 1 ELSE InstLen[pc]

nextAtCall ==
  /\ NextTurn
  /\ calling = 0
  /\ SeesCall
  /\ calling' = pc + MemInstLen
  /\ UNCHANGED <<traceeVars, bpVars, procs, dbg, oldline, fall, hist>>

nextOn ==
  /\ NextTurn
  /\ calling = 0
  /\ pc \in Inst /\ ~SeesCall
  /\ fall' = pc + MemInstLen
  /\ singleStep("n_wait")
  /\ UNCHANGED <<text, pc, stack, sigstop, bpVars, procs, oldline, calling, hist>>

\* x86asm does not know the instruction.
nextUndecoded ==
  /\ NextTurn
  /\ calling = 0
  /\ pc \in Inst /\ text[pc] = "code" /\ ~SeesCall
  /\ return("error")
  /\ UNCHANGED <<pc, stack, stat, sigstop, infos, procs>>

\* Mutant: whatever stops the thread is taken for a completed single-step.
nextWaited_AnyStop ==
  /\ dbg = "n_wait"
  /\ stat \in Stops
  /\ stat' = Reported
  /\ \/ /\ fall # 0
        /\ \E l \in pcTofileLine(fall) : l # oldline
        /\ return("listed")
     \/ /\ fall = 0 \/ oldline \in pcTofileLine(fall)
        /\ dbg' = "n_loop"
        /\ fall' = 0
        /\ UNCHANGED <<text, deferred, oldline, calling, hist>>
  /\ UNCHANGED <<pc, stack, sigstop, infos, procs>>

\* Outside a call the line of the next instruction in memory decides, wherever control is.
nextWaited ==
  /\ dbg = "n_wait"
  /\ stat \in {"trap", "urg"}
  /\ stat' = Reported
  /\ \/ /\ fall # 0
        /\ \E l \in pcTofileLine(fall) : l # oldline
        /\ return("listed")
     \/ /\ fall = 0 \/ oldline \in pcTofileLine(fall)
        /\ dbg' = "n_loop"
        /\ fall' = 0
        /\ UNCHANGED <<text, deferred, oldline, calling, hist>>
  /\ UNCHANGED <<pc, stack, sigstop, infos, procs>>

-----------------------------------------------------------------------------
\* The traced thread.  ptrace stops it at the prompt and between the waits.

execute ==
  /\ ExecuteInst
  /\ hist' = [hist EXCEPT !.ran = IF @ < 2 THEN @ + 1 ELSE @]
  /\ UNCHANGED <<bpVars, procs, dbg, locals>>

threadEvent ==
  /\ ExecuteInt3 \/ DeliverStop
  /\ UNCHANGED <<bpVars, procs, dbg, locals, hist>>

\* godbg has ended; the process has not.
release ==
  /\ RunLoose
  /\ UNCHANGED <<bpVars, procs, dbg, locals, hist>>

environment ==
  /\ DeliverSignal \/ Die
  /\ UNCHANGED <<bpVars, procs, dbg, locals, hist>>

-----------------------------------------------------------------------------

Command ==
  \/ \E l \in UserLines : SetFileLineBreakPoint(l)
  \/ bclear
  \/ restart
  \/ disassWithoutProcess
  \/ quit
  \/ \E c \in {"c", "s", "n"} : refused(c)
  \/ continue
  \/ step
  \/ next

\* What the executor does on its own once a command has started.
Proceed ==
  \/ continueStepped
  \/ continued
  \/ foundDead
  \/ stepEnded
  \/ stepArrived
  \/ stepOn
  \/ stepWaited
  \/ nextTrapped
  \/ nextInCall
  \/ nextCallDone
  \/ nextAtCall
  \/ nextUndecoded
  \/ nextOn
  \/ nextWaited

Thread == execute \/ threadEvent \/ release

Next == Command \/ Proceed \/ Thread \/ environment

Spec == Init /\ [][Next]_vars

\* The executor runs on while a command is in progress and the kernel schedules a resumed
\* thread.  Nothing makes the user type, a signal arrive or another thread exit.
FairSpec == Spec /\ WF_vars(Proceed) /\ WF_vars(Thread)

-----------------------------------------------------------------------------
(***************************************************************************)
(* Properties of breakpoints.                                              *)
(***************************************************************************)

\* The code bytes and the breakpoint table agree: while the process lives, exactly the
\* listed addresses hold INT3, but for those a running command has taken out and will
\* put back (set, clear, step-over with its deferred enable, restart).
PatchedIffListed ==
  Alive => \A a \in Inst : text[a] = "int3" <=> a \in Listed \ deferred

\* The program counter is never inside an instruction, except one byte behind a listed
\* INT3 that was just hit, and never there when the thread is resumed or let go: each
\* command moves it back first, and bc does it for the breakpoints it removes.
ControlExplained ==
  /\ pc \in Inst \/ pc - 1 \in Listed \ deferred
  /\ stat \in Resumed \cup {"loose"} => pc \in Inst

\* When c waits and the thread stops with SIGTRAP, a listed breakpoint was hit: c never
\* shows a stray trap, such as one of its own single-step or of a removed breakpoint.
TrapIsBreakPoint ==
  dbg = "c_wait" /\ stat = "trap" => Trapped

\* Whatever is typed at the prompt, the program executes only what it would execute
\* without a debugger: no instruction is skipped, repeated or entered in the middle, also
\* in a process that godbg has lost and leaves behind.  (It may die there of an INT3.)
Control == IF pc \in Inst THEN pc ELSE pc - 1   \* behind an INT3 just hit
P == INSTANCE Program WITH ip <- Control, alive <- Alive
Transparent == P!Spec

(***************************************************************************)
(* Properties of the commands that resume the process.                     *)
(***************************************************************************)

\* n, when it shows a line, has not descended into a call, unless a breakpoint in there
\* was hit.
NextNotDeeper ==
  Prompt /\ hist.cmd = "n" /\ hist.outcome = "listed" /\ ~Trapped
    => Len(stack) <= hist.depth

\* s shows a line only after it has executed something.
StepExecutes ==
  Prompt /\ hist.cmd = "s" /\ hist.outcome = "listed" => hist.ran > 0

\* c from a breakpoint leaves it: when it shows a line again, the instruction under the
\* breakpoint has been executed.
ContinueLeavesBreakPoint ==
  Prompt /\ hist.cmd = "c" /\ hist.outcome = "listed" /\ hist.trapped
    => hist.ran > 0

\* c runs past no breakpoint: the only instruction with a breakpoint that it executes is
\* the one it was stopped at, as its first (continue, with the step over the breakpoint
\* and the deferred enableBreakPoint).
ContinueStopsAtBreakPoints ==
  hist.cmd = "c" /\ stat \in Resumed /\ pc \in Listed /\ text[pc] = "code"
    => hist.trapped /\ hist.ran = 0

\* "next step for source code": when n shows a line, the program has taken a step, unless
\* n ran into the INT3 of a breakpoint it had reached by stepping (nextTrapped), or SIGURG
\* came instead of the trap of its single-step (nextWaited).
NextExecutes ==
  [][hist.cmd = "n" /\ hist.outcome = "none" /\ hist'.outcome = "listed"
       => hist.ran > 0 \/ Trapped \/ stat = "urg"]_vars

\* Every command returns to the prompt, if the program itself does not run forever.
CommandReturns == dbg \in Waiting \cup Looping ~> Prompt

(***************************************************************************)
(* What the documentation, the messages and the tests say of the commands  *)
(* and the code does not keep.                                             *)
(***************************************************************************)

\* "restart the traced programe": the process a restart has started is the one that the
\* commands typed next work on.
RestartTakesOver == [][newest' # newest => pid' = newest']_vars

\* A command that cannot work without a process says "there is no process running"; the
\* debugger does not crash.
NeverPanics == dbg # "crashed"

\* Once c, s and n say "there is no process running", there is none.
NoProcessMeansNone == pid = 0 => ~Alive

=============================================================================
