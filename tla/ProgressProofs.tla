--------------------------- MODULE ProgressProofs ---------------------------
(***************************************************************************)
(* Theorems about what c, s and n have executed when they show a line.     *)
(* They need, on top of ExecutorProofs!IInv, what the history variable     *)
(* says in the middle of a command.                                        *)
(***************************************************************************)
EXTENDS ExecutorProofs

\* The command recorded is the one that runs, and only n is inside a call.
CommandOfDbg ==
  /\ dbg \in {"c_step", "c_wait"} => hist.cmd = "c"
  /\ dbg \in InStep => hist.cmd = "s"
  /\ dbg \in InNext => hist.cmd = "n"
  /\ calling # 0 => dbg \in InNext

\* c has executed the instruction under its breakpoint once the single-step has trapped.
ContinueProgress ==
  /\ dbg = "c_step" => hist.trapped
  /\ dbg = "c_step" /\ stat = "stepping" => hist.ran = 0
  /\ dbg = "c_step" /\ stat = "trap" => hist.ran > 0
  /\ dbg = "c_wait" /\ hist.trapped => hist.ran > 0
  /\ ContinueLeavesBreakPoint

\* As long as n has executed nothing, control is at the call it saw, and a trap is that of
\* a breakpoint.
NextProgress ==
  /\ dbg \in InNext /\ hist.ran = 0 /\ calling # 0
       => pc \in Inst /\ text[pc] = "code" /\ pc < calling
  /\ dbg = "n_wait" /\ stat = "trap" /\ hist.ran = 0 => Trapped

PInv == IInv /\ CommandOfDbg /\ ContinueProgress /\ NextProgress

-----------------------------------------------------------------------------

LEMMA InitProgress == Init => PInv
<1> SUFFICES ASSUME Init PROVE PInv
  OBVIOUS
<1>1. dbg = "idle" /\ calling = 0 /\ hist.cmd = "none"
  BY DEF Init, NoCommand
<1>2. CommandOfDbg /\ ContinueProgress /\ NextProgress
  BY <1>1
  DEF CommandOfDbg, ContinueProgress, NextProgress, ContinueLeavesBreakPoint, InStep, InNext
<1>. QED BY <1>2, InitInv DEF PInv

\* The prompt's commands: each starts with nothing executed.
LEMMA CommandProgress ==
  ASSUME PInv, Command
  PROVE  CommandOfDbg' /\ ContinueProgress' /\ NextProgress'
<1>1. calling = 0 /\ calling' = 0
  <2>1. calling = 0
    BY DEF Command, SetFileLineBreakPoint, bclear, clear, restart, disassWithoutProcess,
           quit, refused, continue, step, next, Prompt, PInv, CommandOfDbg, InNext
  <2>. QED
    BY <2>1
    DEF Command, SetFileLineBreakPoint, bclear, clear, restart, disassWithoutProcess,
        quit, refused, continue, step, next, locals
<1>2. CASE /\ hist' = NoCommand \/ hist'.outcome = "error"
           /\ dbg' \in {"idle"} \cup Ended
  <2>1. dbg' \notin {"c_step", "c_wait"} \cup InStep \cup InNext
    BY <1>2 DEF Ended, InStep, InNext
  <2>. QED
    BY <1>1, <1>2, <2>1
    DEF CommandOfDbg, ContinueProgress, NextProgress, ContinueLeavesBreakPoint, NoCommand,
        InNext
<1>3. CASE continue
  <2>1. hist'.cmd = "c" /\ hist'.trapped = Trapped /\ hist'.ran = 0 /\ hist'.outcome = "none"
    BY <1>3 DEF continue, Began
  <2>2. \/ Trapped /\ stat' = "stepping" /\ dbg' = "c_step"
        \/ ~Trapped /\ stat' = "running" /\ dbg' = "c_wait"
    BY <1>3 DEF continue
  <2>. QED
    BY <1>1, <2>1, <2>2
    DEF CommandOfDbg, ContinueProgress, NextProgress, ContinueLeavesBreakPoint, InStep,
        InNext
<1>4. CASE step \/ next
  <2>1. \/ hist'.cmd = "s" /\ dbg' = "s_loop"
        \/ hist'.cmd = "n" /\ dbg' = "n_loop"
    BY <1>4 DEF step, next, Began
  <2>. QED
    BY <1>1, <2>1
    DEF CommandOfDbg, ContinueProgress, NextProgress, ContinueLeavesBreakPoint, InStep,
        InNext
<1>5. (\E c \in {"c", "s", "n"} : refused(c)) => hist'.outcome = "error" /\ dbg' = "idle"
  BY DEF refused, Began, Prompt
<1>6. (\E l \in UserLines : SetFileLineBreakPoint(l)) \/ bclear \/ restart
         \/ disassWithoutProcess \/ quit
      => hist' = NoCommand /\ dbg' \in {"idle"} \cup Ended
  BY DEF SetFileLineBreakPoint, bclear, clear, restart, disassWithoutProcess, quit, Prompt,
         Ended
<1>. QED
  BY <1>2, <1>3, <1>4, <1>5, <1>6 DEF Command

\* A command that returns leaves nothing to be said but what it has shown.
LEMMA ReturnProgress ==
  ASSUME PInv, NEW o, return(o), hist.cmd # "c"
  PROVE  CommandOfDbg' /\ ContinueProgress' /\ NextProgress'
<1>1. dbg' = "idle" /\ calling' = 0 /\ hist'.cmd # "c"
  BY DEF return, PInv, IInv, TypeOK, History
<1>. QED
  BY <1>1
  DEF CommandOfDbg, ContinueProgress, NextProgress, ContinueLeavesBreakPoint, InStep, InNext

\* The rest of a command.
LEMMA ProceedProgress ==
  ASSUME PInv, Proceed
  PROVE  CommandOfDbg' /\ ContinueProgress' /\ NextProgress'
<1> USE DEF procs, locals, bpVars, traceeVars
<1>0. /\ dbg \in InStep => hist.cmd = "s"
      /\ dbg \in InNext => hist.cmd = "n"
      /\ hist \in History
  BY DEF PInv, CommandOfDbg, IInv, TypeOK
<1>1. ASSUME continueStepped
      PROVE  CommandOfDbg' /\ ContinueProgress' /\ NextProgress'
  <2>1. hist.cmd = "c" /\ calling = 0 /\ calling' = 0
    BY <1>1 DEF continueStepped, PInv, CommandOfDbg, InNext
  <2>2. CASE SteppedOver /\ stat' = "running" /\ dbg' = "c_wait" /\ UNCHANGED hist
    <3>1. hist.ran > 0
      BY <1>1, <2>2 DEF continueStepped, SteppedOver, PInv, ContinueProgress
    <3>. QED
      BY <2>1, <2>2, <3>1
      DEF CommandOfDbg, ContinueProgress, NextProgress, ContinueLeavesBreakPoint, Prompt,
          InStep, InNext
  <2>3. CASE dbg' = "idle" /\ hist' = [hist EXCEPT !.outcome = "error"]
    <3>1. hist'.outcome = "error"
      BY <1>0, <2>3 DEF History
    <3>. QED
      BY <2>1, <2>3, <3>1
      DEF CommandOfDbg, ContinueProgress, NextProgress, ContinueLeavesBreakPoint, InStep,
          InNext
  <2>. QED BY <1>1, <2>2, <2>3 DEF continueStepped
<1>2. ASSUME continued
      PROVE  CommandOfDbg' /\ ContinueProgress' /\ NextProgress'
  <2>1. calling = 0 /\ calling' = 0 /\ dbg' = "idle"
    BY <1>2 DEF continued, PInv, CommandOfDbg, InNext
  <2>2. hist'.trapped = hist.trapped /\ hist'.ran = hist.ran
    BY <1>0, <1>2 DEF continued, History
  <2>3. hist.trapped => hist.ran > 0
    BY <1>2 DEF continued, PInv, ContinueProgress
  <2>. QED
    BY <2>1, <2>2, <2>3
    DEF CommandOfDbg, ContinueProgress, NextProgress, ContinueLeavesBreakPoint, InStep,
        InNext
<1>3. ASSUME foundDead \/ stepEnded \/ stepArrived \/ nextTrapped \/ nextUndecoded
      PROVE  CommandOfDbg' /\ ContinueProgress' /\ NextProgress'
  <2>1. hist.cmd # "c"
    BY <1>0, <1>3
    DEF foundDead, stepEnded, stepArrived, nextTrapped, nextUndecoded, NextTurn, Looping,
        InStep, InNext
  <2>2. \E o : return(o)
    BY <1>3 DEF foundDead, stepEnded, stepArrived, nextTrapped, nextUndecoded
  <2>. QED BY <2>1, <2>2, ReturnProgress
<1>4. ASSUME stepOn \/ stepWaited
      PROVE  CommandOfDbg' /\ ContinueProgress' /\ NextProgress'
  <2>1. hist.cmd = "s" /\ hist' = hist /\ dbg' \in InStep /\ calling = 0 /\ calling' = 0
    BY <1>0, <1>4 DEF stepOn, stepWaited, singleStep, InStep, InNext, PInv, CommandOfDbg
  <2>. QED
    BY <2>1
    DEF CommandOfDbg, ContinueProgress, NextProgress, ContinueLeavesBreakPoint, InStep,
        InNext
<1>5. ASSUME nextInCall
      PROVE  CommandOfDbg' /\ ContinueProgress' /\ NextProgress'
  <2>1. /\ hist.cmd = "n" /\ hist' = hist /\ dbg' = "n_wait" /\ stat' = "stepping"
        /\ dbg \in InNext /\ calling' = calling /\ text' = text /\ pc' = pc
    BY <1>0, <1>5 DEF nextInCall, NextTurn, singleStep, InNext
  <2>. QED
    BY <2>1
    DEF PInv, CommandOfDbg, ContinueProgress, NextProgress, ContinueLeavesBreakPoint, InStep,
        InNext
<1>6. ASSUME nextCallDone
      PROVE  CommandOfDbg' /\ ContinueProgress' /\ NextProgress'
  <2>1. hist.cmd = "n"
    BY <1>0, <1>6 DEF nextCallDone, NextTurn, InNext
  <2>2. CASE return("listed")
    BY <2>1, <2>2, ReturnProgress
  <2>3. CASE calling' = 0 /\ dbg' = dbg /\ hist' = hist
    BY <1>6, <2>1, <2>3
    DEF nextCallDone, NextTurn, CommandOfDbg, ContinueProgress, NextProgress,
        ContinueLeavesBreakPoint, InStep, InNext
  <2>. QED BY <1>6, <2>2, <2>3 DEF nextCallDone
<1>7. ASSUME nextAtCall
      PROVE  CommandOfDbg' /\ ContinueProgress' /\ NextProgress'
  <2>1. /\ hist.cmd = "n" /\ hist' = hist /\ dbg' = "n_loop"
        /\ text' = text /\ pc' = pc
    BY <1>0, <1>7 DEF nextAtCall, NextTurn, InNext
  <2>2. pc \in Inst /\ text[pc] = "code" /\ calling' = pc + InstLen[pc]
    BY <1>7 DEF nextAtCall, SeesCall, MemInstLen
  <2>3. pc < calling'
    BY <2>2, InstNat
  <2>. QED
    BY <2>1, <2>2, <2>3
    DEF CommandOfDbg, ContinueProgress, NextProgress, ContinueLeavesBreakPoint, InStep,
        InNext
<1>8. ASSUME nextOn
      PROVE  CommandOfDbg' /\ ContinueProgress' /\ NextProgress'
  <2>1. /\ hist.cmd = "n" /\ hist' = hist /\ dbg' = "n_wait" /\ stat' = "stepping"
        /\ calling' = 0
    BY <1>0, <1>8 DEF nextOn, NextTurn, singleStep, InNext
  <2>. QED
    BY <2>1
    DEF CommandOfDbg, ContinueProgress, NextProgress, ContinueLeavesBreakPoint, InStep,
        InNext
<1>9. ASSUME nextWaited
      PROVE  CommandOfDbg' /\ ContinueProgress' /\ NextProgress'
  <2>1. hist.cmd = "n" /\ dbg \in InNext
    BY <1>0, <1>9 DEF nextWaited, InNext
  <2>2. CASE return("listed")
    BY <2>1, <2>2, ReturnProgress
  <2>3. CASE dbg' = "n_loop" /\ UNCHANGED <<text, calling, hist>>
    <3>1. pc' = pc
      BY <1>9 DEF nextWaited
    <3>. QED
      BY <2>1, <2>3, <3>1
      DEF PInv, CommandOfDbg, ContinueProgress, NextProgress, ContinueLeavesBreakPoint,
          InStep, InNext
  <2>. QED BY <1>9, <2>2, <2>3 DEF nextWaited
<1>. QED
  BY <1>1, <1>2, <1>3, <1>4, <1>5, <1>6, <1>7, <1>8, <1>9 DEF Proceed

\* Without a debugger the thread changes nothing a command would see.
LEMMA LooseStep ==
  ASSUME IInv, release
  PROVE  /\ dbg \in Ended
         /\ stat' \in {"loose"} \cup Deaths
         /\ UNCHANGED <<text, infos, deferred, dbg, oldline, calling, fall, hist>>
<1>1. stat = "loose" /\ UNCHANGED <<text, infos, deferred, dbg, oldline, calling, fall, hist>>
  BY DEF release, RunLoose, LooseInst, LooseInt3, LooseStray, bpVars, locals
<1>2. stat' \in {"loose"} \cup Deaths
  BY LooseInstType DEF release, RunLoose, LooseInst, LooseInt3, LooseStray, IInv
<1>. QED BY <1>1, <1>2 DEF IInv, LeftBehind

\* An instruction is counted; an INT3 is a listed breakpoint's; a signal is no trap.
LEMMA ThreadProgress ==
  ASSUME PInv, BreakableIsLong, Thread \/ environment
  PROVE  CommandOfDbg' /\ ContinueProgress' /\ NextProgress'
<1> USE DEF bpVars, procs, locals
<1>0. /\ UNCHANGED <<infos, deferred, dbg, calling, text>>
      /\ hist'.cmd = hist.cmd /\ hist'.trapped = hist.trapped
      /\ hist'.outcome = hist.outcome
      /\ hist.ran \in 0..2 /\ hist'.ran \in 0..2 /\ hist'.ran >= hist.ran
  BY LooseStep DEF Thread, environment, execute, threadEvent, ExecuteInst, ExecuteInt3, DeliverStop,
         DeliverSignal, Die, PInv, IInv, TypeOK, History
<1>1. CommandOfDbg'
  BY <1>0 DEF PInv, CommandOfDbg
<1>2. ContinueLeavesBreakPoint'
  BY <1>0 DEF PInv, ContinueProgress, ContinueLeavesBreakPoint, Prompt
<1>3. CASE execute
  <2>1. hist'.ran > 0
    BY <1>3 DEF execute, PInv, IInv, TypeOK, History
  <2>2. stat' # "stepping"
    <3>1. PICK o \in Outcomes(pc, stack) : stat' = AfterInst(o.fate)
      BY <1>3 DEF execute, ExecuteInst
    <3>2. o.fate \in {"alive", "exited", "killed"}
      BY <1>3, OutcomesType DEF execute, ExecuteInst, PInv, IInv, TypeOK, TraceeTypeOK
    <3>. QED BY <3>1, <3>2 DEF AfterInst
  <2>. QED
    BY <1>0, <1>1, <1>2, <2>1, <2>2 DEF PInv, ContinueProgress, NextProgress
<1>4. CASE ExecuteInt3 /\ UNCHANGED hist
  <2>1. pc \in Inst /\ text[pc] = "int3" /\ pc' = pc + 1 /\ stat \in Resumed /\ stat' = "trap"
    BY <1>4 DEF ExecuteInt3
  <2>2. pc \in Listed \ deferred
    BY <1>0, <2>1 DEF PInv, IInv, Consistent, PatchedIffListed, Alive, Resumed, Deaths
  <2>3. Trapped'
    <3>1. pc' - 1 = pc /\ pc \in Listed
      BY <2>1, <2>2, InstNat
    <3>. QED BY <1>0, <3>1 DEF Trapped, findBreakPoint, Listed, PcsOf
  <2>4. dbg # "c_step"
    BY <2>1, <2>2 DEF PInv, IInv, Consistent, StatOfDbg, Resumed
  <2>. QED
    BY <1>0, <1>1, <1>2, <1>4, <2>1, <2>3, <2>4
    DEF PInv, ContinueProgress, NextProgress
<1>5. CASE (DeliverStop \/ DeliverSignal \/ Die) /\ UNCHANGED hist
  <2>1. pc' = pc /\ stat' \notin {"trap", "stepping"}
    BY <1>5, SignalsAssumption DEF DeliverStop, DeliverSignal, Die, Deaths
  <2>. QED
    BY <1>0, <1>1, <1>2, <1>5, <2>1 DEF PInv, ContinueProgress, NextProgress
<1>6. CASE release
  <2>1. dbg' \notin {"c_step", "c_wait", "n_wait"} \cup InNext
    BY <1>0, <1>6, LooseStep DEF PInv, Ended, InNext
  <2>. QED
    BY <1>1, <1>2, <2>1 DEF ContinueProgress, NextProgress
<1>. QED
  BY <1>3, <1>4, <1>5, <1>6 DEF Thread, environment, threadEvent

LEMMA ProgressStep ==
  ASSUME PInv, BreakableIsLong, [Next]_vars
  PROVE  PInv'
<1>1. IInv'
  BY InvStep DEF PInv
<1>2. CASE UNCHANGED vars
  BY <1>1, <1>2
  DEF vars, traceeVars, bpVars, procs, locals, PInv, CommandOfDbg, ContinueProgress,
      NextProgress, ContinueLeavesBreakPoint, Prompt, Trapped, findBreakPoint
<1>. QED
  BY <1>1, <1>2, CommandProgress, ProceedProgress, ThreadProgress DEF PInv, Next

LEMMA ProgressInvariant ==
  ASSUME BreakableIsLong
  PROVE  Spec => []PInv
<1>1. PInv /\ [Next]_vars => PInv'
  BY ProgressStep
<1>. QED BY InitProgress, <1>1, PTL DEF Spec

-----------------------------------------------------------------------------

\* c that began on a breakpoint has executed the instruction under it when it shows a line.
THEOREM ContinueLeaves ==
  ASSUME BreakableIsLong
  PROVE  Spec => []ContinueLeavesBreakPoint
<1>1. PInv => ContinueLeavesBreakPoint
  BY DEF PInv, ContinueProgress
<1>. QED BY ProgressInvariant, <1>1, PTL

\* c executes no instruction with a breakpoint but the one it was stopped at.
THEOREM ContinueStops ==
  ASSUME BreakableIsLong
  PROVE  Spec => []ContinueStopsAtBreakPoints
<1>1. ASSUME PInv, hist.cmd = "c", stat \in Resumed, pc \in Listed, text[pc] = "code"
      PROVE  hist.trapped /\ hist.ran = 0
  <2>1. pc \in Inst /\ Alive
    BY <1>1 DEF PInv, IInv, Consistent, ControlExplained, Alive, Resumed, Deaths
  <2>2. pc \in deferred
    BY <1>1, <2>1 DEF PInv, IInv, Consistent, PatchedIffListed
  <2>3. dbg = "c_step" /\ stat = "stepping"
    BY <1>1, <2>2
    DEF PInv, CommandOfDbg, IInv, Consistent, DeferredIsBrief, StatOfDbg, Resumed
  <2>. QED BY <1>1, <2>3 DEF PInv, ContinueProgress
<1>2. PInv => ContinueStopsAtBreakPoints
  BY <1>1 DEF ContinueStopsAtBreakPoints
<1>. QED BY ProgressInvariant, <1>2, PTL

\* n shows a line only after a step of the program, at a breakpoint or after SIGURG.
THEOREM NextTakesAStep ==
  ASSUME BreakableIsLong
  PROVE  Spec => NextExecutes
<1> DEFINE A == hist.cmd = "n" /\ hist.outcome = "none" /\ hist'.outcome = "listed"
                  => hist.ran > 0 \/ Trapped \/ stat = "urg"
<1>1. ASSUME PInv, [Next]_vars, hist.cmd = "n", hist.outcome = "none",
             hist'.outcome = "listed", hist.ran = 0
      PROVE  Trapped \/ stat = "urg"
  <2>1. nextTrapped \/ nextCallDone \/ nextWaited
    <3>1. ~Command
      <4>1. (\E c \in {"c", "s", "n"} : refused(c)) => hist'.outcome = "error"
        BY DEF refused, Began
      <4>2. continue \/ step \/ next => hist'.outcome = "none"
        BY DEF continue, step, next, Began
      <4>3. (\E l \in UserLines : SetFileLineBreakPoint(l)) \/ bclear \/ restart
               \/ disassWithoutProcess \/ quit
            => hist' = NoCommand
        BY DEF SetFileLineBreakPoint, bclear, clear, restart, disassWithoutProcess, quit
      <4>. QED BY <1>1, <4>1, <4>2, <4>3 DEF Command, NoCommand
    <3>2. ~(Thread \/ environment \/ UNCHANGED vars)
      BY <1>1, LooseStep
      DEF Thread, environment, execute, threadEvent, vars, PInv, IInv, TypeOK, History
    <3>3. ~continued /\ ~continueStepped /\ ~stepArrived
      BY <1>1
      DEF continued, continueStepped, stepArrived, PInv, CommandOfDbg, InStep
    <3>4. ~foundDead /\ ~stepEnded /\ ~nextUndecoded
      BY <1>1 DEF foundDead, stepEnded, nextUndecoded, return, PInv, IInv, TypeOK, History
    <3>5. ~stepOn /\ ~stepWaited /\ ~nextInCall /\ ~nextAtCall /\ ~nextOn
      BY <1>1 DEF stepOn, stepWaited, nextInCall, nextAtCall, nextOn
    <3>. QED BY <1>1, <3>1, <3>2, <3>3, <3>4, <3>5 DEF Next, Proceed
  <2>2. ~nextCallDone
    BY <1>1
    DEF nextCallDone, NextTurn, PInv, NextProgress, InNext, IInv, TypeOK, TraceeTypeOK
  <2>3. nextWaited => Trapped \/ stat = "urg"
    BY <1>1 DEF nextWaited, PInv, NextProgress
  <2>. QED BY <2>1, <2>2, <2>3 DEF nextTrapped
<1>2. PInv /\ [Next]_vars => [A]_vars
  <2>1. PInv => hist.ran = 0 \/ hist.ran > 0
    BY DEF PInv, IInv, TypeOK, History
  <2>. QED BY <1>1, <2>1
<1>. QED BY ProgressInvariant, <1>2, PTL DEF Spec, NextExecutes

-----------------------------------------------------------------------------
(***************************************************************************)
(* s compares lines, so what it has executed depends on the line table:    *)
(* where several lines share an address it may take the one for the other  *)
(* before it has moved.                                                    *)
(***************************************************************************)

\* Rows start at numbers.
LEMMA RowsStart ==
  ASSUME NEW i \in DOMAIN Rows
  PROVE  Rows[i].addr \in Nat
<1> DEFINE Row == [addr : Nat \ {0}, line : Nat \ {0}, prologueEnd : BOOLEAN]
<1>1. Rows \in Seq(Row)
  BY RowsAssumption
<1> HIDE DEF Row
<1>2. Rows[i] \in Row
  BY <1>1
<1>. QED BY <1>2 DEF Row

\* Where the rows of an address agree, whichever the map order yields has the same line.
LEMMA LineOfAddress ==
  ASSUME OneLine, NEW a \in Nat, NEW l \in pcTofileLine(a), NEW m \in pcTofileLine(a)
  PROVE  l = m
<1> DEFINE below == {i \in DOMAIN Rows : Rows[i].addr <= a}
           last  == {i \in below : \A j \in below : Rows[j].addr <= Rows[i].addr}
<1>1. CASE below = {}
  BY <1>1 DEF pcTofileLine
<1>2. CASE below # {}
  <2>1. PICK i \in last, j \in last : l = Rows[i].line /\ m = Rows[j].line
    BY <1>2 DEF pcTofileLine
  <2>2. Rows[i].addr \in Nat /\ Rows[j].addr \in Nat
    BY RowsStart
  <2>3. Rows[i].addr = Rows[j].addr
    BY <2>2
  <2>. QED BY <2>1, <2>3 DEF OneLine
<1>. QED BY <1>1, <1>2

\* The address behind the INT3 of a breakpoint has the lines of the breakpoint.
LEMMA LineBehind ==
  ASSUME OneLine, NEW a \in BreakAddrs
  PROVE  pcTofileLine(a + 1) = pcTofileLine(a)
<1>1. a \in Nat
  BY ExecutorAssumption, CodeAssumption
<1>2. ASSUME NEW i \in DOMAIN Rows
      PROVE  Rows[i].addr <= a + 1 <=> Rows[i].addr <= a
  <2>1. Rows[i].addr \in Nat /\ Rows[i].addr # a + 1
    BY RowsStart DEF OneLine
  <2>. QED BY <1>1, <2>1
<1>3. {i \in DOMAIN Rows : Rows[i].addr <= a + 1} = {i \in DOMAIN Rows : Rows[i].addr <= a}
  BY <1>2
<1>. QED BY <1>3 DEF pcTofileLine

\* As long as s has executed nothing, control has the line it began on.
StepProgress ==
  /\ dbg \in InStep /\ hist.ran = 0 => pcTofileLine(pc) = {oldline}
  /\ StepExecutes

\* The line does not change when pc moves back over an INT3, or forth.
LEMMA SameLine ==
  ASSUME IInv, OneLine, Trapped
  PROVE  pcTofileLine(pc - 1) = pcTofileLine(pc)
<1>1. pc - 1 \in BreakAddrs
  BY TrappedAt DEF IInv, Consistent, ListedBreakable
<1>2. (pc - 1) + 1 = pc
  BY DEF IInv, TypeOK, TraceeTypeOK
<1>. QED BY <1>1, <1>2, LineBehind

LEMMA StepProgressStep ==
  ASSUME PInv, BreakableIsLong, OneLine, StepProgress, [Next]_vars
  PROVE  StepProgress'
<1> USE DEF procs, locals, bpVars, traceeVars, InStep
<1>0. /\ IInv /\ hist \in History /\ pc \in Nat
      /\ dbg \in InStep => hist.cmd = "s"
      /\ hist.cmd = "s" /\ dbg \notin InStep => dbg \notin {"c_step", "c_wait"} \cup InNext
  BY DEF PInv, CommandOfDbg, IInv, TypeOK, TraceeTypeOK
<1>1. CASE step
  <2>1. pc' = pc /\ oldline' \in pcTofileLine(pc) /\ hist'.outcome = "none"
    BY <1>1 DEF step, Began
  <2>2. pcTofileLine(pc) = {oldline'}
    BY <1>0, <2>1, LineOfAddress
  <2>. QED BY <2>1, <2>2 DEF StepProgress, StepExecutes
<1>2. CASE Command /\ ~step
  <2>1. (\E c \in {"c", "s", "n"} : refused(c))
        => hist'.outcome = "error" /\ dbg' = "idle"
    BY DEF refused, Began, Prompt
  <2>2. continue \/ next => hist'.cmd # "s" /\ dbg' \in {"c_step", "c_wait", "n_loop"}
    BY DEF continue, next, Began
  <2>3. (\E l \in UserLines : SetFileLineBreakPoint(l)) \/ bclear \/ restart
           \/ disassWithoutProcess \/ quit
        => hist' = NoCommand /\ dbg' \in {"idle"} \cup Ended
    BY DEF SetFileLineBreakPoint, bclear, clear, restart, disassWithoutProcess, quit, Prompt,
           Ended
  <2>. QED
    BY <1>2, <2>1, <2>2, <2>3 DEF Command, NoCommand, Ended, StepProgress, StepExecutes
<1>3. CASE stepArrived
  <2>1. hist.ran > 0
    BY <1>0, <1>3 DEF stepArrived, StepProgress, History
  <2>2. dbg' = "idle" /\ hist'.ran = hist.ran
    BY <1>0, <1>3 DEF stepArrived, return, History
  <2>. QED BY <2>1, <2>2 DEF StepProgress, StepExecutes
<1>4. CASE stepOn
  <2>1. oldline' = oldline /\ hist' = hist /\ dbg' = "s_wait" /\ dbg \in InStep
    BY <1>4 DEF stepOn, singleStep
  <2>2. pc' = pc \/ (Trapped /\ pc' = pc - 1)
    BY <1>4 DEF stepOn, stepBack
  <2>. QED
    BY <1>0, <2>1, <2>2, SameLine DEF StepProgress, StepExecutes, Prompt
<1>5. CASE stepWaited
  BY <1>5 DEF stepWaited, StepProgress, StepExecutes, Prompt
<1>6. CASE foundDead \/ stepEnded \/ nextUndecoded
  <2>1. dbg' = "idle" /\ hist'.outcome # "listed"
    BY <1>0, <1>6 DEF foundDead, stepEnded, nextUndecoded, return, History
  <2>. QED BY <2>1 DEF StepProgress, StepExecutes
<1>7. CASE continueStepped \/ continued \/ nextTrapped \/ nextInCall \/ nextCallDone
             \/ nextAtCall \/ nextOn \/ nextWaited
  <2>1. hist.cmd # "s"
    BY <1>7
    DEF continueStepped, continued, nextTrapped, nextInCall, nextCallDone, nextAtCall,
        nextOn, nextWaited, NextTurn, InNext, PInv, CommandOfDbg
  <2>2. hist'.cmd = hist.cmd /\ dbg' \notin InStep
    BY <1>0, <1>7
    DEF continueStepped, continued, nextTrapped, nextInCall, nextCallDone, nextAtCall,
        nextOn, nextWaited, NextTurn, return, singleStep, History
  <2>. QED BY <2>1, <2>2 DEF StepProgress, StepExecutes
<1>8. CASE execute
  <2>1. hist'.ran > 0
    BY <1>0, <1>8 DEF execute, History
  <2>. QED BY <2>1 DEF StepProgress, StepExecutes
<1>9. CASE (ExecuteInt3 \/ DeliverStop \/ DeliverSignal \/ Die)
             /\ UNCHANGED <<hist, dbg, oldline, infos>>
  <2>1. pc' = pc \/ (Trapped' /\ pc' = pc + 1 /\ pc \in BreakAddrs)
    <3>1. CASE ExecuteInt3
      <4>1. pc \in Inst /\ text[pc] = "int3" /\ pc' = pc + 1 /\ Alive
        BY <3>1 DEF ExecuteInt3, Alive, Resumed, Deaths
      <4>2. pc \in Listed
        BY <1>0, <4>1 DEF IInv, Consistent, PatchedIffListed
      <4>3. pc' - 1 = pc /\ pc \in BreakAddrs
        BY <1>0, <4>1, <4>2 DEF IInv, Consistent, ListedBreakable
      <4>. QED
        BY <1>9, <4>1, <4>2, <4>3 DEF Trapped, findBreakPoint, Listed, PcsOf
    <3>. QED BY <1>9, <3>1 DEF DeliverStop, DeliverSignal, Die
  <2>2. pcTofileLine(pc') = pcTofileLine(pc)
    BY <2>1, LineBehind
  <2>. QED BY <1>9, <2>2 DEF StepProgress, StepExecutes, Prompt
<1>10. CASE UNCHANGED vars
  BY <1>10 DEF vars, StepProgress, StepExecutes, Prompt
<1>11. CASE release
  <2>1. dbg' \notin InStep /\ dbg' # "idle"
    BY <1>0, <1>11, LooseStep DEF Ended
  <2>. QED BY <2>1 DEF StepProgress, StepExecutes, Prompt
<1>. QED
  BY <1>1, <1>2, <1>3, <1>4, <1>5, <1>6, <1>7, <1>8, <1>9, <1>10, <1>11
  DEF Next, Proceed, Thread, threadEvent, environment

\* s shows a line only after it has executed something, where each address has one line.
THEOREM StepTakesAStep ==
  ASSUME BreakableIsLong, OneLine
  PROVE  Spec => []StepExecutes
<1>1. Init => StepProgress
  BY DEF Init, StepProgress, StepExecutes, InStep, NoCommand
<1>2. PInv /\ StepProgress /\ [Next]_vars => StepProgress'
  BY StepProgressStep
<1>3. StepProgress => StepExecutes
  BY DEF StepProgress
<1>. QED BY ProgressInvariant, <1>1, <1>2, <1>3, PTL DEF Spec

-----------------------------------------------------------------------------
(***************************************************************************)
(* n waits for an address, not for a stack frame, so it stays out of the   *)
(* calls it steps over only where an activation's return address does not  *)
(* come up again deeper in the stack: where the program does not recurse.  *)
(***************************************************************************)

\* The levels fall along the stack, from control outwards.
Falling(level, a, s) ==
  /\ \A k \in DOMAIN s : level[s[k]] < level[a]
  /\ \A j, k \in DOMAIN s : j < k => level[s[k]] < level[s[j]]

\* Control is at the call that n has recognised.
AtCall ==
  /\ pc \in Inst /\ text[pc] = "code" /\ Op[pc] = "call"
  /\ calling = ReturnAddress(pc)
  /\ Len(stack) <= hist.depth

\* The address n waits for is on the stack, where n began or further out.
InCallee == \E k \in DOMAIN stack : stack[k] = calling /\ Len(stack) - k <= hist.depth

\* Control is back at the address n waits for.
Returned == pc = calling /\ Len(stack) <= hist.depth

\* The line of the instruction behind is looked up outside calls, after a single-step.
FallIsBrief == fall # 0 => dbg = "n_wait" /\ calling = 0

\* Where n is, as seen from the stack, in the middle of the command.
NextDepth ==
  /\ dbg \in InNext /\ calling = 0 => Len(stack) <= hist.depth
  /\ dbg \in InNext /\ calling # 0 => AtCall \/ InCallee \/ Returned
  /\ dbg = "n_wait" => stat # "running"
  /\ dbg = "n_wait" /\ stat = "stepping" /\ calling = 0 /\ pc \in Inst /\ text[pc] = "code"
       => Op[pc] # "call"
  /\ dbg = "n_wait" /\ stat = "stepping" /\ calling # 0 => pc # calling
  /\ NextNotDeeper

DepthInv(level) ==
  /\ PInv
  /\ Falling(level, Control, stack)
  /\ FallIsBrief
  /\ NextDepth

\* An instruction keeps the levels falling.
LEMMA OutcomeLevels ==
  ASSUME NEW level \in [Inst -> Nat], IsLevel(level),
         NEW a \in Inst, NEW s \in Seq(Inst), NEW o \in Outcomes(a, s),
         Falling(level, a, s)
  PROVE  Falling(level, o.ip, o.stack)
<1>0. /\ Op[a] \in {"op", "call", "ret", "exit"}
      /\ Dest[a] \subseteq Inst
      /\ Op[a] = "call" => ReturnAddress(a) \in Inst
      /\ \A k \in DOMAIN s : level[s[k]] \in Nat
      /\ \A b \in Inst : level[b] \in Nat
  <2>1. /\ Op[a] \in {"op", "call", "ret", "exit"}
        /\ Dest[a] \subseteq Inst
        /\ Op[a] = "call" => ReturnAddress(a) \in Inst
    BY CodeAssumption DEF ReturnAddress
  <2>2. \A k \in DOMAIN s : s[k] \in Inst
    OBVIOUS
  <2>. QED BY <2>1, <2>2
<1>1. CASE Op[a] = "op"
  <2>1. PICK d \in Dest[a] : o = Outcome(d, s, "alive")
    BY <1>1 DEF Outcomes
  <2>2. o.ip = d /\ o.stack = s
    BY <2>1 DEF Outcome
  <2>3. level[a] <= level[d]
    BY <1>1 DEF IsLevel
  <2>. QED BY <1>0, <2>2, <2>3 DEF Falling
<1>2. CASE Op[a] = "call" /\ Len(s) < MaxDepth
  <2>1. Outcomes(a, s) = {Outcome(d, <<ReturnAddress(a)>> \o s, "alive") : d \in Dest[a]}
    BY <1>2 DEF Outcomes
  <2>2. PICK d \in Dest[a] : o = Outcome(d, <<ReturnAddress(a)>> \o s, "alive")
    BY <2>1
  <2>3. PICK r \in Inst : r = ReturnAddress(a)
    BY <1>0, <1>2
  <2>4. o.ip = d /\ o.stack = <<r>> \o s
    BY <2>2, <2>3 DEF Outcome
  <2>5. level[a] <= level[r] /\ level[r] < level[d] /\ d \in Inst
    BY <1>0, <1>2, <2>3 DEF IsLevel
  <2>6. ASSUME NEW k \in DOMAIN (<<r>> \o s)
        PROVE  \/ k = 1 /\ (<<r>> \o s)[k] = r
               \/ k - 1 \in DOMAIN s /\ (<<r>> \o s)[k] = s[k - 1]
    OBVIOUS
  <2>7. ASSUME NEW k \in DOMAIN (<<r>> \o s)
        PROVE  level[(<<r>> \o s)[k]] < level[d]
    <3>1. CASE k = 1 /\ (<<r>> \o s)[k] = r
      BY <2>5, <3>1
    <3>2. CASE k - 1 \in DOMAIN s /\ (<<r>> \o s)[k] = s[k - 1]
      <4>1. level[s[k - 1]] < level[a] /\ level[s[k - 1]] \in Nat
        BY <1>0, <3>2 DEF Falling
      <4>. QED BY <1>0, <2>5, <3>2, <4>1
    <3>. QED BY <2>6, <3>1, <3>2
  <2>8. ASSUME NEW j \in DOMAIN (<<r>> \o s), NEW k \in DOMAIN (<<r>> \o s), j < k
        PROVE  level[(<<r>> \o s)[k]] < level[(<<r>> \o s)[j]]
    <3>1. k - 1 \in DOMAIN s /\ (<<r>> \o s)[k] = s[k - 1]
      BY <2>6, <2>8
    <3>2. CASE j = 1 /\ (<<r>> \o s)[j] = r
      <4>1. level[s[k - 1]] < level[a] /\ level[s[k - 1]] \in Nat
        BY <1>0, <3>1 DEF Falling
      <4>. QED BY <1>0, <2>5, <3>1, <3>2, <4>1
    <3>3. CASE j - 1 \in DOMAIN s /\ (<<r>> \o s)[j] = s[j - 1]
      <4>1. j - 1 < k - 1
        BY <2>8
      <4>. QED BY <3>1, <3>3, <4>1 DEF Falling
    <3>. QED BY <2>6, <3>2, <3>3
  <2>. QED BY <2>4, <2>7, <2>8 DEF Falling
<1>3. CASE Op[a] = "ret" /\ s # <<>>
  <2>1. o = Outcome(Head(s), Tail(s), "alive")
    BY <1>3 DEF Outcomes
  <2>2. o.ip = s[1] /\ o.stack = Tail(s)
    BY <1>3, <2>1 DEF Outcome
  <2>3. 1 \in DOMAIN s
    BY <1>3
  <2>4. ASSUME NEW k \in DOMAIN Tail(s)
        PROVE  k + 1 \in DOMAIN s /\ 1 < k + 1 /\ Tail(s)[k] = s[k + 1]
    BY <1>3
  <2>5. ASSUME NEW k \in DOMAIN Tail(s)
        PROVE  level[Tail(s)[k]] < level[s[1]]
    BY <2>3, <2>4 DEF Falling
  <2>6. ASSUME NEW j \in DOMAIN Tail(s), NEW k \in DOMAIN Tail(s), j < k
        PROVE  level[Tail(s)[k]] < level[Tail(s)[j]]
    <3>1. j + 1 < k + 1
      BY <1>3, <2>6
    <3>. QED BY <2>4, <3>1 DEF Falling
  <2>. QED BY <2>2, <2>5, <2>6 DEF Falling
<1>4. CASE \/ Op[a] = "call" /\ ~(Len(s) < MaxDepth)
           \/ Op[a] = "ret" /\ s = <<>>
           \/ Op[a] = "exit"
  <2>1. o.ip = a /\ o.stack = s
    BY <1>4 DEF Outcomes, Outcome
  <2>. QED BY <2>1
<1>. QED BY <1>0, <1>1, <1>2, <1>3, <1>4

\* Control is at an instruction, behind an INT3 just hit or not.
LEMMA ControlInInst ==
  ASSUME IInv, BreakableIsLong
  PROVE  /\ Control \in Inst
         /\ pc \in Inst => Control = pc
BY TrappedIsHit DEF Control

LEMMA LevelsStep ==
  ASSUME NEW level \in [Inst -> Nat], IsLevel(level), IInv, BreakableIsLong,
         Falling(level, Control, stack), [Next]_vars
  PROVE  Falling(level, Control', stack')
<1>1. CASE P!Execute
  <2>1. PICK o \in P!Outcomes(Control, stack) : Control' = o.ip /\ stack' = o.stack
    BY <1>1 DEF P!Execute
  <2>2. P!Outcomes(Control, stack) = Outcomes(Control, stack)
    BY DEF P!Outcomes, Outcomes, P!Outcome, Outcome, P!ReturnAddress, ReturnAddress
  <2>3. Control \in Inst /\ stack \in Seq(Inst)
    BY ControlInInst DEF IInv, TypeOK, TraceeTypeOK
  <2>. QED BY <2>1, <2>2, <2>3, OutcomeLevels
<1>2. CASE UNCHANGED <<Control, stack>>
  BY <1>2
<1>. QED BY <1>1, <1>2, StepRefines DEF P!Next, P!End, P!progVars

-----------------------------------------------------------------------------

\* The prompt's commands begin with a stack as deep as they record.
LEMMA CommandDepth ==
  ASSUME PInv, FallIsBrief, NextDepth, Command
  PROVE  FallIsBrief' /\ NextDepth'
<1>1. fall = 0 /\ fall' = 0 /\ calling = 0 /\ calling' = 0
  <2>1. fall = 0 /\ calling = 0
    BY DEF Command, SetFileLineBreakPoint, bclear, clear, restart, disassWithoutProcess,
           quit, refused, continue, step, next, Prompt, PInv, CommandOfDbg, InNext,
           FallIsBrief
  <2>. QED
    BY <2>1
    DEF Command, SetFileLineBreakPoint, bclear, clear, restart, disassWithoutProcess,
        quit, refused, continue, step, next, locals
<1>2. CASE next
  <2>1. hist'.depth = Len(stack) /\ stack' = stack /\ dbg' = "n_loop"
    BY <1>2 DEF next, Began
  <2>2. Len(stack) \in Nat
    BY DEF PInv, IInv, TypeOK, TraceeTypeOK
  <2>. QED
    BY <1>1, <2>1, <2>2 DEF FallIsBrief, NextDepth, NextNotDeeper, Prompt
<1>3. CASE Command /\ ~next
  <2>1. (\E c \in {"c", "s", "n"} : refused(c))
        => hist'.outcome = "error" /\ dbg' = "idle"
    BY DEF refused, Began, Prompt
  <2>2. continue \/ step => hist'.cmd # "n" /\ dbg' \in {"c_step", "c_wait", "s_loop"}
    BY DEF continue, step, Began
  <2>3. (\E l \in UserLines : SetFileLineBreakPoint(l)) \/ bclear \/ restart
           \/ disassWithoutProcess \/ quit
        => hist' = NoCommand /\ dbg' \in {"idle"} \cup Ended
    BY DEF SetFileLineBreakPoint, bclear, clear, restart, disassWithoutProcess, quit, Prompt,
           Ended
  <2>4. dbg' \notin InNext /\ ~(hist'.cmd = "n" /\ hist'.outcome = "listed")
    BY <1>3, <2>1, <2>2, <2>3 DEF Command, NoCommand, Ended, InNext
  <2>. QED
    BY <1>1, <2>4 DEF FallIsBrief, NextDepth, NextNotDeeper, InNext
<1>. QED BY <1>2, <1>3

\* A command that returns has shown no line, or not from deeper than it began, or control
\* has hit a breakpoint.
LEMMA ReturnDepth ==
  ASSUME PInv, NEW o, return(o), UNCHANGED <<pc, stack, infos>>,
         o = "listed" => hist.cmd # "n" \/ Len(stack) <= hist.depth \/ Trapped
  PROVE  FallIsBrief' /\ NextDepth'
<1>1. dbg' = "idle" /\ fall' = 0 /\ calling' = 0 /\ stack' = stack
  BY DEF return
<1>2. hist'.cmd = hist.cmd /\ hist'.depth = hist.depth /\ hist'.outcome = o
  BY DEF return, PInv, IInv, TypeOK, History
<1>3. Trapped' <=> Trapped
  BY DEF Trapped, findBreakPoint
<1>. QED
  BY <1>1, <1>2, <1>3 DEF FallIsBrief, NextDepth, NextNotDeeper, InNext

\* The rest of a command.  At the address n waits for, it has returned: the address is not
\* on the stack there.
LEMMA ProceedDepth ==
  ASSUME PInv, BreakableIsLong, FallIsBrief, NextDepth, Proceed,
         NEW level \in [Inst -> Nat], Falling(level, Control, stack)
  PROVE  FallIsBrief' /\ NextDepth'
<1> USE DEF procs, locals, bpVars, traceeVars
<1>0. /\ dbg \in InStep => hist.cmd = "s"
      /\ dbg \in InNext => hist.cmd = "n"
      /\ dbg \in {"c_step", "c_wait"} => hist.cmd = "c"
      /\ hist \in History
      /\ stack \in Seq(Inst)
      /\ calling # 0 => dbg \in InNext
  BY DEF PInv, CommandOfDbg, IInv, TypeOK, TraceeTypeOK
<1>1. ASSUME continueStepped \/ continued
      PROVE  FallIsBrief' /\ NextDepth'
  <2>1. hist.cmd = "c" /\ fall' = 0 /\ calling' = 0
    BY <1>0, <1>1 DEF continueStepped, continued, FallIsBrief, InNext
  <2>2. hist'.cmd = "c" /\ dbg' \in {"c_wait", "idle"}
    BY <1>0, <1>1, <2>1 DEF continueStepped, continued, History
  <2>. QED BY <2>1, <2>2 DEF FallIsBrief, NextDepth, NextNotDeeper, InNext
<1>2. ASSUME foundDead \/ stepEnded \/ nextUndecoded
      PROVE  FallIsBrief' /\ NextDepth'
  <2>1. PICK o \in {"exited", "error"} : return(o)
    BY <1>2 DEF foundDead, stepEnded, nextUndecoded
  <2>2. UNCHANGED <<pc, stack, infos>>
    BY <1>2 DEF foundDead, stepEnded, nextUndecoded
  <2>. QED BY <2>1, <2>2, ReturnDepth
<1>3. ASSUME stepArrived
      PROVE  FallIsBrief' /\ NextDepth'
  BY <1>0, <1>3, ReturnDepth DEF stepArrived, InStep
<1>4. ASSUME stepOn \/ stepWaited
      PROVE  FallIsBrief' /\ NextDepth'
  <2>1. hist.cmd = "s" /\ hist' = hist /\ dbg' \in InStep /\ fall' = 0 /\ calling' = 0
    BY <1>0, <1>4 DEF stepOn, stepWaited, singleStep, InStep, InNext, FallIsBrief
  <2>. QED BY <2>1 DEF FallIsBrief, NextDepth, NextNotDeeper, InStep, InNext
<1>5. ASSUME nextTrapped
      PROVE  FallIsBrief' /\ NextDepth'
  BY <1>5, ReturnDepth DEF nextTrapped
<1>6. ASSUME nextInCall
      PROVE  FallIsBrief' /\ NextDepth'
  <2>1. /\ UNCHANGED <<text, pc, stack, calling, fall, hist>>
        /\ dbg = "n_loop" /\ dbg' = "n_wait" /\ stat' = "stepping"
        /\ calling # 0 /\ pc # calling
    BY <1>6 DEF nextInCall, NextTurn, singleStep
  <2>2. fall = 0
    BY <2>1 DEF FallIsBrief
  <2>3. AtCall' \/ InCallee' \/ Returned'
    BY <2>1 DEF NextDepth, InNext, AtCall, InCallee, Returned
  <2>. QED BY <2>1, <2>2, <2>3 DEF FallIsBrief, NextDepth, NextNotDeeper, Prompt
<1>7. ASSUME nextCallDone
      PROVE  FallIsBrief' /\ NextDepth'
  <2>1. /\ UNCHANGED <<pc, stack, stat, infos>>
        /\ dbg = "n_loop" /\ ~Trapped
        /\ calling # 0 /\ pc = calling
    BY <1>7 DEF nextCallDone, NextTurn
  <2>2. pc \in Inst /\ Control = pc
    BY <2>1, TrappedIsHit, ControlInInst DEF PInv
  <2>3. ~InCallee
    <3>1. ASSUME NEW k \in DOMAIN stack, stack[k] = calling PROVE FALSE
      <4>1. level[pc] < level[pc]
        BY <2>1, <2>2, <3>1 DEF Falling
      <4>. QED BY <2>2, <4>1
    <3>. QED BY <3>1 DEF InCallee
  <2>4. ~AtCall
    <3>1. ASSUME AtCall PROVE FALSE
      <4>1. pc = pc + InstLen[pc]
        BY <2>1, <3>1 DEF AtCall, ReturnAddress
      <4>. QED BY <2>2, <4>1, InstNat
    <3>. QED BY <3>1
  <2>5. Len(stack) <= hist.depth
    BY <2>1, <2>3, <2>4 DEF NextDepth, InNext, Returned
  <2>6. CASE return("listed")
    BY <2>1, <2>5, <2>6, ReturnDepth
  <2>7. CASE calling' = 0 /\ UNCHANGED <<dbg, fall, hist>>
    BY <2>1, <2>5, <2>7 DEF FallIsBrief, NextDepth, NextNotDeeper, InNext, Prompt
  <2>. QED BY <1>7, <2>6, <2>7 DEF nextCallDone
<1>8. ASSUME nextAtCall
      PROVE  FallIsBrief' /\ NextDepth'
  <2>1. /\ UNCHANGED <<text, pc, stack, stat, fall, hist>>
        /\ dbg = "n_loop" /\ dbg' = "n_loop" /\ calling = 0
        /\ pc \in Inst /\ text[pc] = "code" /\ Op[pc] = "call"
        /\ calling' = ReturnAddress(pc)
    BY <1>8 DEF nextAtCall, NextTurn, SeesCall, MemInstLen, ReturnAddress
  <2>2. fall = 0 /\ Len(stack) <= hist.depth
    BY <2>1 DEF FallIsBrief, NextDepth, InNext
  <2>3. AtCall' /\ calling' # 0
    <3>1. calling' # 0
      BY <2>1, InstNat DEF ReturnAddress
    <3>. QED BY <2>1, <2>2, <3>1 DEF AtCall
  <2>. QED BY <2>1, <2>2, <2>3 DEF FallIsBrief, NextDepth, NextNotDeeper, Prompt
<1>9. ASSUME nextOn
      PROVE  FallIsBrief' /\ NextDepth'
  <2>1. /\ UNCHANGED <<text, pc, stack, calling, hist>>
        /\ dbg = "n_loop" /\ dbg' = "n_wait" /\ stat' = "stepping" /\ calling = 0
        /\ ~SeesCall
    BY <1>9 DEF nextOn, NextTurn, singleStep
  <2>2. Len(stack) <= hist.depth
    BY <2>1 DEF NextDepth, InNext
  <2>. QED BY <2>1, <2>2 DEF FallIsBrief, NextDepth, NextNotDeeper, Prompt, SeesCall
<1>10. ASSUME nextWaited
       PROVE  FallIsBrief' /\ NextDepth'
  <2>1. UNCHANGED <<pc, stack, infos>> /\ dbg = "n_wait" /\ stat' = "stopped"
    BY <1>10 DEF nextWaited, Reported, Stops
  <2>2. CASE fall # 0 /\ return("listed")
    <3>1. Len(stack) <= hist.depth
      BY <2>1, <2>2 DEF FallIsBrief, NextDepth, InNext
    <3>. QED BY <2>1, <2>2, <3>1, ReturnDepth
  <2>3. CASE dbg' = "n_loop" /\ fall' = 0 /\ UNCHANGED <<text, calling, hist>>
    <3>1. calling # 0 => AtCall' \/ InCallee' \/ Returned'
      BY <2>1, <2>3 DEF NextDepth, InNext, AtCall, InCallee, Returned
    <3>2. calling = 0 => Len(stack') <= hist'.depth
      BY <2>1, <2>3 DEF NextDepth, InNext
    <3>. QED
      BY <2>1, <2>3, <3>1, <3>2 DEF FallIsBrief, NextDepth, NextNotDeeper, Prompt
  <2>. QED BY <1>10, <2>2, <2>3 DEF nextWaited
<1>. QED
  BY <1>1, <1>2, <1>3, <1>4, <1>5, <1>6, <1>7, <1>8, <1>9, <1>10 DEF Proceed

\* What an instruction does to the stack.
LEMMA OutcomeStack ==
  ASSUME NEW a \in Inst, NEW s \in Seq(Inst), NEW o \in Outcomes(a, s)
  PROVE  \/ o.stack = s /\ (Op[a] = "call" => o.ip = a)
         \/ Op[a] = "call" /\ o.stack = <<ReturnAddress(a)>> \o s
         \/ Op[a] = "ret" /\ s # <<>> /\ o.ip = Head(s) /\ o.stack = Tail(s)
<1>0. Op[a] \in {"op", "call", "ret", "exit"}
  BY CodeAssumption
<1>1. CASE Op[a] = "op"
  BY <1>1 DEF Outcomes, Outcome
<1>2. CASE Op[a] = "call" /\ Len(s) < MaxDepth
  <2>1. Outcomes(a, s) = {Outcome(d, <<ReturnAddress(a)>> \o s, "alive") : d \in Dest[a]}
    BY <1>2 DEF Outcomes
  <2>. QED BY <1>2, <2>1 DEF Outcome
<1>3. CASE Op[a] = "ret" /\ s # <<>>
  BY <1>3 DEF Outcomes, Outcome
<1>4. CASE \/ Op[a] = "call" /\ ~(Len(s) < MaxDepth)
           \/ Op[a] = "ret" /\ s = <<>>
           \/ Op[a] = "exit"
  BY <1>4 DEF Outcomes, Outcome
<1>. QED BY <1>0, <1>1, <1>2, <1>3, <1>4

\* An instruction that n single-steps: the call it has seen, one inside that call, or one
\* that is no call.
LEMMA ExecuteDepth ==
  ASSUME PInv, NextDepth, ExecuteInst, dbg = "n_wait",
         UNCHANGED <<calling, dbg>>, hist'.depth = hist.depth
  PROVE  /\ calling = 0 => Len(stack') <= hist'.depth
         /\ calling # 0 => AtCall' \/ InCallee' \/ Returned'
<1>1. /\ stat = "stepping" /\ pc \in Inst /\ text[pc] = "code"
      /\ stack \in Seq(Inst) /\ hist.depth \in Nat
      /\ Len(stack) \in Nat
  BY DEF ExecuteInst, NextDepth, Resumed, PInv, IInv, TypeOK, TraceeTypeOK, History
<1>2. PICK o \in Outcomes(pc, stack) : pc' = o.ip /\ stack' = o.stack
  BY DEF ExecuteInst
<1>3. CASE stack' = stack /\ (Op[pc] = "call" => pc' = pc)
  <2>1. text' = text
    BY DEF ExecuteInst
  <2>2. calling # 0 => AtCall \/ InCallee
    BY <1>1 DEF NextDepth, Returned, InNext
  <2>3. AtCall => AtCall'
    BY <1>3, <2>1 DEF AtCall
  <2>4. InCallee => InCallee'
    BY <1>3 DEF InCallee
  <2>. QED BY <1>3, <2>2, <2>3, <2>4 DEF NextDepth, InNext
<1>4. CASE Op[pc] = "call" /\ stack' = <<ReturnAddress(pc)>> \o stack
  <2>1. calling # 0
    BY <1>1, <1>4 DEF NextDepth
  <2>2. PICK r \in Inst : r = ReturnAddress(pc)
    BY <1>1, <1>4, CodeAssumption DEF ReturnAddress
  <2>3. /\ Len(stack') = Len(stack) + 1
        /\ 1 \in DOMAIN stack' /\ stack'[1] = r
        /\ \A k \in DOMAIN stack : k + 1 \in DOMAIN stack' /\ stack'[k + 1] = stack[k]
    <3>1. stack' = <<r>> \o stack
      BY <1>4, <2>2
    <3>. QED BY <1>1, <3>1
  <2>4. CASE AtCall
    <3>1. stack'[1] = calling /\ Len(stack') - 1 <= hist'.depth
      BY <1>1, <2>2, <2>3, <2>4 DEF AtCall
    <3>. QED BY <2>1, <2>3, <3>1 DEF InCallee
  <2>5. CASE InCallee
    <3>1. PICK k \in DOMAIN stack : stack[k] = calling /\ Len(stack) - k <= hist.depth
      BY <2>5 DEF InCallee
    <3>2. k \in Nat
      BY <1>1
    <3>3. Len(stack') - (k + 1) <= hist'.depth
      BY <1>1, <2>3, <3>1, <3>2
    <3>4. k + 1 \in DOMAIN stack' /\ stack'[k + 1] = calling
      BY <2>3, <3>1
    <3>. QED BY <2>1, <3>3, <3>4 DEF InCallee
  <2>. QED BY <1>1, <2>1, <2>4, <2>5 DEF NextDepth, Returned, InNext
<1>5. CASE Op[pc] = "ret" /\ stack # <<>> /\ pc' = Head(stack) /\ stack' = Tail(stack)
  <2>1. /\ Len(stack') = Len(stack) - 1
        /\ pc' = stack[1]
        /\ \A k \in DOMAIN stack : k # 1 => k - 1 \in DOMAIN stack' /\ stack'[k - 1] = stack[k]
    BY <1>1, <1>5
  <2>2. CASE calling = 0
    <3>1. Len(stack) <= hist.depth
      BY <2>2 DEF NextDepth, InNext
    <3>. QED BY <1>1, <2>1, <2>2, <3>1
  <2>3. CASE calling # 0
    <3>1. InCallee
      BY <1>1, <1>5, <2>3 DEF NextDepth, Returned, AtCall, InNext
    <3>2. PICK k \in DOMAIN stack : stack[k] = calling /\ Len(stack) - k <= hist.depth
      BY <3>1 DEF InCallee
    <3>3. k \in Nat
      BY <1>1
    <3>4. CASE k = 1
      BY <1>1, <2>1, <2>3, <3>2, <3>4 DEF Returned
    <3>5. CASE k # 1
      <4>1. Len(stack') - (k - 1) <= hist'.depth
        BY <1>1, <2>1, <3>2, <3>3
      <4>2. k - 1 \in DOMAIN stack' /\ stack'[k - 1] = calling
        BY <2>1, <3>2, <3>5
      <4>. QED BY <2>3, <4>1, <4>2 DEF InCallee
    <3>. QED BY <3>4, <3>5
  <2>. QED BY <2>2, <2>3
<1>. QED BY <1>1, <1>2, <1>3, <1>4, <1>5, OutcomeStack

\* The traced thread and its environment.
LEMMA ThreadDepth ==
  ASSUME PInv, BreakableIsLong, FallIsBrief, NextDepth, Thread \/ environment
  PROVE  FallIsBrief' /\ NextDepth'
<1> USE DEF bpVars, procs, locals
<1>0. /\ UNCHANGED <<infos, dbg, calling, fall, text>>
      /\ hist'.cmd = hist.cmd /\ hist'.depth = hist.depth
      /\ hist'.outcome = hist.outcome
  BY LooseStep
  DEF Thread, environment, execute, threadEvent, ExecuteInst, ExecuteInt3, DeliverStop,
      DeliverSignal, Die, PInv, IInv, TypeOK, History
<1>1. FallIsBrief'
  BY <1>0 DEF FallIsBrief
<1>2. stat \in Resumed => dbg \notin {"idle", "n_loop"}
  BY DEF PInv, IInv, Consistent, StatOfDbg, Waiting
<1>3. CASE execute
  <2>1. ExecuteInst /\ stat \in Resumed
    BY <1>3 DEF execute, ExecuteInst
  <2>2. CASE dbg = "n_wait"
    <3>1. stat' \notin Resumed
      <4>1. PICK o \in Outcomes(pc, stack) : stat' = AfterInst(o.fate)
        BY <2>1 DEF ExecuteInst
      <4>2. o.fate \in {"alive", "exited", "killed"}
        BY <2>1, OutcomesType DEF ExecuteInst, PInv, IInv, TypeOK, TraceeTypeOK
      <4>. QED BY <2>1, <2>2, <4>1, <4>2 DEF AfterInst, Resumed, NextDepth
    <3>. QED
      BY <1>0, <1>1, <2>1, <2>2, <3>1, ExecuteDepth
      DEF NextDepth, NextNotDeeper, Prompt, Resumed
  <2>3. CASE dbg # "n_wait"
    BY <1>0, <1>1, <1>2, <2>1, <2>3 DEF NextDepth, NextNotDeeper, Prompt, InNext
  <2>. QED BY <2>2, <2>3
<1>4. CASE (ExecuteInt3 \/ DeliverStop \/ DeliverSignal \/ Die) /\ UNCHANGED hist
  <2>1. UNCHANGED stack /\ stat' \notin Resumed
    BY <1>4, SignalsAssumption
    DEF ExecuteInt3, DeliverStop, DeliverSignal, Die, Resumed, Deaths
  <2>2. CASE UNCHANGED pc
    <3>1. Trapped' <=> Trapped
      BY <1>0, <2>2 DEF Trapped, findBreakPoint
    <3>2. /\ AtCall => AtCall'
          /\ InCallee => InCallee'
          /\ Returned => Returned'
      BY <1>0, <2>1, <2>2 DEF AtCall, InCallee, Returned
    <3>. QED
      BY <1>0, <1>1, <2>1, <3>1, <3>2 DEF NextDepth, NextNotDeeper, Prompt, Resumed
  <2>3. CASE ExecuteInt3
    <3>1. stat \in Resumed /\ text[pc] = "int3"
      BY <2>3 DEF ExecuteInt3
    <3>2. dbg \in InNext => dbg = "n_wait" /\ stat = "stepping"
      BY <1>2, <3>1 DEF InNext, NextDepth, Resumed
    <3>3. dbg \in InNext /\ calling # 0 => InCallee'
      <4>1. dbg \in InNext /\ calling # 0 => InCallee
        BY <3>1, <3>2 DEF NextDepth, AtCall, Returned
      <4>. QED BY <1>0, <2>1, <4>1 DEF InCallee
    <3>. QED
      BY <1>0, <1>1, <1>2, <2>1, <3>1, <3>3 DEF NextDepth, NextNotDeeper, Prompt, Resumed
  <2>. QED BY <1>4, <2>2, <2>3 DEF DeliverStop, DeliverSignal, Die
<1>5. CASE release
  <2>1. dbg' \notin InNext \cup {"idle", "n_wait"}
    BY <1>0, <1>5, LooseStep DEF PInv, Ended, InNext
  <2>. QED BY <1>1, <2>1 DEF NextDepth, NextNotDeeper, Prompt
<1>. QED
  BY <1>3, <1>4, <1>5 DEF Thread, environment, threadEvent

LEMMA DepthStep ==
  ASSUME BreakableIsLong, NEW level \in [Inst -> Nat], IsLevel(level),
         DepthInv(level), [Next]_vars
  PROVE  DepthInv(level)'
<1>1. PInv'
  BY ProgressStep DEF DepthInv
<1>2. Falling(level, Control', stack')
  BY LevelsStep DEF DepthInv, PInv
<1>3. CASE UNCHANGED vars
  <2>1. UNCHANGED <<text, pc, stack, stat, infos, dbg, calling, fall, hist>>
    BY <1>3 DEF vars, traceeVars, bpVars, procs, locals
  <2>2. FallIsBrief'
    BY <2>1 DEF DepthInv, FallIsBrief
  <2>3. NextDepth'
    BY <2>1
    DEF DepthInv, NextDepth, NextNotDeeper, Prompt, Trapped, findBreakPoint, AtCall,
        InCallee, Returned
  <2>. QED BY <1>1, <1>2, <2>2, <2>3 DEF DepthInv
<1>4. CASE Next
  <2>1. FallIsBrief' /\ NextDepth'
    BY <1>4, CommandDepth, ProceedDepth, ThreadDepth DEF DepthInv, Next
  <2>. QED BY <1>1, <1>2, <2>1 DEF DepthInv
<1>. QED BY <1>3, <1>4

\* n shows no line in a call deeper than it began, but at a breakpoint, where the program
\* does not recurse.
THEOREM NextStaysLevel ==
  ASSUME BreakableIsLong, NoRecursion
  PROVE  Spec => []NextNotDeeper
<1>1. PICK level \in [Inst -> Nat] : IsLevel(level)
  BY DEF NoRecursion
<1>2. Init => DepthInv(level)
  <2> SUFFICES ASSUME Init PROVE DepthInv(level)
    OBVIOUS
  <2>1. dbg = "idle" /\ fall = 0 /\ stack = <<>> /\ hist.cmd = "none"
    BY DEF Init, TraceeInit, NoCommand
  <2>2. Falling(level, Control, stack)
    BY <2>1 DEF Falling
  <2>3. FallIsBrief /\ NextDepth
    BY <2>1 DEF FallIsBrief, NextDepth, NextNotDeeper, InNext
  <2>. QED BY <2>2, <2>3, InitProgress DEF DepthInv
<1>3. DepthInv(level) /\ [Next]_vars => DepthInv(level)'
  BY <1>1, DepthStep
<1>4. DepthInv(level) => NextNotDeeper
  BY DEF DepthInv, NextDepth
<1>. QED BY <1>2, <1>3, <1>4, PTL DEF Spec
=============================================================================
