--------------------------- MODULE ExecutorProofs ---------------------------
(***************************************************************************)
(* Theorems about Executor for every program, line table and set of user   *)
(* lines: type correctness, the invariant that keeps the code bytes, the   *)
(* breakpoint table and the program counter consistent, and that the       *)
(* traced program runs as the untraced one does.                           *)
(***************************************************************************)
EXTENDS Executor, TLAPS

-----------------------------------------------------------------------------
(***************************************************************************)
(* Lemmas about the operators of the model.                                *)
(***************************************************************************)

\* Executing an instruction leads to an instruction and leaves a well-formed stack.
LEMMA OutcomesType ==
  ASSUME NEW a \in Inst, NEW s \in Seq(Inst), NEW o \in Outcomes(a, s)
  PROVE  /\ o.ip \in Inst
         /\ o.stack \in Seq(Inst)
         /\ o.fate \in {"alive", "exited", "killed"}
<1>0. /\ Op[a] \in {"op", "call", "ret", "exit"}
      /\ Dest[a] \subseteq Inst
      /\ Op[a] = "call" => ReturnAddress(a) \in Inst
  BY CodeAssumption DEF ReturnAddress
<1>1. CASE Op[a] = "op"
  BY <1>0, <1>1 DEF Outcomes, Outcome
<1>2. CASE Op[a] = "call"
  <2>1. CASE Len(s) < MaxDepth
    <3>1. Outcomes(a, s) =
            {Outcome(d, <<ReturnAddress(a)>> \o s, "alive") : d \in Dest[a]}
      BY <1>2, <2>1 DEF Outcomes
    <3>2. PICK d \in Dest[a] : o = Outcome(d, <<ReturnAddress(a)>> \o s, "alive")
      BY <3>1
    <3>3. <<ReturnAddress(a)>> \o s \in Seq(Inst)
      BY <1>0, <1>2
    <3>4. /\ o.ip = d
          /\ o.stack = <<ReturnAddress(a)>> \o s
          /\ o.fate = "alive"
      BY <3>2 DEF Outcome
    <3>. QED BY <1>0, <3>3, <3>4
  <2>2. CASE ~(Len(s) < MaxDepth)
    BY <1>2, <2>2 DEF Outcomes, Outcome
  <2>. QED BY <2>1, <2>2
<1>3. CASE Op[a] = "ret"
  <2>1. CASE s # <<>>
    <3>1. Head(s) \in Inst /\ Tail(s) \in Seq(Inst)
      BY <2>1
    <3>2. o = Outcome(Head(s), Tail(s), "alive")
      BY <1>3, <2>1 DEF Outcomes
    <3>3. o.ip = Head(s) /\ o.stack = Tail(s) /\ o.fate = "alive"
      BY <3>2 DEF Outcome
    <3>. QED BY <3>1, <3>3
  <2>2. CASE s = <<>>
    <3>1. o = Outcome(a, s, "killed")
      BY <1>3, <2>2 DEF Outcomes
    <3>. QED BY <3>1 DEF Outcome
  <2>. QED BY <2>1, <2>2
<1>4. CASE Op[a] = "exit"
  BY <1>4 DEF Outcomes, Outcome
<1>. QED BY <1>0, <1>1, <1>2, <1>3, <1>4

\* A lookup of a line returns a number.
LEMMA LinesAreNat ==
  ASSUME NEW a \in Nat
  PROVE  pcTofileLine(a) \subseteq Nat
<1> DEFINE Row == [addr : Nat \ {0}, line : Nat \ {0}, prologueEnd : BOOLEAN]
<1>1. Rows \in Seq(Row)
  BY RowsAssumption
<1>2. ASSUME NEW i \in DOMAIN Rows
      PROVE  Rows[i] \in Row
  <2> HIDE DEF Row
  <2>. QED BY <1>1
<1>3. \A i \in DOMAIN Rows : Rows[i].line \in Nat
  BY <1>2
<1>. QED BY <1>3 DEF pcTofileLine, NotFound

\* What b looks up for a line the user may name is a breakpoint address.
LEMMA UserLineBreakAddr ==
  ASSUME NEW l \in UserLines, fileLineToPcForBreakPoint(l) # NotFound
  PROVE  /\ fileLineToPcForBreakPoint(l) \in BreakAddrs
         /\ fileLineToPcForBreakPoint(l) \in Inst
BY ExecutorAssumption DEF BreakAddrs

\* The saved byte of a listed address is that of one of its entries.
LEMMA OriginalOfEntry ==
  ASSUME NEW S, NEW a \in PcsOf(S)
  PROVE  \E i \in S : i.pc = a /\ Original(S)[a] = i.original
<1>1. \E i \in S : i.pc = a
  BY DEF PcsOf
<1>2. (CHOOSE i \in S : i.pc = a) \in S /\ (CHOOSE i \in S : i.pc = a).pc = a
  BY <1>1
<1>. QED BY <1>2 DEF Original

LEMMA PokeType ==
  ASSUME TypeOK, NEW A, NEW byte, \A a \in A \cap Inst : byte[a] \in Byte
  PROVE  Poke(A, byte) \in [Inst -> Byte]
BY DEF TypeOK, TraceeTypeOK, Poke

LEMMA EnableType ==
  ASSUME TypeOK, NEW A
  PROVE  enableBreakPoint(A) \in [Inst -> Byte]
BY PokeType DEF enableBreakPoint, Int3, Byte

LEMMA DisableType ==
  ASSUME TypeOK, NEW S \in SUBSET infos
  PROVE  disableBreakPoint(S) \in [Inst -> Byte]
<1>1. \A a \in PcsOf(S) : Original(S)[a] \in Byte
  BY OriginalOfEntry DEF TypeOK, BreakPointTypeOK, BInfo
<1>. QED BY <1>1, PokeType DEF disableBreakPoint

\* Where a breakpoint was hit, the byte before pc is an instruction's address.
LEMMA TrappedAt ==
  ASSUME TypeOK
  PROVE  /\ Trapped <=> pc - 1 \in Listed
         /\ Listed \subseteq Inst
         /\ PcsOf(findBreakPoint(pc - 1)) = IF Trapped THEN {pc - 1} ELSE {}
BY DEF TypeOK, BreakPointTypeOK, BInfo, Trapped, findBreakPoint, Listed, PcsOf

-----------------------------------------------------------------------------
(***************************************************************************)
(* Type correctness.                                                       *)
(***************************************************************************)

LEMMA BeganType ==
  ASSUME TypeOK, NEW c \in {"c", "s", "n"}
  PROVE  /\ Began(c) \in History
         /\ [Began(c) EXCEPT !.outcome = "error"] \in History
<1>1. Len(stack) \in Nat
  BY DEF TypeOK, TraceeTypeOK
<1>2. Trapped \in BOOLEAN
  BY DEF Trapped
<1>. QED BY <1>1, <1>2 DEF Began, History

LEMMA OutcomeType ==
  ASSUME TypeOK, NEW o \in {"listed", "error", "exited", "lost"}
  PROVE  [hist EXCEPT !.outcome = o] \in History
BY DEF TypeOK, History

LEMMA RunDeferredType ==
  ASSUME TypeOK, runDeferred
  PROVE  text' \in [Inst -> Byte] /\ deferred' \subseteq Inst
BY EnableType DEF runDeferred, TypeOK, TraceeTypeOK

LEMMA StepBackType ==
  ASSUME TypeOK, Trapped, stepBack
  PROVE  text' \in [Inst -> Byte] /\ pc' \in Inst /\ deferred' \subseteq Inst
<1>1. findBreakPoint(pc - 1) \in SUBSET infos
  BY DEF findBreakPoint
<1>2. text' \in [Inst -> Byte]
  BY <1>1, DisableType DEF stepBack
<1>3. pc - 1 \in Inst
  BY TrappedAt
<1>. QED BY <1>2, <1>3 DEF stepBack, TypeOK, BreakPointTypeOK

LEMMA ReportedType ==
  Reported \in {"stopped", "gone"}
BY DEF Reported

LEMMA InstNat ==
  /\ Inst \subseteq Nat
  /\ \A a \in Inst : InstLen[a] \in Nat \ {0}
BY CodeAssumption

LEMMA InitType == Init => TypeOK
<1> SUFFICES ASSUME Init PROVE TypeOK
  OBVIOUS
<1>1. TraceeTypeOK
  <2>1. /\ text = [a \in Inst |-> "code"] /\ pc = Entry /\ stack = <<>>
        /\ stat = "stopped" /\ sigstop = FALSE
    BY DEF Init, TraceeInit
  <2>2. text \in [Inst -> Byte]
    BY <2>1 DEF Byte
  <2>3. pc \in Nat /\ stack \in Seq(Inst)
    BY <2>1, CodeAssumption
  <2>. QED BY <2>1, <2>2, <2>3 DEF TraceeTypeOK
<1>2. BreakPointTypeOK
  BY DEF Init, BreakPointInit, BreakPointTypeOK
<1>3. hist \in History
  BY DEF Init, NoCommand, History
<1>. QED BY <1>1, <1>2, <1>3, ExecutorAssumption DEF Init, TypeOK

\* The commands that end at once.
LEMMA TypeCommand ==
  ASSUME TypeOK, Command
  PROVE  TypeOK'
<1> USE DEF TypeOK, TraceeTypeOK, BreakPointTypeOK, procs, locals
<1>0. NoCommand \in History
  BY DEF NoCommand, History
<1>1. ASSUME NEW l \in UserLines, SetFileLineBreakPoint(l)
      PROVE  TypeOK'
  <2>1. text' \in [Inst -> Byte] /\ infos' \subseteq BInfo
    <3>1. CASE UNCHANGED <<text, infos>>
      BY <3>1
    <3>2. CASE /\ fileLineToPcForBreakPoint(l) # NotFound
               /\ setPcBreakPoint(fileLineToPcForBreakPoint(l))
      <4> DEFINE a == fileLineToPcForBreakPoint(l)
      <4>1. a \in Inst
        BY <3>2, UserLineBreakAddr
      <4>2. text' = enableBreakPoint({a})
        BY <3>2 DEF setPcBreakPoint
      <4>3. [pc |-> a, original |-> text[a]] \in BInfo
        BY <4>1 DEF BInfo
      <4>4. infos' \subseteq BInfo
        BY <3>2, <4>3 DEF setPcBreakPoint
      <4>. QED BY <4>2, <4>4, EnableType
    <3>. QED BY <1>1, <3>1, <3>2 DEF SetFileLineBreakPoint
  <2>. QED BY <1>0, <1>1, <2>1 DEF SetFileLineBreakPoint
<1>2. ASSUME NEW S \in SUBSET infos, clear(S)
      PROVE  TypeOK'
  <2>1. text' \in [Inst -> Byte]
    BY <1>2, DisableType DEF clear
  <2>2. PcsOf(S) \subseteq Inst
    BY DEF PcsOf, BInfo
  <2>3. pc' \in Nat
    BY <1>2, <2>2, InstNat DEF clear
  <2>. QED BY <1>0, <1>2, <2>1, <2>3 DEF clear
<1>3. ASSUME restart
      PROVE  TypeOK'
  <2>1. text' \in [Inst -> Byte]
    BY <1>3, EnableType DEF restart, SetBpWhenRestart
  <2>2. newest' \in 1..MaxProcs /\ dbg' \in {dbg, "crashed"} /\ stat' \in {stat, "loose"}
    BY <1>3, ExecutorAssumption DEF restart, Released
  <2>3. sigstop' \in BOOLEAN
    BY <1>3 DEF restart, Alive
  <2>. QED BY <1>0, <1>3, <2>1, <2>2, <2>3 DEF restart, bpVars, Ended
<1>4. ASSUME disassWithoutProcess \/ quit
      PROVE  TypeOK'
  <2>1. stat' \in {stat, "killed", "loose"}
    BY <1>4 DEF disassWithoutProcess, quit, Released
  <2>. QED BY <1>0, <1>4, <2>1 DEF disassWithoutProcess, quit, bpVars, Deaths, Ended
<1>5. ASSUME NEW c \in {"c", "s", "n"}, refused(c)
      PROVE  TypeOK'
  BY <1>5, BeganType DEF refused, traceeVars, bpVars
<1>6. ASSUME continue
      PROVE  TypeOK'
  <2>1. text' \in [Inst -> Byte] /\ pc' \in Nat /\ deferred' \subseteq Inst
    BY <1>6, StepBackType, InstNat DEF continue
  <2>2. stat' \in Resumed /\ dbg' \in Waiting
    BY <1>6 DEF continue, Resumed, Waiting
  <2>3. hist' \in History
    BY <1>6, BeganType DEF continue
  <2>. QED BY <1>6, <2>1, <2>2, <2>3 DEF continue
<1>7. ASSUME step
      PROVE  TypeOK'
  <2>1. hist' \in History
    BY <1>7, BeganType DEF step
  <2>2. oldline' \in Nat
    BY <1>7, LinesAreNat DEF step
  <2>. QED BY <1>7, <2>1, <2>2 DEF step, traceeVars, bpVars, Looping
<1>8. ASSUME next
      PROVE  TypeOK'
  <2>1. text' \in [Inst -> Byte] /\ pc' \in Nat /\ deferred' \subseteq Inst
    BY <1>8, StepBackType, InstNat DEF next
  <2>2. hist' \in History
    BY <1>8, BeganType DEF next
  <2>3. oldline' \in Nat
    BY <1>8, <2>1, LinesAreNat DEF next
  <2>. QED BY <1>8, <2>1, <2>2, <2>3 DEF next, Looping
<1>. QED
  BY <1>1, <1>2, <1>3, <1>4, <1>5, <1>6, <1>7, <1>8 DEF Command, bclear

\* A command that returns to the prompt.
LEMMA ReturnType ==
  ASSUME TypeOK, NEW o \in {"listed", "error", "exited", "lost"}, return(o)
  PROVE  /\ text' \in [Inst -> Byte]
         /\ deferred' \subseteq Inst
         /\ dbg' = "idle"
         /\ oldline' \in Nat /\ calling' \in Nat /\ fall' \in Nat
         /\ hist' \in History
BY RunDeferredType, OutcomeType DEF return

\* What the executor does once a command has started.
LEMMA TypeProceed ==
  ASSUME TypeOK, Proceed
  PROVE  TypeOK'
<1> USE DEF TypeOK, TraceeTypeOK, BreakPointTypeOK, procs, locals
<1>1. ASSUME continueStepped
      PROVE  TypeOK'
  <2>1. text' \in [Inst -> Byte] /\ deferred' \subseteq Inst
    BY <1>1, RunDeferredType DEF continueStepped
  <2>2. stat' \in {"running", "stopped", "gone"} /\ dbg' \in {"c_wait", "idle"}
    BY <1>1, ReportedType DEF continueStepped
  <2>3. hist' \in History
    BY <1>1, OutcomeType DEF continueStepped
  <2>. QED BY <1>1, <2>1, <2>2, <2>3 DEF continueStepped, Resumed, Waiting
<1>2. ASSUME continued
      PROVE  TypeOK'
  <2>1. hist' \in History
    BY <1>2, OutcomeType DEF continued
  <2>2. pid' \in 0..MaxProcs
    BY <1>2, ExecutorAssumption DEF continued
  <2>. QED BY <1>2, <2>1, <2>2, ReportedType DEF continued, bpVars
<1>3. ASSUME foundDead
      PROVE  TypeOK'
  BY <1>3, ReturnType DEF foundDead
<1>4. ASSUME stepEnded
      PROVE  TypeOK'
  <2>1. PICK o \in {"exited", "error"} : return(o)
    BY <1>4 DEF stepEnded
  <2>2. pid' \in 0..MaxProcs
    BY <1>4, ExecutorAssumption DEF stepEnded
  <2>. QED BY <1>4, <2>1, <2>2, ReturnType, ReportedType DEF stepEnded
<1>5. ASSUME stepArrived \/ nextTrapped
      PROVE  TypeOK'
  BY <1>5, ReturnType DEF stepArrived, nextTrapped
<1>6. ASSUME stepOn
      PROVE  TypeOK'
  <2>1. text' \in [Inst -> Byte] /\ pc' \in Nat /\ deferred' \subseteq Inst
    BY <1>6, StepBackType, InstNat DEF stepOn
  <2>. QED BY <1>6, <2>1 DEF stepOn, singleStep, Resumed, Waiting
<1>7. ASSUME stepWaited
      PROVE  TypeOK'
  BY <1>7, ReportedType DEF stepWaited, bpVars, Looping
<1>8. ASSUME nextInCall
      PROVE  TypeOK'
  BY <1>8 DEF nextInCall, singleStep, bpVars, Resumed, Waiting
<1>9. ASSUME nextCallDone
      PROVE  TypeOK'
  <2>1. CASE return("listed")
    BY <1>9, <2>1, ReturnType DEF nextCallDone
  <2>2. CASE calling' = 0 /\ UNCHANGED <<text, deferred, dbg, oldline, fall, hist>>
    BY <1>9, <2>2 DEF nextCallDone
  <2>. QED BY <1>9, <2>1, <2>2 DEF nextCallDone
<1>10. ASSUME nextAtCall
       PROVE  TypeOK'
  <2>1. calling' \in Nat
    BY <1>10, InstNat DEF nextAtCall, SeesCall, MemInstLen
  <2>. QED BY <1>10, <2>1 DEF nextAtCall, traceeVars, bpVars
<1>11. ASSUME nextOn
       PROVE  TypeOK'
  <2>1. fall' \in Nat
    BY <1>11, InstNat DEF nextOn, MemInstLen
  <2>. QED BY <1>11, <2>1 DEF nextOn, singleStep, bpVars, Resumed, Waiting
<1>13. ASSUME nextUndecoded
       PROVE  TypeOK'
  BY <1>13, ReturnType DEF nextUndecoded
<1>12. ASSUME nextWaited
       PROVE  TypeOK'
  <2>1. CASE return("listed")
    BY <1>12, <2>1, ReturnType, ReportedType DEF nextWaited
  <2>2. CASE /\ dbg' = "n_loop" /\ fall' = 0
             /\ UNCHANGED <<text, deferred, oldline, calling, hist>>
    BY <1>12, <2>2, ReportedType DEF nextWaited, Looping
  <2>. QED BY <1>12, <2>1, <2>2 DEF nextWaited
<1>. QED
  BY <1>1, <1>2, <1>3, <1>4, <1>5, <1>6, <1>7, <1>8, <1>9, <1>10, <1>11, <1>12, <1>13
  DEF Proceed

\* The thread executes the instruction at pc.
LEMMA ExecuteInstType ==
  ASSUME TypeOK, ExecuteInst
  PROVE  /\ pc' \in Inst
         /\ stack' \in Seq(Inst)
         /\ stat' \in {"trap", "running"} \cup Deaths
<1>1. PICK o \in Outcomes(pc, stack) :
        /\ pc' = o.ip
        /\ stack' = o.stack
        /\ stat' = AfterInst(o.fate)
  BY DEF ExecuteInst
<1>2. /\ o.ip \in Inst
      /\ o.stack \in Seq(Inst)
      /\ o.fate \in {"alive", "exited", "killed"}
  BY OutcomesType DEF ExecuteInst, TypeOK, TraceeTypeOK
<1>. QED BY <1>1, <1>2 DEF AfterInst, Deaths

\* So it does without a debugger.
LEMMA LooseInstType ==
  ASSUME TypeOK, LooseInst
  PROVE  /\ pc' \in Inst
         /\ stack' \in Seq(Inst)
         /\ stat' \in {"loose"} \cup Deaths
<1>1. PICK o \in Outcomes(pc, stack) :
        /\ pc' = o.ip
        /\ stack' = o.stack
        /\ stat' = IF o.fate = "alive" THEN "loose" ELSE o.fate
  BY DEF LooseInst
<1>2. /\ o.ip \in Inst
      /\ o.stack \in Seq(Inst)
      /\ o.fate \in {"alive", "exited", "killed"}
  BY OutcomesType DEF LooseInst, TypeOK, TraceeTypeOK
<1>. QED BY <1>1, <1>2 DEF Deaths

LEMMA RunLooseType ==
  ASSUME TypeOK, RunLoose
  PROVE  TraceeTypeOK'
<1> USE DEF TypeOK, TraceeTypeOK
<1>1. CASE LooseInst
  BY <1>1, LooseInstType, InstNat DEF LooseInst
<1>2. CASE LooseInt3
  BY <1>2 DEF LooseInt3
<1>3. CASE LooseStray
  BY <1>3, InstNat DEF LooseStray
<1>. QED BY <1>1, <1>2, <1>3 DEF RunLoose

\* The traced thread and its environment.
LEMMA TypeThread ==
  ASSUME TypeOK, Thread \/ environment
  PROVE  TypeOK'
<1> USE DEF TypeOK, TraceeTypeOK, BreakPointTypeOK, procs, locals, bpVars
<1>1. ASSUME execute
      PROVE  TypeOK'
  <2>1. hist' \in History
    BY <1>1 DEF execute, History
  <2>2. UNCHANGED <<text, sigstop>>
    BY <1>1 DEF execute, ExecuteInst
  <2>. QED
    BY <1>1, <2>1, <2>2, ExecuteInstType, InstNat DEF execute, Stops, Resumed
<1>2. ASSUME threadEvent
      PROVE  TypeOK'
  <2>1. CASE ExecuteInt3
    BY <1>2, <2>1 DEF threadEvent, ExecuteInt3, Stops
  <2>2. CASE DeliverStop
    BY <1>2, <2>2 DEF threadEvent, DeliverStop, Stops
  <2>. QED BY <1>2, <2>1, <2>2 DEF threadEvent
<1>3. ASSUME environment
      PROVE  TypeOK'
  BY <1>3, SignalsAssumption DEF environment, DeliverSignal, Die, Stops, Deaths
<1>4. ASSUME release
      PROVE  TypeOK'
  BY <1>4, RunLooseType DEF release
<1>. QED BY <1>1, <1>2, <1>3, <1>4 DEF Thread

\* Every variable keeps its type, whatever the program, the line table and the commands.
THEOREM TypeCorrect == Spec => []TypeOK
<1>1. TypeOK /\ [Next]_vars => TypeOK'
  <2>1. TypeOK /\ UNCHANGED vars => TypeOK'
    BY DEF vars, traceeVars, bpVars, procs, locals, TypeOK, TraceeTypeOK,
           BreakPointTypeOK
  <2>. QED BY <2>1, TypeCommand, TypeProceed, TypeThread DEF Next
<1>. QED BY InitType, <1>1, PTL DEF Spec

-----------------------------------------------------------------------------
(***************************************************************************)
(* The inductive invariant.  PatchedIffListed and ControlExplained are not *)
(* inductive: that a removed breakpoint restores the program's byte needs  *)
(* OriginalsAreCode, that a resumed thread is between instructions needs   *)
(* to know which addresses can be listed, which calls are outstanding in   *)
(* which command, and what the thread may be doing while the executor is   *)
(* where it is; and that it is let go between instructions, that a process *)
(* the executor has lost stopped at a signal, and not at an INT3.          *)
(***************************************************************************)

\* An entry saved the program's byte, never an INT3 of another entry.
OriginalsAreCode == \A i \in infos : i.original = "code"

\* Only addresses that b looks up are listed.
ListedBreakable == Listed \subseteq BreakAddrs

\* Calls of enableBreakPoint are outstanding only while a command that deferred them runs,
\* and the breakpoints they enable are still listed then.
DeferredIsBrief ==
  /\ deferred \subseteq Listed
  /\ deferred # {} => dbg \in {"c_step"} \cup InStep \cup InNext

\* The thread runs, or has an unreported stop, only while the executor waits for it.  A
\* signal stops it between instructions.  c single-steps the one instruction under the
\* breakpoint it leaves.
StatOfDbg ==
  /\ stat \in Resumed \cup Stops => dbg \in Waiting
  /\ stat \in {"urg", "other"} => pc \in Inst
  /\ dbg = "c_wait" => stat # "stepping"
  /\ dbg = "c_step" => stat # "running" /\ pc \in Inst
  /\ dbg = "c_step" /\ stat = "stepping" => pc \in deferred
  /\ dbg = "c_wait" /\ stat = "trap" => pc \notin Inst

Consistent ==
  /\ OriginalsAreCode
  /\ ListedBreakable
  /\ DeferredIsBrief
  /\ StatOfDbg
  /\ PatchedIffListed
  /\ ControlExplained

\* Only a process that c, s or n has lost is left behind.
LeftBehind ==
  /\ pid = 0 /\ Alive => pc \in Inst
  /\ dbg \in Waiting => pid # 0
  /\ stat = "loose" => dbg \in Ended

IInv == TypeOK /\ Consistent /\ LeftBehind

\* No instruction starts one byte behind an address that can be listed.
LEMMA NothingBehindBreakAddr ==
  ASSUME BreakableIsLong, NEW a \in BreakAddrs
  PROVE  a + 1 \notin Inst
<1>1. a \in Inst /\ a \in Nat /\ InstLen[a] \in Nat /\ InstLen[a] >= 2
  BY ExecutorAssumption, InstNat DEF BreakableIsLong
<1>2. ASSUME a + 1 \in Inst PROVE FALSE
  <2>1. a + InstLen[a] <= a + 1
    BY <1>1, <1>2, CodeAssumption
  <2>. QED BY <1>1, <2>1
<1>. QED BY <1>2

\* A thread one byte behind a listed address has hit that breakpoint, which is armed;
\* any other is at an instruction.
LEMMA TrappedIsHit ==
  ASSUME IInv, BreakableIsLong
  PROVE  /\ Trapped => /\ pc \notin Inst
                       /\ pc - 1 \in Inst
                       /\ pc - 1 \in Listed \ deferred
         /\ ~Trapped => pc \in Inst
<1>1. ASSUME Trapped
      PROVE  pc \notin Inst /\ pc - 1 \in Inst /\ pc - 1 \in Listed \ deferred
  <2>1. pc - 1 \in Listed /\ pc - 1 \in Inst
    BY <1>1, TrappedAt DEF IInv
  <2>2. (pc - 1) + 1 \notin Inst
    BY <2>1, NothingBehindBreakAddr DEF IInv, Consistent, ListedBreakable
  <2>3. (pc - 1) + 1 = pc
    BY DEF IInv, Consistent, TypeOK, TraceeTypeOK
  <2>. QED BY <2>1, <2>2, <2>3 DEF IInv, Consistent, ControlExplained
<1>2. ~Trapped => pc \in Inst
  BY TrappedAt DEF IInv, Consistent, ControlExplained
<1>. QED BY <1>1, <1>2

\* Poking an INT3, or the saved bytes, at some addresses.
LEMMA PokedBytes ==
  ASSUME IInv, NEW a \in Inst
  PROVE  /\ \A A : enableBreakPoint(A)[a] = IF a \in A THEN "int3" ELSE text[a]
         /\ \A S \in SUBSET infos :
              disableBreakPoint(S)[a] = IF a \in PcsOf(S) THEN "code" ELSE text[a]
<1>1. \A A : enableBreakPoint(A)[a] = IF a \in A THEN "int3" ELSE text[a]
  BY DEF enableBreakPoint, Poke, Int3
<1>2. ASSUME NEW S \in SUBSET infos
      PROVE  disableBreakPoint(S)[a] = IF a \in PcsOf(S) THEN "code" ELSE text[a]
  <2>1. a \in PcsOf(S) => Original(S)[a] = "code"
    BY OriginalOfEntry DEF IInv, Consistent, OriginalsAreCode
  <2>. QED BY <2>1 DEF disableBreakPoint, Poke
<1>. QED BY <1>1, <1>2

\* The breakpoint that was hit is out of the code, and control is back at its address.
LEMMA StepBackEffect ==
  ASSUME IInv, BreakableIsLong, Trapped, stepBack, UNCHANGED infos
  PROVE  /\ pc' \in Inst /\ pc' \in deferred'
         /\ deferred' \subseteq Listed
         /\ Alive => \A a \in Inst : text'[a] = "int3" <=> a \in Listed \ deferred'
<1>1. pc - 1 \in Inst /\ pc - 1 \in Listed
  BY TrappedIsHit
<1>2. pc' = pc - 1 /\ deferred' = deferred \cup {pc - 1}
  BY DEF stepBack
<1>3. ASSUME NEW a \in Inst
      PROVE  text'[a] = IF a = pc - 1 THEN "code" ELSE text[a]
  <2>1. findBreakPoint(pc - 1) \in SUBSET infos
    BY DEF findBreakPoint
  <2>2. PcsOf(findBreakPoint(pc - 1)) = {pc - 1}
    BY TrappedAt DEF IInv
  <2>. QED BY <2>1, <2>2, PokedBytes DEF stepBack
<1>. QED BY <1>1, <1>2, <1>3 DEF IInv, Consistent, DeferredIsBrief, PatchedIffListed

\* When the deferred calls have run, exactly the listed addresses hold INT3.
LEMMA RunDeferredEffect ==
  ASSUME IInv, runDeferred
  PROVE  /\ deferred' = {}
         /\ Alive => \A a \in Inst : text'[a] = "int3" <=> a \in Listed
<1>1. ASSUME Alive, NEW a \in Inst
      PROVE  text'[a] = IF a \in deferred THEN "int3" ELSE text[a]
  BY <1>1, PokedBytes DEF runDeferred
<1>. QED
  BY <1>1 DEF runDeferred, IInv, Consistent, DeferredIsBrief, PatchedIffListed

\* What depends on the table alone survives a step that leaves the table alone.
LEMMA TableKept ==
  ASSUME IInv, UNCHANGED infos
  PROVE  OriginalsAreCode' /\ ListedBreakable' /\ Listed' = Listed
BY DEF IInv, Consistent, OriginalsAreCode, ListedBreakable, Listed, PcsOf

LEMMA InitInv == Init => IInv
<1> SUFFICES ASSUME Init PROVE IInv
  OBVIOUS
<1>1. infos = {} /\ deferred = {} /\ Listed = {}
  BY DEF Init, BreakPointInit, Listed, PcsOf
<1>2. /\ text = [a \in Inst |-> "code"]
      /\ pc = Entry /\ stat = "stopped" /\ dbg = "idle"
  BY DEF Init, TraceeInit
<1>3. OriginalsAreCode /\ ListedBreakable /\ DeferredIsBrief /\ PatchedIffListed
  BY <1>1, <1>2 DEF OriginalsAreCode, ListedBreakable, DeferredIsBrief, PatchedIffListed
<1>4. StatOfDbg /\ ControlExplained
  BY <1>2, CodeAssumption DEF StatOfDbg, ControlExplained, Resumed, Stops
<1>5. LeftBehind
  BY <1>2 DEF Init, LeftBehind, Waiting
<1>. QED BY <1>3, <1>4, <1>5, InitType DEF IInv, Consistent

\* At the prompt the thread does not run and no call is outstanding.
LEMMA AtPrompt ==
  ASSUME IInv, Prompt
  PROVE  deferred = {} /\ stat \notin Resumed \cup Stops
BY DEF IInv, Consistent, DeferredIsBrief, StatOfDbg, Prompt, Waiting, InStep, InNext

\* b
LEMMA InvSetBreakPoint ==
  ASSUME IInv, BreakableIsLong, NEW l \in UserLines, SetFileLineBreakPoint(l)
  PROVE  Consistent'
<1> DEFINE a == fileLineToPcForBreakPoint(l)
<1>1. UNCHANGED <<pc, stat, deferred, dbg>> /\ deferred = {}
  BY AtPrompt DEF SetFileLineBreakPoint
<1>2. StatOfDbg'
  BY <1>1 DEF IInv, Consistent, StatOfDbg
<1>3. CASE UNCHANGED <<text, infos>>
  BY <1>1, <1>2, <1>3, TableKept
  DEF IInv, Consistent, DeferredIsBrief, PatchedIffListed, ControlExplained, Alive
<1>4. CASE CanPtrace /\ a # NotFound /\ setPcBreakPoint(a)
  <2> HIDE DEF a
  <2>1. a \in BreakAddrs /\ a \in Inst
    BY <1>4, UserLineBreakAddr DEF a
  <2>2. a \notin Listed
    BY <1>4 DEF setPcBreakPoint, findBreakPoint, Listed, PcsOf
  <2>3. text[a] = "code"
    BY <1>4, <2>1, <2>2
    DEF IInv, Consistent, PatchedIffListed, CanPtrace, Alive, Deaths, TypeOK,
        TraceeTypeOK, Byte
  <2>4. infos' = infos \cup {[pc |-> a, original |-> "code"]}
    BY <1>4, <2>3 DEF setPcBreakPoint
  <2>5. Listed' = Listed \cup {a}
    <3> DEFINE e == [pc |-> a, original |-> "code"]
    <3>1. e.pc = a
      OBVIOUS
    <3>2. infos' = infos \cup {e}
      BY <2>4
    <3> HIDE DEF e
    <3>. QED BY <3>1, <3>2 DEF Listed, PcsOf
  <2>6. OriginalsAreCode' /\ ListedBreakable'
    BY <2>1, <2>4, <2>5 DEF IInv, Consistent, OriginalsAreCode, ListedBreakable
  <2>7. ASSUME NEW b \in Inst
        PROVE  text'[b] = IF b = a THEN "int3" ELSE text[b]
    <3>1. text' = enableBreakPoint({a})
      BY <1>4 DEF setPcBreakPoint
    <3>. QED BY <3>1, PokedBytes
  <2>8. PatchedIffListed'
    BY <1>1, <2>5, <2>7 DEF IInv, Consistent, PatchedIffListed, Alive
  <2>9. DeferredIsBrief' /\ ControlExplained'
    BY <1>1, <2>5 DEF IInv, Consistent, DeferredIsBrief, ControlExplained
  <2>. QED BY <1>2, <2>6, <2>8, <2>9 DEF Consistent
<1>. QED BY <1>3, <1>4 DEF SetFileLineBreakPoint

\* bc
LEMMA InvClear ==
  ASSUME IInv, BreakableIsLong, NEW S \in SUBSET infos, clear(S)
  PROVE  Consistent'
<1>1. UNCHANGED <<stat, deferred, dbg>> /\ infos' = infos \ S /\ deferred = {}
  BY AtPrompt DEF clear
<1>2. Listed' = Listed \ PcsOf(S) /\ PcsOf(S) \subseteq Listed
  \* an address is listed once
  BY <1>1 DEF Listed, PcsOf, IInv, Consistent, OriginalsAreCode, TypeOK,
              BreakPointTypeOK, BInfo
<1>3. OriginalsAreCode' /\ ListedBreakable' /\ DeferredIsBrief'
  BY <1>1, <1>2 DEF IInv, Consistent, OriginalsAreCode, ListedBreakable, DeferredIsBrief
<1>4. ASSUME NEW a \in Inst
      PROVE  text'[a] = IF a \in PcsOf(S) THEN "code" ELSE text[a]
  BY PokedBytes DEF clear
<1>5. PatchedIffListed'
  BY <1>1, <1>2, <1>4 DEF IInv, Consistent, PatchedIffListed, Alive
<1>6. stat' \notin Resumed \cup Stops /\ dbg' = "idle"
  BY <1>1, AtPrompt DEF clear, Prompt
<1>7. ControlExplained'
  <2>1. CASE pc - 1 \in PcsOf(S)
    BY <1>2, <1>6, <2>1, TrappedAt DEF clear, ControlExplained, IInv
  <2>2. CASE pc - 1 \notin PcsOf(S)
    BY <1>1, <1>2, <1>6, <2>2 DEF clear, ControlExplained, IInv, Consistent
  <2>. QED BY <2>1, <2>2
<1>8. StatOfDbg'
  BY <1>6 DEF StatOfDbg, Stops
<1>. QED BY <1>3, <1>5, <1>7, <1>8 DEF Consistent

\* The other commands that end at once leave the table and the program counter alone; r
\* pokes INT3 where it already is.
LEMMA InvAtOnce ==
  ASSUME IInv, restart \/ disassWithoutProcess \/ quit \/ \E c \in {"c", "s", "n"} : refused(c)
  PROVE  Consistent'
<1>1. UNCHANGED <<pc, infos, deferred>> /\ deferred = {}
  BY AtPrompt DEF restart, disassWithoutProcess, quit, refused, traceeVars, bpVars
<1>2. /\ stat' \in {stat, "killed", "loose"} /\ (Alive' => Alive)
      /\ dbg' \in {"idle"} \cup Ended
  BY DEF restart, disassWithoutProcess, quit, refused, traceeVars, Alive, Deaths, Prompt,
         Ended, Released
<1>3. stat' \notin Resumed \cup Stops
  BY <1>2, AtPrompt DEF restart, disassWithoutProcess, quit, refused, Resumed, Stops
<1>4. ASSUME Alive', NEW a \in Inst
      PROVE  text'[a] = "int3" <=> a \in Listed
  <2>1. Alive /\ (text[a] = "int3" <=> a \in Listed)
    BY <1>1, <1>2, <1>4 DEF IInv, Consistent, PatchedIffListed
  <2>2. text' = text \/ text' = enableBreakPoint(Listed)
    BY DEF restart, SetBpWhenRestart, disassWithoutProcess, quit, refused, traceeVars
  <2>. QED BY <2>1, <2>2, PokedBytes
<1>5. PatchedIffListed'
  BY <1>1, <1>4, TableKept DEF PatchedIffListed
<1>6. DeferredIsBrief' /\ StatOfDbg'
  BY <1>1, <1>2, <1>3 DEF IInv, Consistent, DeferredIsBrief, StatOfDbg, Ended, Stops
<1>7. stat' = "loose" => pc \in Inst
  <2>1. stat' = "loose" => pid = 0 /\ Alive
    <3>1. stat # "loose"
      BY DEF restart, disassWithoutProcess, quit, refused, Prompt, IInv, LeftBehind, Ended
    <3>. QED
      BY <3>1
      DEF restart, disassWithoutProcess, quit, refused, traceeVars, Released, Alive, Deaths
  <2>. QED BY <2>1 DEF IInv, LeftBehind
<1>8. ControlExplained'
  BY <1>1, <1>3, <1>7, TableKept DEF IInv, Consistent, ControlExplained
<1>. QED BY <1>1, <1>5, <1>6, <1>8, TableKept DEF Consistent

\* c, up to its first wait.
LEMMA InvContinue ==
  ASSUME IInv, BreakableIsLong, continue
  PROVE  Consistent'
<1>1. UNCHANGED infos /\ deferred = {} /\ Alive
  BY AtPrompt DEF continue, CanPtrace, Alive, Deaths
<1>2. CASE Trapped /\ stepBack /\ stat' = "stepping" /\ dbg' = "c_step"
  <2>1. PatchedIffListed' /\ DeferredIsBrief' /\ ControlExplained'
    BY <1>1, <1>2, StepBackEffect, TableKept
    DEF PatchedIffListed, DeferredIsBrief, ControlExplained
  <2>2. StatOfDbg'
    BY <1>1, <1>2, StepBackEffect DEF StatOfDbg, Waiting
  <2>. QED BY <1>1, <2>1, <2>2, TableKept DEF Consistent
<1>3. CASE /\ ~Trapped /\ stat' = "running" /\ dbg' = "c_wait"
           /\ UNCHANGED <<text, pc, deferred>>
  <2>1. PatchedIffListed' /\ DeferredIsBrief' /\ ControlExplained'
    BY <1>1, <1>3, TrappedIsHit, TableKept
    DEF IInv, Consistent, PatchedIffListed, DeferredIsBrief, ControlExplained
  <2>2. StatOfDbg'
    BY <1>3 DEF StatOfDbg, Waiting
  <2>. QED BY <1>1, <2>1, <2>2, TableKept DEF Consistent
<1>. QED BY <1>2, <1>3 DEF continue

\* s and n, up to the loop, and the single-step of s.
LEMMA InvStepOn ==
  ASSUME IInv, BreakableIsLong, step \/ next \/ stepOn
  PROVE  Consistent'
<1>1. UNCHANGED infos /\ Alive /\ stat = "stopped" /\ dbg \in {"idle", "s_loop"}
  BY DEF step, next, stepOn, CanPtrace, Alive, Deaths, Prompt, bpVars
<1>2. dbg' \in InStep \cup InNext /\ dbg' \notin {"c_wait", "c_step"}
  BY DEF step, next, stepOn, singleStep, InStep, InNext
<1>3. /\ stat' \in {"stopped", "stepping"}
      /\ stat' = "stepping" => dbg' \in Waiting
  BY <1>1 DEF step, next, stepOn, singleStep, traceeVars, Waiting
<1>4. StatOfDbg'
  BY <1>2, <1>3 DEF StatOfDbg, Resumed, Stops
<1>5. CASE Trapped /\ stepBack
  <2>1. PatchedIffListed' /\ DeferredIsBrief' /\ ControlExplained'
    BY <1>1, <1>2, <1>5, StepBackEffect, TableKept
    DEF PatchedIffListed, DeferredIsBrief, ControlExplained
  <2>. QED BY <1>1, <1>4, <2>1, TableKept DEF Consistent
<1>6. CASE /\ UNCHANGED <<text, pc, deferred>>
           /\ ~Trapped \/ stat' = "stopped"
  <2>1. PatchedIffListed' /\ DeferredIsBrief' /\ ControlExplained'
    BY <1>1, <1>2, <1>3, <1>6, TrappedIsHit, TableKept
    DEF IInv, Consistent, PatchedIffListed, DeferredIsBrief, ControlExplained, Resumed
  <2>. QED BY <1>1, <1>4, <2>1, TableKept DEF Consistent
<1>. QED BY <1>1, <1>5, <1>6 DEF step, next, stepOn, traceeVars, bpVars

\* s or n goes on with its loop: nothing it could disturb changes.
LEMMA InvLoop ==
  ASSUME IInv, BreakableIsLong,
         UNCHANGED <<text, pc, infos, deferred>>,
         Alive, Alive',
         \/ dbg' \in Looping /\ stat' = "stopped"
         \/ dbg' = "n_wait" /\ stat' = "stepping" /\ ~Trapped
  PROVE  Consistent'
<1>1. dbg' \in InStep \cup InNext /\ dbg' \notin {"c_wait", "c_step"}
  BY DEF Looping, InStep, InNext
<1>2. StatOfDbg'
  BY <1>1 DEF StatOfDbg, Resumed, Stops, Waiting
<1>3. PatchedIffListed' /\ DeferredIsBrief' /\ ControlExplained'
  BY <1>1, TrappedIsHit, TableKept
  DEF IInv, Consistent, PatchedIffListed, DeferredIsBrief, ControlExplained, Resumed
<1>. QED BY <1>2, <1>3, TableKept DEF Consistent

\* A command returns, its deferred calls run, and the process is stopped or has ended.
LEMMA InvReturn ==
  ASSUME IInv, BreakableIsLong,
         runDeferred, UNCHANGED <<pc, infos>>,
         dbg' = "idle",
         stat' \notin Resumed \cup Stops \cup {"loose"},
         Alive' => Alive
  PROVE  Consistent'
<1>1. PatchedIffListed'
  BY RunDeferredEffect, TableKept DEF PatchedIffListed
<1>2. DeferredIsBrief' /\ StatOfDbg'
  BY RunDeferredEffect DEF DeferredIsBrief, StatOfDbg, Stops
<1>3. ControlExplained'
  BY RunDeferredEffect, TableKept DEF IInv, Consistent, ControlExplained
<1>. QED BY <1>1, <1>2, <1>3, TableKept DEF Consistent

\* What the executor does once a command has started.
LEMMA InvProceed ==
  ASSUME IInv, BreakableIsLong, Proceed
  PROVE  Consistent'
<1> USE DEF procs, locals, bpVars, traceeVars
<1>0. ASSUME Reportable, stat' = Reported
      PROVE  /\ stat' \in {"stopped", "gone"}
             /\ Alive' <=> Alive
             /\ stat \in Stops => Alive /\ stat' = "stopped"
             /\ stat \in Deaths => ~Alive
  BY <1>0 DEF Reportable, Reported, Alive, Stops, Deaths
<1>1. ASSUME continueStepped
      PROVE  Consistent'
  <2>1. CASE ~SteppedOver /\ stat' = Reported /\ dbg' = "idle"
    BY <1>0, <1>1, <2>1, InvReturn DEF continueStepped, Resumed, Stops
  <2>2. CASE SteppedOver /\ stat' = "running" /\ dbg' = "c_wait"
    <3>1. UNCHANGED <<pc, infos>> /\ runDeferred /\ Alive /\ pc \in Inst
      BY <1>1, <2>2
      DEF continueStepped, SteppedOver, Alive, Deaths, IInv, Consistent, StatOfDbg
    <3>2. PatchedIffListed' /\ DeferredIsBrief' /\ ControlExplained' /\ StatOfDbg'
      BY <2>2, <3>1, RunDeferredEffect, TableKept
      DEF PatchedIffListed, DeferredIsBrief, ControlExplained, StatOfDbg, Waiting
    <3>. QED BY <3>1, <3>2, TableKept DEF Consistent
  <2>. QED BY <1>1, <2>1, <2>2 DEF continueStepped
<1>2. ASSUME continued
      PROVE  Consistent'
  <2>1. deferred = {}
    BY <1>2 DEF continued, IInv, Consistent, DeferredIsBrief, InStep, InNext
  <2>2. UNCHANGED <<text, pc, infos, deferred>> /\ dbg' = "idle"
    BY <1>2 DEF continued
  <2>3. stat' \in {"stopped", "gone"} /\ (Alive' <=> Alive)
    BY <1>0, <1>2 DEF continued
  <2>4. PatchedIffListed' /\ DeferredIsBrief' /\ ControlExplained' /\ StatOfDbg'
    BY <2>1, <2>2, <2>3, TableKept
    DEF IInv, Consistent, PatchedIffListed, DeferredIsBrief, ControlExplained, StatOfDbg,
        Resumed, Stops
  <2>. QED BY <2>2, <2>4, TableKept DEF Consistent
<1>3. ASSUME foundDead
      PROVE  Consistent'
  <2>1. stat \notin Resumed \cup Stops \cup {"loose"}
    BY <1>3
    DEF foundDead, IInv, Consistent, LeftBehind, StatOfDbg, Looping, Waiting, Ended
  <2>. QED BY <1>3, <2>1, InvReturn DEF foundDead, return, Alive
<1>4. ASSUME stepEnded
      PROVE  Consistent'
  <2>1. stat' \in {"stopped", "gone"} /\ (Alive' <=> Alive)
    BY <1>0, <1>4 DEF stepEnded
  <2>. QED BY <1>4, <2>1, InvReturn DEF stepEnded, return, Resumed, Stops
<1>5. ASSUME stepArrived \/ nextTrapped \/ (nextCallDone /\ return("listed"))
      PROVE  Consistent'
  <2>1. UNCHANGED <<pc, infos, stat>> /\ stat = "stopped" /\ return("listed")
    BY <1>5 DEF stepArrived, nextTrapped, nextCallDone, NextTurn, CanPtrace
  <2>. QED BY <2>1, InvReturn DEF return, Alive, Resumed, Stops
<1>6. ASSUME stepOn
      PROVE  Consistent'
  BY <1>6, InvStepOn
<1>7. ASSUME stepWaited
      PROVE  Consistent'
  <2>1. Alive /\ Alive' /\ stat' = "stopped"
    BY <1>0, <1>7 DEF stepWaited, Reportable, Stops
  <2>. QED BY <1>7, <2>1, InvLoop DEF stepWaited, Looping
<1>11. ASSUME nextUndecoded
       PROVE  Consistent'
  <2>1. UNCHANGED <<pc, infos, stat>> /\ stat = "stopped" /\ return("error")
    BY <1>11 DEF nextUndecoded, NextTurn, CanPtrace
  <2>. QED BY <2>1, InvReturn DEF return, Alive, Resumed, Stops
<1>8. ASSUME nextInCall \/ nextOn
      PROVE  Consistent'
  <2>1. /\ Alive /\ Alive' /\ stat' = "stepping" /\ dbg' = "n_wait" /\ ~Trapped
        /\ UNCHANGED <<text, pc, infos, deferred>>
    BY <1>8
    DEF nextInCall, nextOn, NextTurn, singleStep, CanPtrace, Alive, Deaths
  <2>. QED BY <2>1, InvLoop
<1>9. ASSUME nextAtCall \/ (nextCallDone /\ UNCHANGED <<text, deferred, dbg>>)
      PROVE  Consistent'
  <2>1. /\ Alive /\ Alive' /\ stat' = "stopped" /\ dbg' = "n_loop"
        /\ UNCHANGED <<text, pc, infos, deferred>>
    BY <1>9 DEF nextAtCall, nextCallDone, NextTurn, CanPtrace, Alive, Deaths
  <2>. QED BY <2>1, InvLoop DEF Looping
<1>10. ASSUME nextWaited
       PROVE  Consistent'
  <2>1. Alive /\ Alive' /\ stat' = "stopped"
    BY <1>0, <1>10 DEF nextWaited, Reportable, Stops
  <2>2. CASE return("listed")
    BY <1>10, <2>1, <2>2, InvReturn DEF nextWaited, return, Resumed, Stops
  <2>3. CASE dbg' = "n_loop" /\ UNCHANGED <<text, deferred>>
    BY <1>10, <2>1, <2>3, InvLoop DEF nextWaited, Looping
  <2>. QED BY <1>10, <2>2, <2>3 DEF nextWaited
<1>. QED
  BY <1>1, <1>2, <1>3, <1>4, <1>5, <1>6, <1>7, <1>8, <1>9, <1>10, <1>11
  DEF Proceed, nextCallDone

\* A process left behind does not come to stand inside an instruction, but where an INT3
\* ends it.
LEMMA InvLoose ==
  ASSUME IInv, BreakableIsLong, release
  PROVE  Consistent'
<1>1. /\ UNCHANGED <<text, infos, deferred, dbg>>
      /\ stat = "loose" /\ Alive /\ pc \in Inst
      /\ stat' \in {"loose"} \cup Deaths
      /\ dbg \in Ended
  BY LooseInstType
  DEF release, RunLoose, LooseInst, LooseInt3, LooseStray, bpVars, IInv, Consistent, LeftBehind,
      ControlExplained, Alive, Deaths
<1>2. \/ pc' \in Inst
      \/ text[pc] = "int3" /\ pc' = pc + 1 /\ stat' \in Deaths
  BY <1>1, LooseInstType DEF release, RunLoose, LooseInst, LooseInt3, LooseStray, IInv
<1>3. PatchedIffListed' /\ DeferredIsBrief'
  BY <1>1, TableKept DEF IInv, Consistent, PatchedIffListed, DeferredIsBrief
<1>4. StatOfDbg'
  BY <1>1 DEF StatOfDbg, Resumed, Stops, Deaths, Ended
<1>5. ControlExplained'
  <2>1. CASE pc' \in Inst
    BY <2>1 DEF ControlExplained
  <2>2. CASE text[pc] = "int3" /\ pc' = pc + 1 /\ stat' \in Deaths
    <3>1. pc \in Listed \ deferred
      BY <1>1, <2>2 DEF IInv, Consistent, PatchedIffListed
    <3>2. pc' - 1 = pc
      BY <1>1, <2>2, InstNat
    <3>. QED
      BY <1>1, <2>2, <3>1, <3>2, TableKept DEF ControlExplained, Resumed, Deaths
  <2>. QED BY <1>2, <2>1, <2>2
<1>. QED BY <1>1, <1>3, <1>4, <1>5, TableKept DEF Consistent

\* The traced thread and its environment.
LEMMA InvThread ==
  ASSUME IInv, BreakableIsLong, execute \/ threadEvent \/ environment
  PROVE  Consistent'
<1> USE DEF bpVars
<1>0. /\ UNCHANGED <<text, infos, deferred, dbg>>
      /\ Alive
      /\ stat \in Resumed => dbg \in Waiting /\ pc \in Inst
  BY DEF environment, execute, threadEvent, ExecuteInst, ExecuteInt3, DeliverStop,
         DeliverSignal, Die, IInv, Consistent, StatOfDbg, ControlExplained, Alive, Resumed,
         Deaths
<1>1. PatchedIffListed' /\ DeferredIsBrief'
  BY <1>0, TableKept
  DEF IInv, Consistent, PatchedIffListed, DeferredIsBrief
<1>2. ASSUME execute
      PROVE  ControlExplained' /\ StatOfDbg'
  <2>1. /\ pc' \in Inst
        /\ stat' \in {"trap", "running"} \cup Deaths
        /\ stat = "stepping" => stat' # "running"
        /\ stat = "running" => stat' # "trap"
        /\ stat \in Resumed
    <3>1. PICK o \in Outcomes(pc, stack) :
            stat' = AfterInst(o.fate)
      BY <1>2 DEF execute, ExecuteInst
    <3>2. o.fate \in {"alive", "exited", "killed"}
      BY <1>2, OutcomesType
      DEF execute, ExecuteInst, IInv, TypeOK, TraceeTypeOK
    <3>3. pc' \in Inst /\ stat' \in {"trap", "running"} \cup Deaths
      BY <1>2, ExecuteInstType DEF execute, IInv
    <3>. QED
      BY <1>2, <3>1, <3>2, <3>3 DEF execute, ExecuteInst, AfterInst, Resumed
  <2>2. ControlExplained'
    BY <2>1 DEF ControlExplained
  <2>3. StatOfDbg'
    BY <1>0, <2>1 DEF IInv, Consistent, StatOfDbg, Resumed, Stops, Deaths
  <2>. QED BY <2>2, <2>3
<1>3. ASSUME ExecuteInt3
      PROVE  ControlExplained' /\ StatOfDbg'
  <2>1. pc \in Inst /\ pc' = pc + 1 /\ stat \in Resumed /\ stat' = "trap"
    BY <1>3 DEF ExecuteInt3
  <2>2. pc \in Listed \ deferred
    BY <1>0, <1>3, <2>1 DEF ExecuteInt3, IInv, Consistent, PatchedIffListed
  <2>3. pc' \notin Inst /\ pc' - 1 = pc
    BY <2>1, <2>2, NothingBehindBreakAddr, InstNat
    DEF IInv, Consistent, ListedBreakable
  <2>4. ControlExplained'
    BY <1>0, <2>1, <2>2, <2>3, TableKept DEF ControlExplained, Resumed
  <2>5. StatOfDbg'
    <3>1. dbg # "c_step"
      BY <2>1, <2>2 DEF IInv, Consistent, StatOfDbg, Resumed
    <3>. QED
      BY <1>0, <2>1, <2>3, <3>1 DEF IInv, Consistent, StatOfDbg, Resumed
  <2>. QED BY <2>4, <2>5
<1>4. ASSUME DeliverStop \/ DeliverSignal \/ Die
      PROVE  ControlExplained' /\ StatOfDbg'
  <2>1. /\ UNCHANGED pc
        /\ stat' \in {"urg", "other"} \cup Deaths
        /\ stat' \in {"urg", "other"} => stat \in Resumed
    BY <1>4, SignalsAssumption DEF DeliverStop, DeliverSignal, Die, Deaths
  <2>2. ControlExplained'
    BY <1>0, <2>1, TableKept DEF IInv, Consistent, ControlExplained, Resumed, Deaths
  <2>3. StatOfDbg'
    BY <1>0, <2>1 DEF IInv, Consistent, StatOfDbg, Resumed, Stops, Deaths
  <2>. QED BY <2>2, <2>3
<1>. QED
  BY <1>0, <1>1, <1>2, <1>3, <1>4, TableKept
  DEF Consistent, environment, threadEvent

\* Commands and steps change pid, and let the process go, only together with what they
\* know of control.
LEMMA InvLeftBehind ==
  ASSUME IInv, BreakableIsLong, Command \/ Proceed \/ Thread \/ environment
  PROVE  LeftBehind'
<1> USE DEF procs
<1>0. /\ pid = 0 /\ Alive => pc \in Inst
      /\ dbg \in Waiting => pid # 0
      /\ stat = "loose" => dbg \in Ended
      /\ dbg \in Ended => dbg \notin {"idle"} \cup Waiting \cup Looping
  BY DEF IInv, LeftBehind, Ended, Waiting, Looping
<1>1. ASSUME CanPtrace, UNCHANGED pid, stat' # "loose"
      PROVE  LeftBehind'
  BY <1>1 DEF CanPtrace, LeftBehind
<1>2. ASSUME UNCHANGED <<pc, pid>>, Alive' => Alive, dbg' \notin Waiting,
             stat' = "loose" => dbg' \in Ended
      PROVE  LeftBehind'
  BY <1>0, <1>2 DEF LeftBehind
<1>3. CASE Command
  <2>1. CASE \/ \E l \in UserLines : SetFileLineBreakPoint(l)
             \/ \E c \in {"c", "s", "n"} : refused(c)
    <3>1. UNCHANGED <<pc, pid, stat, dbg>> /\ dbg = "idle"
      BY <2>1 DEF SetFileLineBreakPoint, refused, Prompt, traceeVars
    <3>. QED BY <1>0, <1>2, <3>1 DEF Alive, Waiting
  <2>2. CASE restart \/ disassWithoutProcess \/ quit
    <3>1. UNCHANGED <<pc, pid>> /\ dbg = "idle" /\ dbg' \in {"idle"} \cup Ended
      BY <2>2 DEF restart, disassWithoutProcess, quit, Prompt, Ended
    <3>2. (Alive' => Alive) /\ (stat' = "loose" => dbg' \in Ended)
      BY <1>0, <2>2, <3>1
      DEF restart, disassWithoutProcess, quit, Released, Alive, Deaths, Ended
    <3>. QED BY <1>2, <3>1, <3>2 DEF Waiting, Ended
  <2>3. CASE bclear \/ continue \/ step \/ next
    <3>1. CanPtrace /\ UNCHANGED pid /\ stat' \in {stat} \cup Resumed
      BY <2>3 DEF bclear, clear, continue, step, next, traceeVars, Resumed
    <3>. QED BY <1>1, <3>1 DEF CanPtrace, Resumed
  <2>. QED BY <1>3, <2>1, <2>2, <2>3 DEF Command
<1>4. CASE Proceed
  <2>0. /\ dbg \in Waiting \cup Looping
        /\ stat # "loose"
        /\ Reported # "loose"
    <3>1. dbg \in Waiting \cup Looping
      BY <1>4
      DEF Proceed, continueStepped, continued, foundDead, stepEnded, stepArrived, stepOn,
          stepWaited, nextTrapped, NextTurn, nextInCall, nextCallDone, nextAtCall, nextUndecoded,
          nextOn, nextWaited, Waiting, Looping
    <3>. QED BY <1>0, <3>1 DEF Reported
  <2>1. CASE \/ stepArrived \/ stepOn \/ nextTrapped \/ nextInCall \/ nextCallDone
             \/ nextAtCall \/ nextUndecoded \/ nextOn
    <3>1. CanPtrace /\ UNCHANGED pid /\ stat' \in {stat, "stepping"}
      BY <2>1
      DEF stepArrived, stepOn, nextTrapped, NextTurn, nextInCall, nextCallDone, nextAtCall,
          nextUndecoded, nextOn, singleStep, traceeVars
    <3>. QED BY <1>1, <2>0, <3>1
  <2>2. CASE continueStepped \/ stepWaited \/ nextWaited
    <3>1. UNCHANGED pid /\ dbg \in Waiting /\ stat' \in {Reported, "running"}
      BY <2>2 DEF continueStepped, stepWaited, nextWaited, Waiting
    <3>. QED BY <1>0, <2>0, <3>1 DEF LeftBehind
  <2>3. CASE continued
    <3>1. UNCHANGED pc /\ dbg \in Waiting /\ dbg' = "idle" /\ stat' = Reported
          /\ Reportable /\ (pid' = 0 => pid = 0 \/ stat \notin {"trap", "urg"})
      BY <2>3 DEF continued, Waiting
    <3>2. stat = "other" => pc \in Inst
      BY DEF IInv, Consistent, StatOfDbg
    <3>3. pid' = 0 /\ Alive' => pc' \in Inst
      BY <1>0, <3>1, <3>2 DEF Reported, Reportable, Stops, Alive, Deaths
    <3>. QED BY <2>0, <3>1, <3>3 DEF LeftBehind, Waiting
  <2>4. CASE stepEnded
    <3>1. UNCHANGED pc /\ dbg \in Waiting /\ dbg' = "idle" /\ stat' = Reported
          /\ (pid' = pid \/ stat = "exited")
      BY <2>4 DEF stepEnded, return, Waiting
    <3>2. pid' = 0 => ~Alive'
      BY <1>0, <3>1 DEF Reported, Stops, Alive
    <3>. QED BY <2>0, <3>1, <3>2 DEF LeftBehind, Waiting
  <2>5. CASE foundDead
    <3>1. UNCHANGED <<pc, pid, stat>> /\ dbg' = "idle"
      BY <2>5 DEF foundDead, return
    <3>. QED BY <1>2, <2>0, <3>1 DEF Alive, Waiting
  <2>. QED BY <1>4, <2>1, <2>2, <2>3, <2>4, <2>5 DEF Proceed
<1>5. CASE execute \/ threadEvent \/ environment
  <2>1. UNCHANGED <<pid, dbg>> /\ Alive
    BY <1>5
    DEF execute, ExecuteInst, threadEvent, ExecuteInt3, DeliverStop, environment,
        DeliverSignal, Die, Alive, Resumed, Deaths
  <2>2. CASE stat \in Resumed
    <3>1. pid # 0
      BY <1>0, <2>2 DEF IInv, Consistent, StatOfDbg
    <3>2. stat' # "loose"
      BY <1>5, <2>2, ExecuteInstType, SignalsAssumption
      DEF execute, threadEvent, ExecuteInt3, DeliverStop, environment, DeliverSignal, Die,
          IInv, Deaths
    <3>. QED BY <1>0, <2>1, <3>1, <3>2 DEF LeftBehind
  <2>3. CASE stat \notin Resumed
    <3>1. UNCHANGED pc /\ stat' \in Deaths
      BY <1>5, <2>3
      DEF execute, ExecuteInst, threadEvent, ExecuteInt3, DeliverStop, environment,
          DeliverSignal, Die
    <3>. QED BY <1>0, <2>1, <3>1 DEF LeftBehind, Alive, Deaths
  <2>. QED BY <2>2, <2>3
<1>6. CASE release
  <2>1. /\ UNCHANGED <<pid, dbg>> /\ stat = "loose" /\ pc \in Inst
        /\ (pc' \in Inst \/ stat' \in Deaths)
    BY <1>6, LooseInstType
    DEF release, RunLoose, LooseInst, LooseInt3, LooseStray, IInv, Consistent, ControlExplained
  <2>. QED BY <1>0, <2>1 DEF LeftBehind, Alive
<1>. QED BY <1>3, <1>4, <1>5, <1>6 DEF Thread

LEMMA InvStep ==
  ASSUME IInv, BreakableIsLong, [Next]_vars
  PROVE  IInv'
<1>1. CASE Command
  <2>1. Consistent'
    BY <1>1, InvSetBreakPoint, InvClear, InvAtOnce, InvContinue, InvStepOn
    DEF Command, bclear
  <2>. QED BY <1>1, <2>1, TypeCommand, InvLeftBehind DEF IInv
<1>2. CASE Proceed
  BY <1>2, InvProceed, TypeProceed, InvLeftBehind DEF IInv
<1>3. CASE Thread \/ environment
  <2>1. Consistent'
    BY <1>3, InvThread, InvLoose DEF Thread
  <2>. QED BY <1>3, <2>1, TypeThread, InvLeftBehind DEF IInv
<1>4. CASE UNCHANGED vars
  BY <1>4
  DEF vars, traceeVars, bpVars, procs, locals, IInv, TypeOK, TraceeTypeOK,
      BreakPointTypeOK, Consistent, OriginalsAreCode, ListedBreakable, Listed, PcsOf,
      DeferredIsBrief, StatOfDbg, PatchedIffListed, ControlExplained, LeftBehind, Alive
<1>. QED BY <1>1, <1>2, <1>3, <1>4 DEF Next

\* The invariant holds of every program on which no breakpoint goes on a one-byte
\* instruction.
THEOREM Invariant ==
  ASSUME BreakableIsLong
  PROVE  Spec => []IInv
<1>1. IInv /\ [Next]_vars => IInv'
  BY InvStep
<1>. QED BY InitInv, <1>1, PTL DEF Spec

\* Exactly the listed addresses hold INT3, but for those a command has taken out.
THEOREM CodeMatchesTable ==
  ASSUME BreakableIsLong
  PROVE  Spec => []PatchedIffListed
<1>1. IInv => PatchedIffListed
  BY DEF IInv, Consistent
<1>. QED BY Invariant, <1>1, PTL

\* The program counter is inside an instruction only behind an INT3 just hit, and never
\* when the thread is resumed or let go.
THEOREM ControlIsExplained ==
  ASSUME BreakableIsLong
  PROVE  Spec => []ControlExplained
<1>1. IInv => ControlExplained
  BY DEF IInv, Consistent
<1>. QED BY Invariant, <1>1, PTL

\* c stops with SIGTRAP only at a listed breakpoint.
THEOREM TrapsAreBreakPoints ==
  ASSUME BreakableIsLong
  PROVE  Spec => []TrapIsBreakPoint
<1>1. IInv => TrapIsBreakPoint
  BY TrappedIsHit DEF IInv, Consistent, StatOfDbg, TrapIsBreakPoint
<1>. QED BY Invariant, <1>1, PTL

-----------------------------------------------------------------------------
(***************************************************************************)
(* Refinement: under the debugger the traced program does what Program     *)
(* says it does without one.                                               *)
(***************************************************************************)

\* Moving pc back from a breakpoint that was hit does not move control.
LEMMA StepBackControl ==
  ASSUME IInv, BreakableIsLong, Trapped, stepBack
  PROVE  Control' = Control
BY TrappedIsHit DEF stepBack, Control

\* The thread executes an instruction of the program.
LEMMA ExecuteRefines ==
  ASSUME IInv, ExecuteInst
  PROVE  P!Execute
<1>1. PICK o \in Outcomes(pc, stack) :
        /\ pc' = o.ip
        /\ stack' = o.stack
        /\ stat' = AfterInst(o.fate)
  BY DEF ExecuteInst
<1>2. /\ o.ip \in Inst
      /\ o.fate \in {"alive", "exited", "killed"}
  BY OutcomesType DEF ExecuteInst, IInv, TypeOK, TraceeTypeOK
<1>3. pc \in Inst /\ Control = pc /\ Alive
  BY DEF ExecuteInst, Control, Alive, Resumed, Deaths
<1>4. Control' = o.ip
  BY <1>1, <1>2 DEF Control
<1>5. Alive' = (o.fate = "alive")
  BY <1>1, <1>2 DEF AfterInst, Alive, Deaths
<1>6. P!Outcomes(pc, stack) = Outcomes(pc, stack)
  BY DEF P!Outcomes, Outcomes, P!Outcome, Outcome, P!ReturnAddress, ReturnAddress
<1>. QED BY <1>1, <1>3, <1>4, <1>5, <1>6 DEF P!Execute

\* So does a process left behind.
LEMMA LooseRefines ==
  ASSUME IInv, LooseInst
  PROVE  P!Execute
<1>1. PICK o \in Outcomes(pc, stack) :
        /\ pc' = o.ip
        /\ stack' = o.stack
        /\ stat' = IF o.fate = "alive" THEN "loose" ELSE o.fate
  BY DEF LooseInst
<1>2. /\ o.ip \in Inst
      /\ o.fate \in {"alive", "exited", "killed"}
  BY OutcomesType DEF LooseInst, IInv, TypeOK, TraceeTypeOK
<1>3. pc \in Inst /\ Control = pc /\ Alive
  BY DEF LooseInst, Control, Alive, Deaths
<1>4. Control' = o.ip
  BY <1>1, <1>2 DEF Control
<1>5. Alive' = (o.fate = "alive")
  BY <1>1, <1>2 DEF Alive, Deaths
<1>6. P!Outcomes(pc, stack) = Outcomes(pc, stack)
  BY DEF P!Outcomes, Outcomes, P!Outcome, Outcome, P!ReturnAddress, ReturnAddress
<1>. QED BY <1>1, <1>3, <1>4, <1>5, <1>6 DEF P!Execute

\* Everything else leaves control and the stack alone, and may end the process.
LEMMA ControlKept ==
  ASSUME IInv, BreakableIsLong,
         Command \/ Proceed \/ threadEvent \/ environment \/ (release /\ ~LooseInst)
         \/ UNCHANGED vars
  PROVE  UNCHANGED stack /\ Control' = Control /\ (Alive' => Alive)
<1>1. CASE Command
  <2>1. UNCHANGED stack
    BY <1>1
    DEF Command, SetFileLineBreakPoint, bclear, clear, restart, disassWithoutProcess, quit,
        refused, continue, step, next, traceeVars
  <2>2. Control' = Control
    <3>1. CASE bclear
      <4>1. PICK S \in SUBSET infos : clear(S)
        BY <3>1 DEF bclear
      <4>2. PcsOf(S) \subseteq Listed
        BY DEF PcsOf, Listed
      <4>. QED BY <4>1, <4>2, TrappedIsHit, TrappedAt DEF clear, Control, IInv
    <3>2. CASE Trapped /\ stepBack
      BY <3>2, StepBackControl
    <3>3. CASE UNCHANGED pc
      BY <3>3 DEF Control
    <3>. QED
      BY <1>1, <3>1, <3>2, <3>3
      DEF Command, SetFileLineBreakPoint, restart, disassWithoutProcess, quit, refused,
          continue, step, next, traceeVars
  <2>3. Alive' => Alive
    BY <1>1
    DEF Command, SetFileLineBreakPoint, bclear, clear, restart, disassWithoutProcess, quit,
        refused, continue, step, next, traceeVars, CanPtrace, Released, Alive, Deaths
  <2>. QED BY <2>1, <2>2, <2>3
<1>2. CASE Proceed
  <2> USE DEF Proceed, continueStepped, continued, foundDead, stepEnded, stepArrived,
              stepOn, stepWaited, nextTrapped, nextInCall, nextCallDone, nextAtCall,
              nextUndecoded, nextOn, nextWaited
  <2>1. UNCHANGED stack
    BY <1>2 DEF traceeVars
  <2>2. Control' = Control
    <3>1. (Trapped /\ stepBack) \/ UNCHANGED pc
      BY <1>2 DEF traceeVars
    <3>. QED BY <3>1, StepBackControl DEF Control
  <2>3. Alive' => Alive
    BY <1>2
    DEF traceeVars, SteppedOver, NextTurn, singleStep, CanPtrace, Reportable, Reported,
        Alive, Stops, Deaths
  <2>. QED BY <2>1, <2>2, <2>3
<1>3. CASE threadEvent /\ ExecuteInt3
  <2>1. pc \in Inst /\ text[pc] = "int3" /\ pc' = pc + 1 /\ Alive /\ UNCHANGED stack
    BY <1>3 DEF ExecuteInt3, Alive, Resumed, Deaths
  <2>2. pc \in BreakAddrs
    BY <2>1 DEF IInv, Consistent, PatchedIffListed, ListedBreakable
  <2>3. pc' \notin Inst /\ pc' - 1 = pc
    BY <2>1, <2>2, NothingBehindBreakAddr, InstNat
  <2>4. Control' = Control
    BY <2>1, <2>3 DEF Control
  <2>. QED BY <2>1, <2>4
<1>4. CASE (threadEvent /\ DeliverStop) \/ environment
  <2>1. UNCHANGED <<pc, stack>> /\ Alive
    BY <1>4
    DEF threadEvent, environment, DeliverStop, DeliverSignal, Die, Alive, Resumed, Deaths
  <2>. QED BY <2>1 DEF Control
<1>5. CASE UNCHANGED vars
  BY <1>5 DEF vars, traceeVars, Control, Alive
<1>6. CASE release /\ ~LooseInst
  <2>1. pc \in Inst /\ text[pc] = "int3" /\ pc' = pc + 1 /\ Alive /\ UNCHANGED stack
    BY <1>6
    DEF release, RunLoose, LooseInt3, LooseStray, IInv, Consistent, ControlExplained, Alive,
        Deaths
  <2>2. pc \in BreakAddrs
    BY <2>1 DEF IInv, Consistent, PatchedIffListed, ListedBreakable
  <2>3. pc' \notin Inst /\ pc' - 1 = pc
    BY <2>1, <2>2, NothingBehindBreakAddr, InstNat
  <2>4. Control' = Control
    BY <2>1, <2>3 DEF Control
  <2>. QED BY <2>1, <2>4
<1>. QED
  BY <1>1, <1>2, <1>3, <1>4, <1>5, <1>6 DEF threadEvent

LEMMA StepRefines ==
  ASSUME IInv, BreakableIsLong, [Next]_vars
  PROVE  [P!Next]_P!progVars
<1>1. CASE execute
  BY <1>1, ExecuteRefines DEF execute, P!Next
<1>2. CASE release /\ LooseInst
  BY <1>2, LooseRefines DEF P!Next
<1>3. CASE ~execute /\ ~(release /\ LooseInst)
  <2>1. UNCHANGED stack /\ Control' = Control /\ (Alive' => Alive)
    BY <1>3, ControlKept DEF Next, Thread
  <2>. QED BY <2>1 DEF P!Next, P!End, P!progVars, Alive
<1>. QED BY <1>1, <1>2, <1>3

\* Transparency: no command, in any state, skips, repeats or splits an instruction of the
\* program, or otherwise changes what it executes, whether godbg goes on or has ended.
THEOREM DebuggerIsTransparent ==
  ASSUME BreakableIsLong
  PROVE  Spec => Transparent
<1>1. Init => P!Init
  BY CodeAssumption DEF Init, TraceeInit, P!Init, Control, Alive, Deaths
<1>2. IInv /\ [Next]_vars => [P!Next]_P!progVars
  BY StepRefines
<1>. QED BY Invariant, <1>1, <1>2, PTL DEF Spec, P!Spec, Transparent
=============================================================================
