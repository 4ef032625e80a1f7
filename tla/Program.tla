------------------------------ MODULE Program -------------------------------
(***************************************************************************)
(* What a debugger must preserve: the traced program as it runs when       *)
(* nobody traces it.  Control is at an instruction ip, and the only steps  *)
(* are to execute that instruction or to die.  There are no breakpoints,   *)
(* no trap bytes and no debugger commands in this module.                  *)
(***************************************************************************)
EXTENDS Code

VARIABLES
  ip,      \* the instruction executed next
  stack,   \* return addresses, innermost first
  alive    \* the process has not ended

progVars == <<ip, stack, alive>>

Init ==
  /\ ip = Entry
  /\ stack = <<>>
  /\ alive = TRUE

\* The thread executes the instruction control is at.
Execute ==
  /\ alive
  /\ \E o \in Outcomes(ip, stack) :
       /\ ip' = o.ip
       /\ stack' = o.stack
       /\ alive' = (o.fate = "alive")

\* Another thread exits, or a fatal signal arrives.
End ==
  /\ alive
  /\ alive' = FALSE
  /\ UNCHANGED <<ip, stack>>

Next == Execute \/ End

Spec == Init /\ [][Next]_progVars
=============================================================================
