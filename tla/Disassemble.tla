----------------------------- MODULE Disassemble -----------------------------
(***************************************************************************)
(* disass (disassemble.go): the instructions of the function control is    *)
(* in, decoded from the memory of the process.  Where a breakpoint is      *)
(* listed, the saved byte is put into the copy that is decoded, so that    *)
(* the program's instructions are shown and not the INT3s.  It prints and  *)
(* changes nothing, so it is a function of the state here.                 *)
(***************************************************************************)
EXTENDS BreakPointList, Info

ShownByte_Patched(a) == text[a]   \* mutant: what memory holds is decoded

\* The byte at the start of an instruction, after copy(mem, curbp.original).
ShownByte(a) == IF a \in Listed THEN Original(findBreakPoint(a))[a] ELSE text[a]

\* x86asm.Decode: an INT3 is an instruction of one byte.
DecodedLen(a) == IF ShownByte(a) = "int3" THEN 1 ELSE InstLen[a]

(***************************************************************************)
(* The instructions decoded from lowpc on.  Decoding that has lost the     *)
(* instructions' starts ends in "misread".                                 *)
(***************************************************************************)
disassemble(lowpc, highpc) ==
  LET from[a \in Nat] ==
        IF a >= highpc   THEN <<>>
        ELSE IF a \in Inst
        THEN <<[pc |-> a, byte |-> ShownByte(a), breakpoint |-> a \in Listed]>>
               \o from[a + DecodedLen(a)]
        ELSE <<[pc |-> a, byte |-> "misread", breakpoint |-> FALSE]>>
  IN  from[lowpc]

Marked_Exact(insts) == {i \in DOMAIN insts : insts[i].pc = pc}   \* mutant

\* The lines with the arrow "===>".  pc is not moved back from behind an INT3, and the last
\* instruction never gets the arrow.
Marked(insts) ==
  {i \in 1..(Len(insts) - 1) : insts[i].pc <= pc /\ pc < insts[i + 1].pc}

\* The listing for the function with the number f.
listDisassembleByPtracePc(f) ==
  LET e == info[Functions[f].entry] IN disassemble(e.lowpc, e.highpc)

ShowsDisassembly == Prompt /\ CanPtrace /\ analysis = "done"

-----------------------------------------------------------------------------
\* A hypothesis of theorems about the compiled program: from its first to its last byte a
\* function consists of instructions, without data or padding between them.
FunctionsAreCode ==
  \A debugInfo \in DebugInfos : \A i \in DOMAIN debugInfo :
    LET e == debugInfo[i]
        Inside(a) == e.lowpc <= a /\ a < e.highpc
    IN  e.tag = "subprogram" /\ e.lowpc < e.highpc =>
          /\ e.lowpc \in Inst
          /\ \A a \in Inst :
               Inside(a) /\ Inside(a + InstLen[a]) => a + InstLen[a] \in Inst

\* Whatever breakpoints are set, hit or left behind, disass shows every instruction of the
\* function, in order, each as the program has it and flagged exactly if b has listed it
\* (disassemble, on the bytes that set, clear and the deferred enables leave behind).
DisassemblyIsProgram ==
  ShowsDisassembly => \A f \in findFunctionIncludePc(pc) :
    LET e == info[Functions[f].entry]
        shown == listDisassembleByPtracePc(f)
    IN  /\ {shown[i].pc : i \in DOMAIN shown} = {a \in Inst : e.lowpc <= a /\ a < e.highpc}
        /\ \A i \in DOMAIN shown :
             /\ shown[i].byte = "code"
             /\ shown[i].breakpoint = (shown[i].pc \in Listed)
             /\ i > 1 => shown[i - 1].pc < shown[i].pc

\* The arrow is at the instruction the program executes next and at no other, also behind
\* an INT3 just hit, but for the last instruction of the function, which gets none.
ArrowAtControl ==
  ShowsDisassembly => \A f \in findFunctionIncludePc(pc) :
    LET shown == listDisassembleByPtracePc(f)
        arrows == {shown[i].pc : i \in Marked(shown)}
    IN  arrows = {Control} \ {shown[Len(shown)].pc}
=============================================================================
