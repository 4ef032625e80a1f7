------------------------------ MODULE Inspect ------------------------------
(***************************************************************************)
(* bt and p (prompt.go), on top of the executor: what they read from the   *)
(* stack of the stopped process.  The executor's process gets its stack    *)
(* pointer, its frame pointer and the words of its stack, and each         *)
(* instruction of the traced program does to them what the Go compiler     *)
(* makes it do.  The analysis of the executable (Info) comes first.        *)
(*                                                                         *)
(* A stack word stands for eight bytes.  Like disass, bt and p change      *)
(* nothing unless they crash.                                              *)
(***************************************************************************)
EXTENDS Disassemble

CONSTANTS
  Frame,      \* for each instruction, its part in its function's frame
  Fdes,       \* the entries of the frame table, [begin, size]
  StackWords, \* the addresses of the stack's words
  Strings,    \* the addresses of the string data the program uses
  LenOf,      \* their lengths
  Names,      \* the names the user types after p
  MaxAlloc,   \* bound: the longest slice make can allocate
  SignBit     \* the least word that is negative as an int64

FrameRecord ==
  [does  : {"none", "alloc", "saveBP", "setBP", "ptr", "len", "restoreBP", "free"},
   size  : Nat,        \* words of the frame
   cfa   : Nat,        \* distance of the CFA from rsp, the row that FrameTable finds
   num   : Int,        \* the distance of the function's string from the CFA
   ready : BOOLEAN]    \* rbp points to the frame of this activation

ASSUME InspectAssumption ==
  /\ Frame \in [Inst -> FrameRecord]
  /\ \A f \in Fdes : f.begin \in Nat /\ f.size \in Nat
  /\ StackWords \subseteq Nat \ {0}
  /\ Strings \subseteq Nat \ {0}
  /\ LenOf \in [Strings -> Nat \ {0}]
  /\ MaxAlloc \in Nat
  /\ SignBit \in Nat

VARIABLES
  rsp,       \* the stack pointer
  rbp,       \* the frame pointer
  mem,       \* the words of the stack
  assigned   \* history: for each activation, innermost first, what it has assigned

frameVars   == <<rsp, rbp, mem, assigned>>
inspectVars == <<vars, order, infoVars, frameVars>>

Unassigned == [ptr |-> 0, len |-> 0]

InspectTypeOK ==
  /\ InfoTypeOK
  /\ rsp \in StackWords
  /\ rbp \in StackWords \cup {0}
  /\ mem \in [StackWords -> Nat]
  /\ assigned \in Seq([ptr : Strings \cup {0}, len : Nat])

InspectInit ==
  /\ Init
  /\ ListInit
  /\ InfoInit
  /\ rsp = Max(StackWords)
  /\ rbp = 0
  /\ mem = [w \in StackWords |-> 0]
  /\ assigned = <<Unassigned>>

-----------------------------------------------------------------------------
\* What an instruction does to the frame, while the executor's module moves control.

SavedBP == rsp + Frame[pc].size - 1                   \* inside an allocated frame
Slot    == rsp + Frame[pc].size + 1 + Frame[pc].num   \* the function's string

pushes ==
  /\ Op[pc] = "call" /\ stack' # stack
  /\ rsp' = rsp - 1
  /\ mem' = [mem EXCEPT ![rsp - 1] = ReturnAddress(pc)]
  /\ assigned' = <<Unassigned>> \o assigned
  /\ UNCHANGED rbp

pops ==
  /\ Op[pc] = "ret" /\ stack' # stack
  /\ rsp' = rsp + 1
  /\ assigned' = Tail(assigned)
  /\ UNCHANGED <<rbp, mem>>

moves ==
  /\ stack' = stack
  /\ rsp' = CASE Frame[pc].does = "alloc" -> rsp - Frame[pc].size
              [] Frame[pc].does = "free"  -> rsp + Frame[pc].size
              [] OTHER                    -> rsp
  /\ rbp' = CASE Frame[pc].does = "setBP"     -> SavedBP
              [] Frame[pc].does = "restoreBP" -> mem[SavedBP]
              [] OTHER                        -> rbp
  /\ \/ /\ Frame[pc].does = "saveBP"
        /\ mem' = [mem EXCEPT ![SavedBP] = rbp]
        /\ UNCHANGED assigned
     \/ \E s \in Strings :
        /\ Frame[pc].does = "ptr"
        /\ mem' = [mem EXCEPT ![Slot] = s]
        /\ assigned' = [assigned EXCEPT ![1] = [ptr |-> s, len |-> 0]]
     \/ /\ Frame[pc].does = "len"
        /\ mem' = [mem EXCEPT ![Slot + 1] = LenOf[assigned[1].ptr]]
        /\ assigned' = [assigned EXCEPT ![1].len = LenOf[assigned[1].ptr]]
     \/ /\ Frame[pc].does \notin {"saveBP", "ptr", "len"}
        /\ UNCHANGED <<mem, assigned>>

frameStep == pushes \/ pops \/ moves

-----------------------------------------------------------------------------
\* bt

\* pc, moved back from behind an INT3 that was just hit.
AdjustedPc == IF Trapped THEN pc - 1 ELSE pc

CallSite_Behind(ret) == ret   \* mutant: the address behind the call is looked up

\* A return address is looked up inside the call.
CallSite(ret) == ret - 1

\* What is printed for an address: any of the lines its row has, and the function.
Place(a) == [lines |-> pcTofileLine(a), function |-> findFunctionIncludePc(a)]

\* What is printed for pc, without the function, and for the error that ends bt.
Position(a) == [lines |-> pcTofileLine(a), function |-> {}]
Unreadable  == [lines |-> {}, function |-> {}]

Readable(b) == {b, b + 1} \subseteq StackWords

(***************************************************************************)
(* The frames from the one rbp points to outwards: each holds the caller's *)
(* frame pointer and, behind it, the return address.  0 ends the chain, an *)
(* unreadable frame or an address outside all functions ends it with an    *)
(* error.  Bound: a chain with more frames than words goes round in a      *)
(* circle; it is cut there.                                                *)
(***************************************************************************)
bt ==
  LET words == Cardinality(StackWords)
      frame[n \in Nat] ==
        IF n = 0 THEN rbp
        ELSE LET b == frame[n - 1] IN IF Readable(b) THEN mem[b] ELSE 0
      caller(n) == Place(CallSite(mem[frame[n] + 1]))
      Ends(n)   == ~Readable(frame[n]) \/ caller(n).function = {}
      depth     == Min({n \in 0..words : Ends(n)} \cup {words})
  IN  <<Position(AdjustedPc)>> \o [n \in 1..depth |-> caller(n - 1)]
        \o (IF frame[depth] = 0 THEN <<>> ELSE <<Unreadable>>)

-----------------------------------------------------------------------------
\* p

Covering(a) == {f \in Fdes : f.begin <= a /\ a <= f.begin + f.size}

FrameBase_AtEntry(a) == rsp + 1   \* mutant: the row of the function's entry

\* findFrameInformation at a, where exactly one entry covers it.
FrameBase(a) == rsp + Frame[a].cfa

Result(outcome) == [outcome |-> outcome, addr |-> 0, len |-> 0]

\* Addresses from which the string's bytes can be read.
Mapped == Strings \cup StackWords \cup Inst

\* The string whose header is at the address: its length, then its pointer are checked,
\* a slice is made for it, and its bytes are read.
readString(address) ==
  LET strlen == mem[address + 1]
      addr   == mem[address]
  IN  IF ~Readable(address) \/ strlen >= SignBit \/ addr = 0
      THEN Result("refused")
      ELSE IF strlen > MaxAlloc
      THEN Result("crash")
      ELSE IF strlen > 0 /\ addr \notin Mapped
      THEN Result("refused")
      ELSE [outcome |-> "string", addr |-> addr, len |-> strlen]

\* Among the function's variables with the name the first decides that lies in the frame;
\* those elsewhere only yield a message, one without a location dereferences nil.
print(name) ==
  LET a == AdjustedPc
      variables == Functions[CHOOSE f \in findFunctionIncludePc(a) : TRUE].variables
      hits == {k \in DOMAIN variables : info[variables[k]].name = name
                                          /\ info[variables[k]].location # "other"}
      v == info[variables[Min(hits)]]
  IN  IF Cardinality(Covering(a)) # 1 \/ findFunctionIncludePc(a) = {}
      THEN Result("refused")
      ELSE CASE hits = {}                            -> Result("nothing")
             [] hits # {} /\ v.location = "none"     -> Result("crash")
             [] hits # {} /\ v.location # "none" -> readString(FrameBase(a) + v.num)

\* The process is let go where it is, which may be behind an INT3 that it has hit.
printCrashes ==
  /\ Prompt /\ CanPtrace
  /\ \E name \in Names : print(name).outcome = "crash"
  /\ dbg' = "crashed"
  /\ stat' = Released
  /\ hist' = NoCommand
  /\ UNCHANGED <<text, pc, stack, sigstop, bpVars, procs, locals>>

-----------------------------------------------------------------------------

analyse == InfoNext /\ UNCHANGED <<vars, order, frameVars>>

inspectExecute == execute /\ frameStep /\ UNCHANGED order

\* What a process does to its stack after godbg has ended is nobody's concern.
inspectOther ==
  /\ \/ ListCommand
     \/ /\ Proceed \/ threadEvent \/ environment \/ release \/ printCrashes
        /\ UNCHANGED order
  /\ UNCHANGED frameVars

\* The process is started, and the prompt shown, when the analysis is done.
debug ==
  /\ analysis = "done"
  /\ inspectExecute \/ inspectOther
  /\ UNCHANGED infoVars

InspectNext == analyse \/ debug

InspectSpec == InspectInit /\ [][InspectNext]_inspectVars

-----------------------------------------------------------------------------
(***************************************************************************)
(* Hypotheses of theorems: what bt and p take for granted of the compiled  *)
(* program and its debug information.                                      *)
(***************************************************************************)

\* Where control goes on in the function of a; a call comes back behind itself.
GoesOn(a) ==
  {d \in Inst : \/ Op[a] = "op" /\ d \in Dest[a]
                \/ Op[a] = "call" /\ d = ReturnAddress(a)}

Allocated(a) == Frame[a].size > 0 /\ Frame[a].cfa = Frame[a].size + 1

\* What the instructions need: a frame to use, and in it the saved frame pointer below the
\* return address and the string below that.  A call may come from anywhere, also from the
\* prologue, where nearly every Go function with a frame calls runtime.morestack.
UsesFrame(a) ==
  LET f == Frame[a]
  IN  /\ f.does # "none" => Op[a] = "op"
      /\ f.does = "alloc" => f.cfa = 1 /\ f.size > 0
      /\ f.ready \/ f.does \notin {"none", "alloc"} => Allocated(a)
      /\ f.does \in {"ptr", "len", "restoreBP"} => f.ready
      /\ f.does \in {"saveBP", "setBP", "free"} => ~f.ready
      /\ f.does \in {"ptr", "len"} => -f.cfa <= f.num /\ f.num <= -4
      /\ Op[a] = "ret" => f.cfa = 1
      /\ Op[a] = "call" => \A d \in Dest[a] : Frame[d].cfa = 1

\* What an instruction leaves to the one control goes on to.  An epilogue is nothing but
\* its three instructions.
LeavesFrame(a, d) ==
  LET f == Frame[a]
      g == Frame[d]
  IN  /\ g.size = f.size /\ g.num = f.num
      /\ f.does = "alloc" => g.cfa = f.cfa + f.size
      /\ f.does = "free"  => g.cfa = f.cfa - f.size
      /\ f.does \notin {"alloc", "free"} => g.cfa = f.cfa
      /\ g.ready <=> f.does = "setBP" \/ (f.ready /\ f.does # "restoreBP")
      /\ g.does = "setBP" => f.does = "saveBP"
      /\ g.does = "len"   => f.does = "ptr"
      /\ f.does = "restoreBP" => g.does = "free"
      /\ f.does = "free"      => Op[d] = "ret"

FramesAreGo ==
  /\ Frame[Entry].cfa = 0
  /\ \A a \in Inst : UsesFrame(a) /\ \A d \in GoesOn(a) : LeavesFrame(a, d)

\* The stack has room for MaxDepth frames.
StackFits ==
  \E bottom, top \in StackWords :
    /\ StackWords = bottom..top
    /\ \E words \in 1..top :
         /\ \A a \in Inst : Frame[a].cfa <= words /\ Frame[a].size < words
         /\ MaxDepth * words <= top - bottom

\* A call lies in a function, as a whole, and no row begins inside of it.
CallsAreInFunctions ==
  \A a \in Inst : Op[a] = "call" =>
    /\ \A i \in DOMAIN Rows : Rows[i].addr <= a \/ ReturnAddress(a) <= Rows[i].addr
    /\ \A debugInfo \in DebugInfos :
         LET functions == {e \in DOMAIN debugInfo : debugInfo[e].tag = "subprogram"}
             Has(e, b) == debugInfo[e].lowpc <= b /\ b < debugInfo[e].highpc
         IN  /\ \E e \in functions : Has(e, a)
             /\ \A e \in functions : Has(e, a) <=> Has(e, ReturnAddress(a) - 1)

\* A function's string has one name, and the place in the frame that the function uses; the
\* variables outside of functions are not in a frame.
StringsAreLocal ==
  \A debugInfo \in DebugInfos :
    LET variables == {v \in DOMAIN debugInfo : /\ debugInfo[v].tag = "variable"
                                               /\ debugInfo[v].location # "other"}
    IN  \A v \in variables :
          /\ debugInfo[v].owner # 0
          /\ debugInfo[v].location = "fbreg" =>
               /\ \A w \in variables :
                    /\ debugInfo[w].owner = debugInfo[v].owner
                    /\ debugInfo[w].name = debugInfo[v].name
                    => w = v
               /\ \A a \in Inst :
                    LET e == debugInfo[debugInfo[v].owner]
                    IN  e.lowpc <= a /\ a < e.highpc => Frame[a].num = debugInfo[v].num

\* From where the string is assigned on, control stays where one entry of the frame table
\* applies: it does not come back to the first instruction of the function, to which the
\* entry of the function before may apply as well.
IsCovered(body) ==
  /\ \A a \in body : Cardinality(Covering(a)) = 1
  /\ \A a \in Inst : a \in body \/ Frame[a].does = "ptr" => GoesOn(a) \subseteq body

StringsAreShort == \A s \in Strings : LenOf[s] <= MaxAlloc /\ LenOf[s] < SignBit

Inspects == Prompt /\ CanPtrace /\ analysis = "done"

\* The instruction that pushed the return address.
CallOf(ret) == CHOOSE a \in Inst : Op[a] = "call" /\ ReturnAddress(a) = ret

\* Where the k-th activation is: at control, or behind the call of the activation inside.
Where(k) == IF k = 1 THEN Control ELSE stack[k - 1]

\* bt shows where control is and then calls that active functions were called by, innermost
\* first, each under its function, with the lines of the call and not of what follows it.
\* It shows nothing else, and it leaves out none of an activation whose rbp points to its
\* frame, whatever calls were made from prologues and by functions without a frame.
BtShowsCallers ==
  Inspects =>
    /\ bt[1] = Position(Control)
    /\ \E shown \in [1..(Len(bt) - 1) -> DOMAIN stack] :
         /\ \A i, j \in DOMAIN shown : i < j => shown[i] < shown[j]
         /\ \A i \in DOMAIN shown : bt[i + 1] = Place(CallOf(stack[shown[i]]))
         /\ \A k \in DOMAIN stack :
              Frame[Where(k)].ready => \E i \in DOMAIN shown : shown[i] = k

\* "print the variable": once the innermost activation has assigned its string, p prints
\* that string, whatever other activations of the function hold theirs, and from every
\* instruction on until the activation returns (findFrameInformation's row, the adjusted
\* pc, the variable's offset and the order of the two words).
PrintsOwnString ==
  Inspects /\ assigned[1].len # 0 =>
    \A v \in 1..Len(info) :
      /\ info[v].tag = "variable" /\ info[v].location = "fbreg"
      /\ \E f \in findFunctionIncludePc(Control) : Functions[f].entry = info[v].owner
      => print(info[v].name) =
           [outcome |-> "string", addr |-> assigned[1].ptr, len |-> assigned[1].len]

\* Until godbg panics in p, the program executes only what it would without a debugger.  A
\* process that p's panic lets go may be inside an instruction.
TransparentUntilPanic ==
  P!Init /\ [][dbg # "crashed" => P!Next \/ UNCHANGED P!progVars]_vars

(***************************************************************************)
(* What the help says of bt and the code does not keep.                    *)
(***************************************************************************)

\* "show call stack": bt shows the call of every active function (bt goes by rbp, which in
\* a prologue, in an epilogue and in a function without a frame is that of a caller).
ShowsCallStack ==
  Inspects =>
    bt = <<Position(Control)>> \o [k \in DOMAIN stack |-> Place(CallOf(stack[k]))]
=============================================================================
