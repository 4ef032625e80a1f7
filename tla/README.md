# godbg in TLA+

A verification project for godbg, a small source-level debugger for Go programs on
linux/amd64. The modules are translated from the Go sources (package `main`, and `log`),
are model-checked with TLC on small programs, and the properties that matter most are
proved with TLAPS for every program.

## 1. The system

godbg builds a Go file, reads the DWARF sections of the executable, starts it under
ptrace and executes the commands typed at a prompt, one at a time and in one thread. The
only thing that runs beside it is the traced process, which moves while a command waits
for it (`wait4`), which the kernel may stop with a signal, and which may die at any time.

| Part | Source | State | Operations | Correct when |
|---|---|---|---|---|
| Command executor | `prompt.go`, `register.go`, `target.go` | `target.cmd` (the process, or nil), the locals of a running command | b, bc, c, s, n, r, q, disass; read-only: bl, bt, l, p, h | commands stop where they say, make progress, return, and never disturb the program |
| Breakpoint table | `breakpoint.go` | `bp.infos`: address, saved byte, kind | set, clear, find, enable, disable, step over, set after restart | memory holds INT3 exactly where the table says; saved bytes are the program's |
| Traced process (external) | seen by `preparations.go`, `register.go` | code bytes, pc, stack, run state, pending signals | continue, single-step, poke, peek, get/set registers, wait4 | – |
| Line table | `bininfo.go` | `bi.Sources`: file, line → rows | address for a breakpoint, line of an address | the line is one with a row at the closest address below |
| Call frame information | `bininfo.go`, `frame.go`, `cfa.go` | `bi.FramesInformation`; a `Frame` during a lookup | read the section, LEB128, call frame instructions, find the frame base | the frame base is the canonical frame address of the function at pc |
| Functions and variables | `bininfo.go` | `bi.Functions`, `CompileUnits` | walk over the entry tree | every variable under its own function |
| p and bt | `prompt.go` | none | read a string variable, walk the rbp chain | p prints the innermost activation's string, bt calls that control came through |
| Disassembly | `disassemble.go` | none | decode with the original bytes, mark the current instruction | patched bytes never show, the arrow is at control |
| Source listing | `list.go` | none | print a window of lines | the window is complete and contains the line asked for |
| Session | `main.go`, `preparations.go` | the executable at its path, `target.execFile`, `target.bi` | check arguments, build, analyse, start, prompt, restart, quit, return | a run works on its own build and removes it when main is left |
| Completion, messages, opcode table, logging | `prompt.go`, `error.go`, `dwarf_op.go`, `log/log.go` | none | – | – |

How they interact. The executor calls the table, the table pokes the process, both read pc
through `target.cmd`. b turns a line into an address with the line table; s, n and the
listing turn pc back into a line. p asks the frame information for the frame base and the
function list for the variable, bt the function list for each caller, and disass the table
for the original bytes. r and the end of the process change what `target.cmd` is, while the
table lives on. Separate runs of godbg share nothing but the temporary directory.

What is hard here:

* An INT3 moves pc one byte on, so "a breakpoint was hit" is deduced from pc-1 alone, and
  every command has to move pc back before it resumes the thread.
* The byte under a breakpoint is original only while that instruction is stepped over;
  putting INT3 back is deferred to the return of the command, on every path.
* Between a resume and its wait anything may come: SIGURG from the Go scheduler instead of
  the trap, another signal, an exit, a kill. The three waits accept different things.
* n follows calls by address; s and n compare lines that the line table gives only
  ambiguously, through maps of random order.
* Long sequences of legal commands: breakpoints set, hit, cleared while control is on
  them, a restart, then again.
* bt, p and disass read a process that was stopped anywhere: behind an INT3, in a prologue
  where rbp still is the caller's, in a recursive activation, in a function without a frame.
* The walk over the entry tree is not told where a function ends.
* Two runs for files of one name build to one path, and each opens it three times (analyse,
  start, r); q, a signal and a panic leave in different ways.
* Boundaries: entries of the frame table share an address, rows end exactly at pc, a file
  ends without a newline, numbers wrap at 64 bits.

`PROJECT.json` lists each such hazard at its line, with the properties aimed at it.

## 2. The modules

| Module | Models | Lines |
|---|---|---|
| `Code` | the executable: instruction addresses, lengths, kinds, and what each instruction may do (external) | – |
| `Program` | **abstract specification**: the program running without a debugger | – |
| `Tracee` | the traced thread as ptrace and wait4 show it: code bytes, INT3, single-step, signals, death, and what it does after godbg has ended (external) | – |
| `LineTable` | `bi.Sources`, `fileLineToPcForBreakPoint`, and what `pcTofileLine` may return | bininfo.go 188-206, 488-564 |
| `LineSearch` | the search `pcTofileLine` makes, row by row in any map order; implements `LineTable!pcTofileLine` | bininfo.go 526-564 |
| `BreakPoint` | `bp.infos`, the pokes, the step back, the deferred enables | breakpoint.go |
| `Executor` | composes the above: every command and every segment between two waits | prompt.go, register.go |
| `Leb128` | `DecodeULEB128`, `DecodeSLEB128`, and the numbers DWARF means | frame.go 116-185 |
| `Cfa` | the interpreter of call frame instructions, one action per opcode | cfa.go |
| `FrameTable` | `ParseFrameSection` and `findFrameInformation`, on top of `Cfa` | bininfo.go 287-457, frame.go |
| `BreakPointList` | `bp.infos` as a slice, with the numbers of bl and bc n, on top of `Executor` | breakpoint.go, prompt.go 49-117 |
| `Info` | the walk over `.debug_info` that fills `bi.Functions` and `bi.CompileUnits`, and `findFunctionIncludePc` | bininfo.go 136-294 |
| `Disassemble` | disass, on top of `BreakPointList` and `Info` | disassemble.go |
| `Inspect` | bt and p, on top of `Disassemble`; the stack the traced program builds (external) | prompt.go 142-207, 530-613 |
| `Listing` | l and the listing of c, s and n, on top of `LineSearch` | list.go, prompt.go |
| `Session` | runs of godbg from arguments to end | main.go, preparations.go, bininfo.go 42-96 |
| `MCExecutor`, `MCLineSearch`, `MCFrameTable`, `MCInspect`, `MCSession` | the programs, tables, sections, files and runs TLC checks | – |
| `ExecutorProofs`, `ProgressProofs`, `ListingProofs`, `FrameTableProofs`, `SessionProofs`, `InspectProofs`, `StackProofs`, `DataInduction` | theorems | – |

### State and actions of `Executor`

`text` (code bytes), `pc`, `stack`, `stat` and `sigstop` are the process. `stat` is its run
state: `stopped`, `running`, `stepping`, an event wait4 has not yet reported (`trap`, `urg`,
`other`, `exited`, `killed`), `gone`, or `loose`. The child is started with `Ptrace` and
`Setpgid` only (preparations.go:64), so a process that is stopped when godbg ends is neither
killed nor kept: the kernel lets it go and it runs on as it is, `loose`, on the bytes the
debugger has left in it. An INT3 then ends it. `infos` is the table and `deferred` the
outstanding `defer bp.enableBreakPoint`. `pid` is `target.cmd.Process` (0 for nil) and `newest`
the process started last; they differ because r keeps the new process in a local variable.
`dbg` is where the executor is; `oldline`, `calling` and `fall` are the locals of s and n.
`hist` is a history variable used only by properties.

A command that ends at once is one action: `SetFileLineBreakPoint` (b), `bclear` (bc),
`restart` (r), `disassWithoutProcess` (the crash of disass), `quit` (q), `refused` (c, s, n
without a traceable process). A command that resumes the process is cut at its waits, the
only places where the thread moves:

* c: `continue`, `continueStepped` (after the step over a breakpoint), `continued`.
* s: `step`, then `stepArrived` or `stepOn` and `stepWaited`, in a loop.
* n: `next`, then `nextTrapped`, `nextInCall`, `nextCallDone`, `nextAtCall`, `nextOn` or
  `nextUndecoded` (x86asm does not know the instruction), and `nextWaited`, in a loop.
* s and n: `stepEnded` (exit or another signal at a wait), `foundDead` (a request fails).

Each action contains the calls the code makes there, the deferred calls included. `execute`,
`threadEvent`, `release` (a loose process) and `environment` are the thread, the kernel and the
rest of the world: `Die` may happen at any time, signals whenever the thread has been resumed.

### State and actions of `FrameTable`

`unread`, `curCIE` and `FramesInformation` are the reading of the section, one entry per
action. `findFDE` starts a lookup, or `notFound` ends it; then the CIE's and the FDE's
instructions are executed one by one (`buf`, `loc`, `cfa`, `regsRule` are the `Frame`), until
the row being built starts beyond the address; `frameBase` adds the register. An opcode
without a case ends the lookup with an error. `parseCut` is an entry that ends before its
fields do: every error of `parseFrameInformation` is `io.EOF`, which the loop takes for the
end of the section (bininfo.go:345), so `unread` keeps the rest for ever and lookups go on
with what was read. Only `parseShort` ends the program: an entry too short for the fields
that are indexed and not read (frame.go:195, 234).

### State and actions of `Info`, `Disassemble` and `Inspect`

`info` is the section, the entries of the tree in preorder, and `at` how far the reader has
come. There is one action per tag the walk looks at (`walkCompileUnit`, `walkSubprogram`,
`walkVariable`, `walkOther`), `walkFails` for an entry that cannot be read, and `walkEnds`.
`owner`, the function an entry belongs to, is what the walk does not know; only the property
uses it. The walk crashes on a variable before the first function, on a function before the
first compile unit, and on a unit without a line table.

`Inspect` gives the executor's process `rsp`, `rbp` and the words of its stack, `mem`.
Each `execute` of the executor is conjoined with `frameStep`, what the instruction does to
them (external: calls push, returns pop, a prologue saves and sets rbp, a body writes the
pointer and the length of its string). `assigned` is a history variable: what each
activation has assigned. bt, p and disass change nothing, so they are operators (`bt`,
`print`, `listDisassembleByPtracePc`) that a property evaluates in every state with a prompt
and a stopped process; that p may panic is the action `printCrashes`, after which the
process is loose and may be one byte behind an INT3. The debugger starts
(`debug`) when the walk is done.

### State and actions of `Listing`

`LineSearch` runs first, as it does for a listing. `listFileLineByPtracePc` and
`listUserLine` (any line and range, also negative ones) start a listing; `readLine` reads a
line and keeps it when it is in the window, `readFails` meets one the buffer cannot hold,
`print` ends the loop at the end of the window or of the file.

### State and actions of `Session`

Per run: `stage`, `execFile` (the path is known and its removal deferred), `bi` (whose build
was analysed) and `started` (whose builds were started); per base name: `disk`, whose build
lies at the path. One action per stage, each with its error exits: `checkArgs`,
`absoluteFilename`, `build`, `analyze`, `runexec`; at the prompt `restart`, `quit`,
`promptEnds`; `leave`, where the deferred removal runs, and `kill`. `met` is a history
variable: another run for the same base name was active at the same time.

### Abstractions

* One thread. A second thread of the process shows only as a death or a signal at any time.
* In `Executor` the stack is the sequence of return addresses. `Inspect` has its words, of
  eight bytes each; other data in memory is left out. The row of the frame table is a
  constant there, since `FrameTable` says which it is.
* A source line stands for file and line. The file name typed by the user and the working
  directory are resolved into it.
* In `Executor` the table is a set. An entry's address is unique, and `bc n` names one user
  entry, so `bclear` may remove any. `BreakPointList` restricts b and bc to what they do to
  the slice (`append`, `clearAll`, `clearNth`); its `order` is the slice's addresses. INTERNAL
  breakpoints are never created.
* Of the calls made within one segment only the first request can fail, with the whole
  command refused; the death of the process between two requests of a segment is seen at
  the next one.
* The parts of a command line and its printing are left out, with these exceptions: that a
  command shows a line is recorded in `hist.outcome`; what l, bt, p and disass show is what
  their properties are about, without its layout.
* The bytes of an instruction are its first byte, original or INT3; where decoding lands
  between instructions disass shows `misread`.
* What the walk puts into `bi.Sources` is the constant `Rows`.
* A build is identified with the run that made it, a path with the base name it is made of.
* Frame instructions come decoded but for the LEB128 operand, on which the result depends.
  `.zdebug_frame` and its decompression are left out.

## 3. The runs

| Run | Question | Instance |
|---|---|---|
| `safety` | do table and memory agree, is control explained, does the program run as if untraced, do c, s, n make progress and stop where they should | `Calls`: a loop, a call in the middle of a line, a callee with a prologue; four lines to break at, one without code; SIGURG and another signal; one restart; q that does not exit |
| `liveness` | does every command return | `Straight`: the same without the loop |
| `linesearch` | is the closest row found in every map order, and what does l print around a line | interrupted lines, rows out of order, two lines at one address, gaps; files with and without a final newline, with a line too long before, in or behind the window; lines and ranges that are negative, zero and beyond the file |
| `frames` | is the frame base the CFA of the row, from the function's own entry | adjacent functions, two CIEs with different factors, every opcode, operands of 1-3 bytes at 16-bit integers, an FDE without CIE; a truncated entry before, between and behind the others, one that is too short |
| `inspect` | do bt, p and disass show what is there, wherever the process has stopped; does the program run as if untraced until p panics | a recursive function with a frame, a string and a call of the runtime in its prologue, a leaf without a frame directly behind it; two lines to break at; five debug sections, four of which end the analysis |
| `session` | whose build does a run work on, and who removes it | three runs, two for files of one name |
| `restart`, `panic`, `noprocess`, `onebyte`, `recursion`, `callers` | disagreements, see below | the smallest program showing each |

Properties of `safety`:

* `PatchedIffListed` – while the process lives, INT3 is exactly at the listed addresses that
  no running command has taken out.
* `ControlExplained` – pc is at an instruction or one byte behind a listed INT3, and at an
  instruction whenever the thread is resumed.
* `TrapIsBreakPoint` – the SIGTRAP c waits for is a listed breakpoint's.
* `Transparent` – refinement: the debugged program implements `Program`. Nothing the user
  types makes it skip, repeat or split an instruction, also in a process that q or a nil
  dereference of r or disass leaves behind. What such a process may do, and `Program` allows,
  is to die, of an INT3 still in it. The one exception is a panic of p, which `Executor`
  does not have; see `TransparentUntilPanic`.
* `ContinueStopsAtBreakPoints` – c runs past no breakpoint: the only one whose instruction it
  executes is the one it was stopped at, as its first.
* `ContinueLeavesBreakPoint` – c from a breakpoint executes the instruction under it before
  it stops again, also when SIGURG interrupts the step over it.
* `NextNotDeeper` – n shows no line in a deeper call (unless a breakpoint was hit there).
* `NextExecutes` – n shows a line only after something was executed. Two cases are excepted,
  in which it does not: the line was reached by stepping and its INT3 is still armed, and
  SIGURG came instead of the single-step's trap.
* `StepExecutes` – s shows a line only after something was executed.

Properties of `linesearch`: `FindsClosestRow`, the search implements `pcTofileLine`;
`ListsWindow`, what is printed are the lines of the window, in order, with the arrow at the
line asked for, and of the lines that end with a newline none is missing. Whether a
last line without one is shown is left open; list.go does not show it (section 4).

Properties of `frames`: `CfaOfRow`, the frame base is the CFA of the row DWARF defines; and
`FrameIsOwn`, the entry used is that of the function at the address. The latter has one
exception, which the truncated sections reach: at the first address of a function whose own
entry was never read the entry of the function before is the only match, for its upper bound is
inclusive.

Properties of `inspect`:

* `BtShowsCallers` – bt shows control and then calls of active functions, innermost first,
  each at its call and under its function. It shows nothing else, and it leaves out no call
  of an activation whose rbp points to its frame. Which others it shows is left open; that it
  leaves some out is a disagreement (`ShowsCallStack`, below).
* `PrintsOwnString` – once the innermost activation has assigned its string, p prints that
  one, at every instruction until the activation returns.
* `ListIsTable` – bl shows every address with a breakpoint under one number, and no other.
* `VariablesAreOwn` – every variable of a function is kept under that function and no other.
* `DisassemblyIsProgram` – whatever breakpoints are set or hit, disass shows the function's
  instructions, each once, in order, with the original bytes and the right flags.
* `ArrowAtControl` – the arrow is where the program goes on, except that the last instruction
  of a function gets none.
* `TransparentUntilPanic` – as `Transparent`, up to a panic of p. The process that one lets
  go may stand behind an INT3 it has hit, and then goes on inside an instruction.

Properties of `session`: `RunsOwnBuild`, a run that has overlapped with no other for its base
name analyses and starts its own build, whatever earlier runs have left; and
`ReturnRemovesBuild`, when main has returned or panicked its build is gone. Runs that overlap
may analyse one program and start another: `RunsOwnBuild` has no more to say of them, because
nothing in the repository does.

Bounds. `MaxDepth = 2` return addresses: a call inside a call is one level more than any
command distinguishes (n compares addresses, not depths); `recursion` and `inspect` use 3, so
that three activations of a function can be on the stack with two different strings, and
`inspect` has the 16 stack words these need. `MaxProcs = 2`: r is interesting once, when the
new process is not taken over; it is 1 in `inspect`, where r is no matter, and then restart can
only fail. `inspect` has one signal, and no SIGURG, which `safety` has, and TLC compares its
states by `WithoutHistory`: `hist` steers nothing and no property of `Inspect` reads it.
Addresses, lines and instruction lengths are those of the programs: lengths 1 and 2 are the two
cases the code tells apart, since it looks at pc and pc-1. `hist.ran` counts to 2. `Width = 16`
in `frames` stands for 64: operands reach and pass the width, as ten bytes do at 64. `MaxAlloc
= 99` in `inspect` separates lengths from addresses, which are larger, read as lengths. Three
sessions are two that collide, one that does not, and a third that starts when one of the
former is over.

Deadlock is not checked where the system ends: the process may have exited when q or a panic
ends the debugger, a section may end the analysis, all runs may be over. It is checked in
`linesearch`, where the user can always ask for another line.

Fairness (`FairSpec`, for `CommandReturns`). Weak fairness of `Proceed`: the executor is
straight-line Go code that goes on whenever a wait has something to report. Weak fairness of
`Thread`: the kernel schedules a runnable thread. None on the commands (the user may stop
typing), on signals or on death. Without fairness of the thread c would never return; with
it, c returns because the program ends. On a program that loops for ever c rightly may not
return, hence the separate instance. It has the signal that ends s and n, and leaves SIGURG
out: s and n take it for a completed single-step and step the same instruction again, so
one that came before every instruction would keep them for ever, and no fairness of the
code rules that out. The other signal may come at any time, and so may death.

## 4. Disagreements found

Each is the only property of a run that TLC must find violated.

* `RestartTakesOver` – r starts a process but `target.cmd` stays the old one
  (prompt.go:508). All later commands work on the old process.
* `NeverPanics` – r and disass after the end of the process dereference nil
  (prompt.go:513, 524).
* `NoProcessMeansNone` – c forgets a process that only stopped at a signal (prompt.go:240),
  such as the SIGSTOP r has sent.
* `CommandReturns` on `OneByte` – s, started on a breakpoint over a one-byte instruction,
  executes it for ever (prompt.go:291).
* `NextNotDeeper` on `Recursive` – n over a recursive call stops in a deeper activation
  (prompt.go:396).
* `ShowsCallStack` – bt starts at rbp, which in a prologue, an epilogue and a function without
  a frame is a caller's, and the direct caller is missing (prompt.go:174).

Other things the code does, which are actions of the models and contradict the help only in
a corner, or nothing at all:

* s goes on to the next line (`step`, `stepOn`), where error.go:35 says 'step one
  instruction'. `StepExecutes` asks for one at least.
* l does not show the last line of a file that does not end with a newline, even when it is
  the line asked for (`print` in `Listing`; list.go:55), where error.go:37 says 'show the code
  for specific the line of filename'. `ListsWindow` holds with it and without.
* p is refused with 'dumplicate fde' at the first instruction of a function that directly
  follows another, which two frame entries cover (`notFound`; bininfo.go:368).
* p of a string that is not assigned yet makes a slice as long as the stack says, and may
  panic (`printCrashes`; prompt.go:601).
* The walk crashes on a package-level variable before the first function (`walkVariable`).
* A line longer than the reader's buffer empties the whole listing (`readFails`).
* q and a signal leave the executable behind (`quit`, `kill`).

## 5. The proofs

For every program, line table, set of lines and number of restarts:

* `TypeCorrect`: `Spec => []TypeOK`.
* `Invariant`: `Spec => []IInv`, where `IInv` is `TypeOK` and `Consistent`. The properties are
  not inductive by themselves: that memory agrees with the table is kept by a step only if
  the saved bytes are the program's, if `deferred` is empty at the prompt and contains only
  listed addresses, if what runs is what the location `dbg` says it is, and if an INT3 can
  only be executed where it is listed. `Consistent` collects these facts.
* `CodeMatchesTable`, `ControlIsExplained`, `TrapsAreBreakPoints`: the three safety
  properties above, from `IInv`.
* `DebuggerIsTransparent`: `Spec => Transparent`, the refinement. Under `IInv` every command
  step leaves `Control` alone or moves pc back to it, executing an instruction is
  `P!Execute`, executing INT3 is a stutter, dying is `P!End`.
* `ContinueLeaves`, `ContinueStops`, `NextTakesAStep`: the properties of the same subjects.
  They need `PInv`, which adds to `IInv` what the history says in the middle of a command:
  the step over a breakpoint has executed exactly its instruction when it traps, and as
  long as n has executed nothing, control is at the call it saw or a trap is a breakpoint's.
* `StepTakesAStep`: `Spec => []StepExecutes`, from `PInv` and that s, as long as it has
  executed nothing, is on the line it began on. It has a second hypothesis, `OneLine`: rows
  with the same address have the same line, and no row starts at the byte behind a breakpoint's
  INT3. Where two lines share a row's address, the map order can show s another line without a
  step of the program (bininfo.go:541).
* `NextStaysLevel`: `Spec => []NextNotDeeper`, under `NoRecursion`: the addresses can be given
  levels such that a step inside a function never lowers the level and a callee is above the
  address its call returns to. Then the address n waits for can be reached only at the depth n
  began at, or above; `DepthInv` says so at every point of the command: what runs is the
  function n was typed in, or a callee of higher level on top of it, or n has left its
  function. For recursive programs the property is false (run `recursion`).

All but `TypeCorrect` assume `BreakableIsLong`: no breakpoint is put on a one-byte
instruction. The code relies on this without checking it. The hypothesis is needed: behind a
one-byte instruction pc-1 is its address although no INT3 has been executed, and the code
would move control back (the run `onebyte` shows it).

* `SearchCorrect`: `SearchSpec => []FindsClosestRow`, for every line table and map order. The
  invariant: no row passed so far is closer to pc than `rangeMin`, and `rangeMin` is a row.
* `Listings`: `ListingSpec => []ListsWindow`, for every file, line and range. The invariant
  `ListInv`: the slice holds, in order, the lines of the window that have been read, and
  printing comes when the window or the lines that end with a newline are exhausted.
  `ListedLineIsClosest`: the search keeps its types and its result under a listing.
* `FrameOfFunction`: `FrameSpec /\ FunctionsHaveEntries(section) => []FrameIsOwn`: the property
  of every lookup in a section that has an entry for each function and no other entry that
  reaches into one, wherever the reading of it has stopped and whatever the other sections
  are. The invariant: what has been read corresponds entry by entry to a first part of the
  section and `unread` is the rest, and during a lookup the entry found is the only one that
  covers the address.
* `UnsignedDecoded`, `SignedDecoded`: the LEB128 decoders, which shift and add in integers of
  `Width` bits, yield the encoded number modulo 2^`Width`, for every width and encodings of
  every length. By induction over the digits.
* `FrameTypes`: `FrameSpec => []FrameTypeOK`; the numbers stay within the width because every
  operand is decoded to one that does.
* `FrameBaseOfRow`: `FrameSpec => []CfaOfRow`, under `FramesAsExpected` (each FDE uses the
  CIE before it, and its rows stay in the address space). The interpreter stops at the
  first instruction beyond the address; the invariant is that what it has executed so far is a
  prefix of what the row is made of, with the same registers.
* `SessionTyped`, `OwnBuild`, `BuildRemoved`: for every set of runs and naming of their
  files. The invariant adds that two runs which may both use a path have met
  (`MeetingsAreSeen`), and that a run's build lies only at its own path, only after its
  removal was deferred (`BuildsAreTheirs`).
* `ListHolds`: `InspectSpec => []ListIsTable`. The invariant adds that an address has one
  entry in the set.
* `VariablesFound`: `InspectSpec => []VariablesAreOwn`, for every well nested section. The
  invariant `WalkInv`: the functions kept are those met so far, in the order of their
  entries, so the last one owns whatever owned entry comes next.
* `DisassShowsProgram`: `InspectSpec => []DisassemblyIsProgram`. `DisassDecodesProgram` says
  that the byte disass decodes at an instruction is the program's; by induction over the
  bytes that are left, decoding from an instruction on yields the instructions behind it in
  order (`DecodedEquation`, `DisassembleCovers`). Besides `BreakableIsLong` it needs
  `FunctionsAreCode`: a function's range is covered by instructions without a gap.
* `ArrowShowsControl`: `InspectSpec => []ArrowAtControl`, from the same two hypotheses.
* `InspectingIsTransparent`: `InspectSpec => TransparentUntilPanic`: with the analysis before
  the commands and with bt, p and disass among them, up to a panic of p. The invariant
  `UntilPanic` is `IInv`, or that p has panicked and the process is let go.
* `InspectTyped`, `CallersShown`, `StringPrinted`: `InspectSpec` implies `[]InspectTypeOK`,
  `[]BtShowsCallers` and `[]PrintsOwnString`, for every program that uses its stack as Go's
  compiler makes it. The three need to know where every activation lies, also those that wait
  for a call, so the invariant `StackOK` gives each a CFA, `base[k]`, and `found[k]`, the frame
  pointer it found when it was called. It holds until godbg ends (`UntilEnd`); what a process
  does after that is not described. It says that the CFAs differ by the frames' sizes and that
  what an activation found is its caller's frame pointer where the caller is ready, and what
  the caller found where it is not (`Outer`); that below `base[k]` are the return address and,
  once the prologue has stored it, `found[k]` (`FrameOK`), that the string it has assigned is
  in its own frame, that rbp is the innermost ready frame's (`Inner`), and that below each
  activation there is room for the calls it may still make (`IsRoom`). A step writes only
  between rsp and `base[1]`, below everything the others know (`OuterFrames`); a call adds an
  activation (`CallPushes`), whether it is made from a body or a prologue, a return takes one
  away and finds what it needs in memory (`ReturnPops`). From the invariant, bt: its recursion
  along the frame pointers visits the activations whose rbp points to their frame, in order,
  and ends at 0 (`ChainOfFrames`, by induction), before the bound on its length (`ChainFits`),
  and ret-1 lies in the call (`CallIsShown`). And p: the header is where the CFA and the
  variable's offset say (`OwnHeader`), and among the variables with the name only the one in
  the frame decides (`NameDecides`, from `WalkInv`).

The assumptions of the modules (`CodeAssumption`, `RowsAssumption`, ...) say that instructions
do not overlap, calls return to instructions, rows lead to instructions, and that entries have
their fields; TLC evaluates them in every run. The further hypotheses are stated in the
theorems and not assumed by the modules; TLC evaluates `FramesAsExpected` (`SectionsAsExpected`
in `MCFrameTable`), `FunctionsHaveEntries` (`EntriesOfFunctions` there, for all but the two
broken sections), `BreakableIsLong` (`PatchesFit`, for all but the one-byte program), `OneLine`
(`LinesAreTold`), `NoRecursion` (`CallsAreLevelled` in `MCExecutor`, for all but the recursive
program) and `FunctionsAreCode` (`FunctionsAreTiled` in `MCInspect`) for the programs of the
runs, so none of them is empty. What bt and p take for granted of the compiler and its debug
information are the hypotheses at the end of `Inspect`: `FramesAreGo` (the order of prologue,
body and epilogue, which instructions need a frame, and that the distance of the CFA follows
rsp; calls may stand anywhere but inside an epilogue, so the call of `runtime.morestack`, made
in nearly every prologue before rbp is set up, is covered), `StackFits` (room for `MaxDepth`
frames), `CallsAreInFunctions`, `StringsAreLocal`, `StringsAreCovered` (one frame entry applies
where a string may have been assigned; at a function's first instruction two may) and
`StringsAreShort` (p does not allocate more than it can). TLC evaluates them as `ProgramIsGo`
in `MCInspect`.

Induction over data. The library's induction theorems take an operator as a parameter, which
none of the provers can instantiate. `DataInduction` states induction with a set in its place
(`Induction`, `MeasureInduction`, from `LeastNumber`), proves that a recursive function over the
naturals exists (`RecursionExists`) and, from these, what the modules need of finite sets, sums and
powers of two.

Only model-checked: liveness, which is out of this prover's reach (`CommandReturns`). Every
other property a passing run checks is a theorem.

No module uses a RECURSIVE operator.

## 6. Not modelled, and the plan

Modelled first: control of the process, because everything the user does depends on it and
it is where interleavings matter. Then the lookups it relies on, the commands that read, and
the life of a run. What is left, in order:

1. The byte layout of frame entries, the choice between `.debug_frame` and `.zdebug_frame`
   and the decompression.
2. A second traced thread that runs into an INT3 nobody waits for. The process dies of it;
   today's `Die` covers the consequence and not the cause.

Left out for good: completion and `entryPointFromAuxvAMD64`, `fileLineToPc`, `locToPc` and
`tryCuttingFilename` (no state, no caller), messages, the table of opcodes, logging, and
go-prompt, zap, x86asm and debug/dwarf, which are libraries.
