----------------------------- MODULE FrameTable -----------------------------
(***************************************************************************)
(* The call frame information of the executable: how ParseFrameSection     *)
(* reads .debug_frame into FramesInformation, and how findFrameInformation *)
(* computes the frame base at an address for p (bininfo.go, frame.go).     *)
(*                                                                         *)
(* An entry of the section is a CIE, an FDE, or one that ends early: "cut" *)
(* is a CIE that ends inside its header, "short" an entry without a        *)
(* version byte or without an address range.  An FDE points to its CIE;    *)
(* the code does not read that pointer and takes the CIE that came last.   *)
(***************************************************************************)
EXTENDS Cfa

CONSTANTS
  Sections,   \* the frame sections considered: sequences of entries
  Addrs,      \* the addresses looked up
  Functions,  \* bi.Functions: their ranges [lowpc, highpc]
  regs        \* frame.regs, the registers of the stopped process: 6, 7, 16, the others 0

Instruction == [op : STRING, reg : Nat, operand : Seq(0..255) \ {<<>>},
                delta : Nat]

CIEEntry ==
  [kind : {"cie"}, code_alignment_factor : Nat, data_alignment_factor : Int,
   instructions : Seq(Instruction)]
FDEEntry ==
  [kind : {"fde"}, CIE : Nat, begin : Nat, size : Nat, instructions : Seq(Instruction)]
Entry == CIEEntry \cup FDEEntry \cup [kind : {"cut", "short"}]

ASSUME FrameAssumption ==
  /\ Sections \subseteq Seq(Entry)
  /\ Addrs \subseteq Nat
  /\ regs \in [0..16 -> Uint]
  /\ \A f \in Functions : f.lowpc \in Nat /\ f.highpc \in Nat

VARIABLES
  section,             \* the section that was chosen
  unread,              \* the entries that have not been read into FramesInformation
  curCIE,              \* the position of the last CIE, 0 before the first
  FramesInformation,   \* the entries read; an FDE has got its CIE
  stage,               \* where the program is
  address,             \* findFrameInformation: the argument pc
  fde,                 \* findFrameInformation: the position of the FDE found
  found                \* the result of the last lookup: [outcome, base]

frameVars ==
  <<cfaVars, section, unread, curCIE, FramesInformation, stage, address, fde, found>>
lookupVars == <<cfaVars, address, fde, found>>
tableVars  == <<section, unread, curCIE, FramesInformation>>

Outcomes == {"none", "frame", "not find", "dumplicate", "no cie", "unknown byte",
             "invalid cfa", "no registers"}

FrameTypeOK ==
  /\ CfaTypeOK
  /\ section \in Sections
  /\ stage \in {"parse", "crashed", "ready", "cie", "fde", "base"}
  /\ curCIE \in 0..Len(section)
  /\ address \in Nat
  /\ fde \in 0..Len(section)
  /\ found \in [outcome : Outcomes, base : Uint]

Nothing == [outcome |-> "none", base |-> 0]

FrameInit ==
  /\ section \in Sections
  /\ unread = section
  /\ curCIE = 0
  /\ FramesInformation = <<>>
  /\ stage = "parse"
  /\ address = 0
  /\ fde = 0
  /\ found = Nothing
  /\ buf = <<>>
  /\ loc = 0
  /\ cfa = [reg |-> 0, offset |-> 0, rule |-> "undefined"]
  /\ regsRule = [r \in Reg |-> [offset |-> 0, rule |-> "undefined"]]

-----------------------------------------------------------------------------
\* ParseFrameSection

Reading(kind) ==
  /\ stage = "parse"
  /\ unread # <<>>
  /\ Head(unread).kind = kind
  /\ UNCHANGED <<lookupVars, section>>

Read(entry) ==
  /\ FramesInformation' = Append(FramesInformation, entry)
  /\ unread' = Tail(unread)

parseCIE ==
  /\ Reading("cie")
  /\ Read(Head(unread))
  /\ curCIE' = Len(FramesInformation) + 1
  /\ UNCHANGED stage

parseFDE ==
  /\ Reading("fde")
  /\ Read([Head(unread) EXCEPT !.CIE = curCIE])
  /\ UNCHANGED <<stage, curCIE>>

\* Every error of parseFrameInformation is EOF, which the loop takes for the end of the
\* section: the entries from here on are never read, and lookups do without them.
parseCut ==
  /\ Reading("cut")
  /\ stage' = "ready"
  /\ UNCHANGED <<unread, curCIE, FramesInformation>>

\* The entry is indexed beyond its end.
parseShort ==
  /\ Reading("short")
  /\ stage' = "crashed"
  /\ UNCHANGED <<unread, curCIE, FramesInformation>>

parseEnd ==
  /\ stage = "parse"
  /\ unread = <<>>
  /\ stage' = "ready"
  /\ UNCHANGED <<lookupVars, tableVars>>

-----------------------------------------------------------------------------
\* findFrameInformation

\* bi.Functions do not overlap, so their order does not matter.
findFunctionIncludePc(a) == {f \in Functions : f.lowpc <= a /\ a < f.highpc}

IsFDE(i) == FramesInformation[i].kind = "fde"

\* The upper bound is part of the entry.
InFDE(i, a) ==
  /\ IsFDE(i)
  /\ FramesInformation[i].begin <= a
  /\ a <= Wrap(FramesInformation[i].begin + FramesInformation[i].size)

\* Mutant: the search breaks at the first entry that matches.
Covering_First(a) ==
  {i \in DOMAIN FramesInformation :
     InFDE(i, a) /\ \A j \in 1..(i - 1) : ~InFDE(j, a)}

Covering(a) == {i \in DOMAIN FramesInformation : InFDE(i, a)}

theCIE == FramesInformation[FramesInformation[fde].CIE]

Finish(outcome, base) ==
  /\ stage' = "ready"
  /\ found' = [outcome |-> outcome, base |-> base]

\* No entry, several, or one without a CIE.
notFound(a) ==
  /\ stage = "ready"
  /\ \/ Covering(a) = {} /\ Finish("not find", 0)
     \/ (\E i, j \in Covering(a) : i # j) /\ Finish("dumplicate", 0)
     \/ (\E i \in Covering(a) : Covering(a) = {i} /\ FramesInformation[i].CIE = 0)
        /\ Finish("no cie", 0)
  /\ address' = a
  /\ fde' = 0
  /\ UNCHANGED <<cfaVars, tableVars>>

findFDE(a) ==
  /\ stage = "ready"
  /\ \E i \in Covering(a) :
       /\ Covering(a) = {i}
       /\ FramesInformation[i].CIE # 0
       /\ fde' = i
       /\ buf' = FramesInformation[FramesInformation[i].CIE].instructions
  /\ address' = a
  /\ NewFrame
  /\ found' = Nothing
  /\ stage' = "cie"
  /\ UNCHANGED tableVars

execCIEInstruction ==
  /\ stage = "cie"
  /\ execSingleInstruction(theCIE)
  /\ UNCHANGED <<stage, address, fde, found, tableVars>>

cieExecuted ==
  /\ stage = "cie"
  /\ buf = <<>>
  /\ loc' = FramesInformation[fde].begin
  /\ buf' = FramesInformation[fde].instructions
  /\ stage' = "fde"
  /\ UNCHANGED <<cfa, regsRule, address, fde, found, tableVars>>

RowReaches_Before == address > loc   \* mutant: stops at the row that starts at address

\* The row being built does not start beyond the address.
RowReaches == address >= loc

execFDEInstruction ==
  /\ stage = "fde"
  /\ RowReaches
  /\ execSingleInstruction(theCIE)
  /\ UNCHANGED <<stage, address, fde, found, tableVars>>

execFails ==
  /\ stage = "cie" \/ (stage = "fde" /\ RowReaches)
  /\ unknownByte
  /\ Finish("unknown byte", 0)
  /\ UNCHANGED <<cfaVars, address, fde, tableVars>>

fdeExecuted ==
  /\ stage = "fde"
  /\ buf = <<>> \/ ~RowReaches
  /\ stage' = "base"
  /\ UNCHANGED <<lookupVars, tableVars>>

BaseKnown == cfa.rule = "cfa" /\ cfa.reg < 17 /\ regs[cfa.reg] # 0

\* The registers of the process may have become unreadable: it can die at any time.
frameBase ==
  /\ stage = "base"
  /\ \/ Finish("no registers", 0)
     \/ BaseKnown /\ Finish("frame", Wrap(regs[cfa.reg] + cfa.offset))
     \/ ~BaseKnown /\ Finish("invalid cfa", 0)
  /\ UNCHANGED <<cfaVars, address, fde, tableVars>>

-----------------------------------------------------------------------------

FrameNext ==
  \/ parseCIE
  \/ parseFDE
  \/ parseCut
  \/ parseShort
  \/ parseEnd
  \/ \E a \in Addrs : notFound(a) \/ findFDE(a)
  \/ execCIEInstruction
  \/ cieExecuted
  \/ execFDEInstruction
  \/ execFails
  \/ fdeExecuted
  \/ frameBase

FrameSpec == FrameInit /\ [][FrameNext]_frameVars

-----------------------------------------------------------------------------
(***************************************************************************)
(* What DWARF says the frame base is.  The instructions of the CIE apply   *)
(* to the whole entry; an instruction of the FDE applies from the location *)
(* that the advances before it add up to.  At an address, the last         *)
(* instruction that sets the register counts, and the last that sets the   *)
(* offset.                                                                 *)
(***************************************************************************)
Instructions(s, i) == s[s[i].CIE].instructions \o s[i].instructions

Location(s, i, k) ==
  LET cie      == s[s[i].CIE]
      advances == {j \in (Len(cie.instructions) + 1)..Len(Instructions(s, i)) :
                     j < k /\ Instructions(s, i)[j].op \in Advance}
  IN  s[i].begin +
        MapThenSumSet(LAMBDA j : Instructions(s, i)[j].delta * cie.code_alignment_factor,
                      advances)

\* The last instruction of one of the opcodes that applies at the address.
LastOf(ops) ==
  LET program == Instructions(section, fde)
  IN  program[Max({k \in DOMAIN program :
                     program[k].op \in ops /\ Location(section, fde, k) <= address})]

RowOffset ==
  LET i == LastOf({"def_cfa", "def_cfa_offset_sf"})
  IN  IF i.op = "def_cfa"
      THEN Number(i.operand)
      ELSE SignedNumber(i.operand) * section[section[fde].CIE].data_alignment_factor

RowReg == LastOf({"def_cfa", "def_cfa_register"}).reg

\* What the code takes for granted of a section: an FDE uses the CIE that came last, if one
\* came, and its rows stay in the address space.
IsLastCIE(s, c, i) ==
  /\ c \in 0..(i - 1)
  /\ c # 0 => s[c].kind = "cie"
  /\ \A j \in (c + 1)..(i - 1) : s[j].kind # "cie"

FramesAsExpected ==
  \A s \in Sections : \A i \in DOMAIN s :
    s[i].kind = "fde" /\ ~IsLastCIE(s, 0, i) =>
      /\ IsLastCIE(s, s[i].CIE, i)
      /\ Location(s, i, Len(Instructions(s, i)) + 1) < 2^Width

\* The frame base that p adds a variable's offset to is the canonical frame address DWARF
\* gives for the row of the address, computed with the CIE its FDE points to
\* (findFrameInformation, the loops of cfa.go and both LEB128 decoders).
CfaOfRow ==
  found.outcome = "frame" => found.base = Wrap(regs[RowReg] + RowOffset)

IsEntryOf(e, f) ==
  e.kind = "fde" /\ e.begin = f.lowpc /\ e.begin + e.size = f.highpc

\* Section s has an entry for every function of the program, the functions lie below the end
\* of the address space, and no other entry reaches into a function.
FunctionsHaveEntries(s) ==
  \A f \in Functions :
    /\ f.highpc < 2^Width
    /\ \E i \in DOMAIN s : IsEntryOf(s[i], f)
    /\ \A i \in DOMAIN s :
         s[i].kind = "fde" /\ ~IsEntryOf(s[i], f) =>
           s[i].begin + s[i].size <= f.lowpc \/ f.highpc <= s[i].begin

\* The frame used at an address inside a function is that function's and not its
\* neighbour's, although entries overlap by one address (findFrameInformation).  The one
\* exception is a function's first address, when the function's own entry was never read
\* because the section ended early for ParseFrameSection.
FrameIsOwn ==
  stage \in {"cie", "fde", "base"} =>
    \A f \in findFunctionIncludePc(address) :
      \/ IsEntryOf(section[fde], f)
      \/ address = f.lowpc /\ \E i \in DOMAIN unread : IsEntryOf(unread[i], f)

=============================================================================
