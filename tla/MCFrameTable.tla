---------------------------- MODULE MCFrameTable ----------------------------
(***************************************************************************)
(* Frame sections for model checking FrameTable: two functions without a   *)
(* gap and one apart with a CIE of its own, rows of every opcode, and      *)
(* operands of one to three bytes, beyond the width of the integers.  In   *)
(* some sections a truncated entry stands before, between or behind the    *)
(* functions' entries.                                                     *)
(***************************************************************************)
EXTENDS FrameTable

In(op, reg, operand, delta) ==
  [op |-> op, reg |-> reg, operand |-> operand, delta |-> delta]

DefCfa(reg, b)  == In("def_cfa", reg, b, 0)
OffsetSf(b)     == In("def_cfa_offset_sf", 0, b, 0)
Adv(op, delta)  == In(op, 0, <<0>>, delta)
Nop             == In("nop", 0, <<0>>, 0)

CIE(caf, daf, prog) ==
  [kind |-> "cie", code_alignment_factor |-> caf, data_alignment_factor |-> daf,
   instructions |-> prog]
FDE(cie, begin, size, prog) ==
  [kind |-> "fde", CIE |-> cie, begin |-> begin, size |-> size, instructions |-> prog]
Cut   == [kind |-> "cut"]
Short == [kind |-> "short"]

\* As the Go linker writes it: the CFA is rsp + 8.
GoCIE == CIE(1, -4, <<DefCfa(7, <<8>>), In("offset_extended", 16, <<2>>, 0)>>)
OtherCIE == CIE(2, -8, <<DefCfa(6, <<144, 1>>), Nop>>)

Last      == {0, 1, 63, 64, 126}
More      == {128, 129, 191, 192, 255}
Operands  == {<<z>> : z \in Last} \cup {<<y, z>> : y \in More, z \in Last}
             \cup {<<x, y, z>> : x \in {129, 192}, y \in More, z \in Last}

\* Frame pushed and popped, as in a Go function.
Pushes(b) ==
  <<OffsetSf(<<126>>), Adv("advance_loc", 3), OffsetSf(b), Adv("advance_loc1", 4),
    OffsetSf(<<126>>), Nop>>

\* A frame pointer, then an opcode the interpreter does not have.
Pointer ==
  <<Adv("advance_loc", 1), In("def_cfa_register", 6, <<0>>, 0),
    Adv("advance_loc2", 2), DefCfa(6, <<16>>), In("restore", 16, <<0>>, 0),
    Adv("advance_loc", 2), In("advance_loc4", 0, <<0>>, 1)>>

Section(b) ==
  <<GoCIE, FDE(1, 16, 8, Pushes(b)), FDE(1, 24, 8, Pointer),
    OtherCIE, FDE(4, 40, 8, <<OffsetSf(b), Adv("advance_loc", 2), DefCfa(17, b)>>)>>

\* The section with a truncated entry behind its first n entries.
CutSection(n) ==
  LET InsertCut(s) == SubSeq(s, 1, n) \o <<Cut>> \o SubSeq(s, n + 1, Len(s))
      Moved(e) == IF e.kind = "fde" /\ e.CIE > n THEN [e EXCEPT !.CIE = e.CIE + 1] ELSE e
      s == InsertCut(Section(<<8>>))
  IN  [i \in DOMAIN s |-> Moved(s[i])]

MCSections ==
  {Section(b) : b \in Operands}
  \cup {CutSection(n) : n \in 0..5}
  \cup {<<FDE(2, 16, 4, Pointer), GoCIE, FDE(2, 24, 8, Pointer), OtherCIE>>,
        <<GoCIE, Short>>}

MCFunctions ==
  {[lowpc |-> 16, highpc |-> 24], [lowpc |-> 24, highpc |-> 32],
   [lowpc |-> 40, highpc |-> 48]}

MCRegs == [r \in 0..16 |-> CASE r = 7  -> 1000
                             [] r = 6  -> 2000
                             [] r = 16 -> 30
                             [] OTHER  -> 0]

ASSUME SectionsAsExpected == FramesAsExpected

ASSUME EntriesOfFunctions ==
  /\ \A b \in Operands : FunctionsHaveEntries(Section(b))
  /\ \A n \in 0..5 : FunctionsHaveEntries(CutSection(n))
=============================================================================
