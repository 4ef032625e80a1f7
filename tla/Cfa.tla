--------------------------------- MODULE Cfa ---------------------------------
(***************************************************************************)
(* The interpreter of call frame instructions (cfa.go).  Its state is the  *)
(* part of Frame that they change, and the instructions still to come.  An *)
(* instruction is a record [op, reg, operand, delta]: its opcode, register *)
(* number, LEB128 operand and location delta, as far as it has them.       *)
(***************************************************************************)
EXTENDS Leb128

CONSTANT Reg   \* register numbers that instructions name

ASSUME RegAssumption == Reg \subseteq Nat

VARIABLES
  buf,        \* the instructions still to come
  loc,        \* frame.loc
  cfa,        \* frame.cfa: [reg, offset, rule]
  regsRule    \* frame.regsRule: [offset, rule] of each register

cfaVars == <<buf, loc, cfa, regsRule>>

Advance == {"advance_loc", "advance_loc1", "advance_loc2"}
Known   == {"offset_extended", "def_cfa", "def_cfa_register", "def_cfa_offset_sf",
            "restore", "nop"} \cup Advance

DWRule == [offset : Int64, rule : {"undefined", "offset"}]

CfaTypeOK ==
  /\ loc \in Nat
  /\ cfa \in [reg : Nat, offset : Int64, rule : {"undefined", "cfa"}]
  /\ regsRule \in [Reg -> DWRule]

\* A new Frame: Go's zero values.
NewFrame ==
  /\ loc' = 0
  /\ cfa' = [reg |-> 0, offset |-> 0, rule |-> "undefined"]
  /\ regsRule' = [r \in Reg |-> [offset |-> 0, rule |-> "undefined"]]

Fetch(op) ==
  /\ buf # <<>>
  /\ Head(buf).op = op
  /\ buf' = Tail(buf)

offset_extended(cie) ==
  /\ Fetch("offset_extended")
  /\ regsRule' = [regsRule EXCEPT ![Head(buf).reg] =
       [offset |-> Signed(DecodeULEB128(Head(buf).operand) * cie.data_alignment_factor),
        rule |-> "offset"]]
  /\ UNCHANGED <<loc, cfa>>

def_cfa ==
  /\ Fetch("def_cfa")
  /\ cfa' = [reg |-> Head(buf).reg,
             offset |-> Signed(DecodeULEB128(Head(buf).operand)),
             rule |-> "cfa"]
  /\ UNCHANGED <<loc, regsRule>>

\* The rule becomes undefined, which findFrameInformation then refuses.
def_cfa_register ==
  /\ Fetch("def_cfa_register")
  /\ cfa' = [cfa EXCEPT !.reg = Head(buf).reg, !.rule = "undefined"]
  /\ UNCHANGED <<loc, regsRule>>

\* Mutant: the product is not an int64.
def_cfa_offset_sf_Wide(cie) ==
  /\ Fetch("def_cfa_offset_sf")
  /\ cfa' = [cfa EXCEPT !.offset =
       DecodeSLEB128(Head(buf).operand) * cie.data_alignment_factor]
  /\ UNCHANGED <<loc, regsRule>>

def_cfa_offset_sf(cie) ==
  /\ Fetch("def_cfa_offset_sf")
  /\ cfa' = [cfa EXCEPT !.offset =
       Signed(DecodeSLEB128(Head(buf).operand) * cie.data_alignment_factor)]
  /\ UNCHANGED <<loc, regsRule>>

advance_loc(cie) ==
  /\ \E op \in Advance : Fetch(op)
  /\ loc' = Wrap(loc + Head(buf).delta * cie.code_alignment_factor)
  /\ UNCHANGED <<cfa, regsRule>>

restore ==
  /\ Fetch("restore")
  /\ regsRule' = [regsRule EXCEPT ![Head(buf).reg] = [offset |-> 0, rule |-> "undefined"]]
  /\ UNCHANGED <<loc, cfa>>

nop ==
  /\ Fetch("nop")
  /\ UNCHANGED <<loc, cfa, regsRule>>

execSingleInstruction(cie) ==
  \/ offset_extended(cie)
  \/ def_cfa
  \/ def_cfa_register
  \/ def_cfa_offset_sf(cie)
  \/ advance_loc(cie)
  \/ restore
  \/ nop

\* The opcodes the switch does not have, such as DW_CFA_advance_loc4, end with an error.
unknownByte == buf # <<>> /\ Head(buf).op \notin Known
=============================================================================
