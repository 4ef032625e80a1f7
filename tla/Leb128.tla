------------------------------- MODULE Leb128 -------------------------------
(***************************************************************************)
(* The two decoders of LEB128 numbers in the DWARF sections (frame.go).    *)
(* An encoding is the sequence of its bytes, each but the last with the    *)
(* top bit set.  The decoders collect 7 bits per byte in a Go integer of   *)
(* Width bits; what is shifted beyond that is lost.  The pieces they OR    *)
(* together do not overlap, so the OR is a sum.                            *)
(***************************************************************************)
EXTENDS Integers, Sequences, FiniteSetsExt

CONSTANT Width   \* bits of uint64 and int64: 64 in the code

ASSUME WidthAssumption == Width \in Nat \ {0}

Uint == 0..(2^Width - 1)
Int64 == -(2^(Width - 1))..(2^(Width - 1) - 1)

\* Conversions to uint64 and int64, and x << n.
Wrap(x) == x % 2^Width
Signed(x) == IF Wrap(x) < 2^(Width - 1) THEN Wrap(x) ELSE Wrap(x) - 2^Width
ShiftLeft(x, n) == IF n < Width THEN Wrap(x * 2^n) ELSE 0

DecodeULEB128(b) ==
  MapThenSumSet(LAMBDA i : ShiftLeft(b[i] % 128, 7 * (i - 1)), DOMAIN b)

\* Mutant: the sign bit is taken for a bit of the number.
DecodeSLEB128_Unsigned(b) == Signed(DecodeULEB128(b))

\* The bits above the encoded ones are copies of its sign bit, 0x40 of the last byte.
\* The code's test shift < 8 * len always holds.
DecodeSLEB128(b) ==
  LET shift == 7 * Len(b)
  IN  Signed(DecodeULEB128(b) -
             (IF shift < 8 * Len(b) /\ b[Len(b)] % 128 >= 64 THEN ShiftLeft(1, shift) ELSE 0))

-----------------------------------------------------------------------------
\* What DWARF means by an encoding: the number with 7 bits in each byte, the lowest first, or
\* the same in two's complement.
Number(b) == MapThenSumSet(LAMBDA i : (b[i] % 128) * 2^(7 * (i - 1)), DOMAIN b)

SignedNumber(b) ==
  IF b[Len(b)] % 128 < 64 THEN Number(b) ELSE Number(b) - 2^(7 * Len(b))
=============================================================================
