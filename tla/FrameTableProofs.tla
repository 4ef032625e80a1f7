-------------------------- MODULE FrameTableProofs --------------------------
(***************************************************************************)
(* For every frame section that has an entry for each function, the frame  *)
(* p uses at an address inside a function is that function's: where the    *)
(* inclusive upper bound of findFrameInformation makes two entries match,  *)
(* the lookup has already been refused.                                    *)
(***************************************************************************)
EXTENDS FrameTable, DataInduction

-----------------------------------------------------------------------------
(***************************************************************************)
(* The decoders compute modulo 2^Width what DWARF means by an encoding, of *)
(* whatever length.                                                        *)
(***************************************************************************)

\* The two numbers are the same integer of the machine.
Same(x, y) == \E k \in Int : x = y + k * 2^Width

LEMMA WidthPositive ==
  /\ 2^Width \in Nat \ {0}
  /\ 2^(Width - 1) \in Nat \ {0}
  /\ 2^Width = 2 * 2^(Width - 1)
<1>1. Width \in Nat /\ Width - 1 \in Nat /\ (Width - 1) + 1 = Width
  BY WidthAssumption
<1>. QED BY <1>1, PowerPositive, PowerStep

\* Division with remainder by M.
LEMMA Remainder ==
  ASSUME NEW M \in Nat \ {0}, NEW x \in Int
  PROVE  /\ x % M \in 0..(M - 1)
         /\ \E k \in Int : x % M = x + k * M
<1>1. x % M \in 0..(M - 1)
  OBVIOUS
<1>2. x \div M \in Int /\ x = M * (x \div M) + (x % M)
  OBVIOUS
<1>3. PICK q \in Int : x = M * q + (x % M)
  BY <1>2
<1>4. PICK r \in Int : r = x % M
  BY <1>1
<1>5. r = x + (-q) * M
  <2>1. PICK m \in Int : m = M * q
    OBVIOUS
  <2>2. x = m + r
    BY <1>3, <1>4, <2>1
  <2>3. (-q) * M = -m
    BY <2>1
  <2>4. r = x + (-m)
    BY <2>2
  <2>. QED BY <2>3, <2>4
<1>6. PICK k \in Int : k = -q
  OBVIOUS
<1>7. x % M = x + k * M
  BY <1>4, <1>5, <1>6
<1>. QED BY <1>1, <1>7

\* Two remainders that differ by a multiple of M are equal.
LEMMA OneRemainder ==
  ASSUME NEW M \in Nat \ {0}, NEW r \in 0..(M - 1), NEW s \in 0..(M - 1),
         NEW k \in Int, r = s + k * M
  PROVE  r = s
<1>1. k >= 1 => k * M >= M
  OBVIOUS
<1>2. k <= -1 => k * M <= -M
  OBVIOUS
<1>3. k * M < M /\ k * M > -M
  <2>1. k * M = r - s
    <3>1. k * M \in Int
      OBVIOUS
    <3>. QED BY <3>1
  <2>. QED BY <2>1
<1>4. k = 0
  BY <1>1, <1>2, <1>3
<1>. QED BY <1>4

LEMMA WrapIsSame ==
  ASSUME NEW x \in Int
  PROVE  Wrap(x) \in Uint /\ Wrap(x) \in Nat /\ Same(Wrap(x), x)
<1> DEFINE M == 2^Width
<1>1. M \in Nat \ {0}
  BY WidthPositive
<1> HIDE DEF M
<1>2. x % M \in 0..(M - 1) /\ \E k \in Int : x % M = x + k * M
  BY <1>1, Remainder
<1>. QED BY <1>1, <1>2 DEF Wrap, Uint, Same, M

LEMMA SameIsEquivalence ==
  /\ \A x \in Int : Same(x, x)
  /\ \A x, y \in Int : Same(x, y) => Same(y, x)
  /\ \A x, y, z \in Int : Same(x, y) /\ Same(y, z) => Same(x, z)
<1> DEFINE M == 2^Width
<1>1. M \in Int
  BY WidthPositive
<1> HIDE DEF M
<1>2. ASSUME NEW x \in Int PROVE x = x + 0 * M
  BY <1>1
<1>3. ASSUME NEW x \in Int, NEW y \in Int, NEW k \in Int, x = y + k * M
      PROVE  y = x + (-k) * M
  BY <1>1, <1>3
<1>4. ASSUME NEW x \in Int, NEW y \in Int, NEW z \in Int, NEW k \in Int, NEW l \in Int,
             x = y + k * M, y = z + l * M
      PROVE  x = z + (k + l) * M
  BY <1>1, <1>4
<1>5. ASSUME NEW x \in Int PROVE Same(x, x)
  BY <1>2 DEF Same, M
<1>6. ASSUME NEW x \in Int, NEW y \in Int, Same(x, y) PROVE Same(y, x)
  <2>1. PICK k \in Int : x = y + k * M
    BY <1>6 DEF Same, M
  <2>2. -k \in Int /\ y = x + (-k) * M
    BY <1>3, <2>1
  <2>. QED BY <2>2 DEF Same, M
<1>7. ASSUME NEW x \in Int, NEW y \in Int, NEW z \in Int, Same(x, y), Same(y, z)
      PROVE  Same(x, z)
  <2>1. PICK k \in Int : x = y + k * M
    BY <1>7 DEF Same, M
  <2>2. PICK l \in Int : y = z + l * M
    BY <1>7 DEF Same, M
  <2>3. k + l \in Int /\ x = z + (k + l) * M
    BY <1>4, <2>1, <2>2
  <2>. QED BY <2>3 DEF Same, M
<1>. QED BY <1>5, <1>6, <1>7

\* Sums, differences and products respect it.
LEMMA SameArithmetic ==
  ASSUME NEW x \in Int, NEW y \in Int, NEW u \in Int, NEW v \in Int, Same(x, y), Same(u, v)
  PROVE  Same(x + u, y + v) /\ Same(x - u, y - v) /\ Same(x * u, y * v)
<1> DEFINE M == 2^Width
<1>1. M \in Int
  BY WidthPositive
<1>2. PICK k \in Int : x = y + k * M
  BY DEF Same
<1>3. PICK l \in Int : u = v + l * M
  BY DEF Same
<1> HIDE DEF M
<1>4. x + u = (y + v) + (k + l) * M
  BY <1>1, <1>2, <1>3
<1>5. x - u = (y - v) + (k - l) * M
  BY <1>1, <1>2, <1>3
<1>6. x * u = y * v + (k * v + y * l + k * l * M) * M
  BY <1>1, <1>2, <1>3
<1>7. k + l \in Int /\ k - l \in Int /\ k * v + y * l + k * l * M \in Int
  BY <1>1
<1>. QED BY <1>4, <1>5, <1>6, <1>7 DEF Same, M

LEMMA SameWrap ==
  ASSUME NEW x \in Int, NEW y \in Int, Same(x, y)
  PROVE  Wrap(x) = Wrap(y)
<1> DEFINE M == 2^Width
<1>1. M \in Nat \ {0}
  BY WidthPositive
<1>2. Wrap(x) \in 0..(M - 1) /\ Wrap(y) \in 0..(M - 1)
  BY WrapIsSame DEF Uint
<1>3. Same(Wrap(x), x) /\ Same(x, y) /\ Same(y, Wrap(y))
  BY WrapIsSame, SameIsEquivalence
<1>4. Same(Wrap(x), Wrap(y))
  BY <1>3, WrapIsSame, SameIsEquivalence
<1>5. PICK k \in Int : Wrap(x) = Wrap(y) + k * M
  BY <1>4 DEF Same
<1> HIDE DEF M
<1>. QED BY <1>1, <1>2, <1>5, OneRemainder

LEMMA SignedIsSame ==
  ASSUME NEW x \in Int
  PROVE  Signed(x) \in Int64 /\ Signed(x) \in Int /\ Same(Signed(x), x)
<1> DEFINE M == 2^Width
           H == 2^(Width - 1)
<1>1. M \in Nat \ {0} /\ H \in Nat \ {0} /\ M = 2 * H
  BY WidthPositive
<1>2. Wrap(x) \in 0..(M - 1) /\ Same(Wrap(x), x)
  BY WrapIsSame DEF Uint
<1>3. PICK w \in 0..(M - 1) : w = Wrap(x)
  BY <1>2
<1>4. Same(w - M, w)
  <2> HIDE DEF M
  <2>1. w - M = w + (-1) * M
    BY <1>1
  <2>. QED BY <2>1 DEF Same, M
<1>5. Signed(x) = IF w < H THEN w ELSE w - M
  BY <1>3 DEF Signed
<1>6. Same(Signed(x), x)
  <2>1. w \in Int /\ w - M \in Int
    BY <1>1, <1>3
  <2> HIDE DEF M, H
  <2>. QED BY <1>2, <1>3, <1>4, <1>5, <2>1, SameIsEquivalence
<1>7. Int64 = (-H)..(H - 1)
  BY DEF Int64
<1> HIDE DEF M, H
<1>. QED BY <1>1, <1>3, <1>5, <1>6, <1>7

\* A shift multiplies by a power of two; beyond the width nothing is left.
LEMMA ShiftIsSame ==
  ASSUME NEW x \in Int, NEW n \in Nat
  PROVE  ShiftLeft(x, n) \in Int /\ x * 2^n \in Int /\ Same(ShiftLeft(x, n), x * 2^n)
<1>1. 2^n \in Int /\ x * 2^n \in Int
  BY PowerPositive
<1>2. CASE n < Width
  BY <1>1, <1>2, WrapIsSame DEF ShiftLeft
<1>3. CASE ~(n < Width)
  <2>1. n - Width \in Nat /\ Width \in Nat /\ Width + (n - Width) = n
    BY <1>3, WidthAssumption
  <2>2. 2^n = 2^Width * 2^(n - Width)
    BY <2>1, PowerSum
  <2>3. PICK M \in Int : M = 2^Width
    BY WidthPositive
  <2>4. PICK q \in Int : q = 2^(n - Width)
    BY <2>1, PowerPositive
  <2>5. x * 2^n = x * (M * q)
    BY <2>2, <2>3, <2>4
  <2>6. 0 = x * (M * q) + (-(x * q)) * M /\ -(x * q) \in Int
    OBVIOUS
  <2>7. Same(0, x * 2^n)
    BY <2>3, <2>5, <2>6 DEF Same
  <2>8. ShiftLeft(x, n) = 0
    BY <1>3 DEF ShiftLeft
  <2>. QED BY <1>1, <2>7, <2>8
<1>. QED BY <1>2, <1>3

\* Sums of numbers that are the same are the same.
LEMMA SumIsSame ==
  ASSUME NEW D, IsFiniteSet(D), NEW g, NEW h,
         \A x \in D : g[x] \in Int /\ h[x] \in Int /\ Same(g[x], h[x])
  PROVE  Same(SumOver(g, D), SumOver(h, D))
<1> DEFINE T == {s \in SUBSET D : Same(SumOver(g, s), SumOver(h, s))}
<1>1. {} \in T
  BY SumEmpty, SameIsEquivalence
<1>2. ASSUME NEW s \in SUBSET D, NEW x \in D \ s, s \in T
      PROVE  s \cup {x} \in T
  <2>1. IsFiniteSet(s)
    BY FS_Subset
  <2>2. /\ SumOver(g, s \cup {x}) = g[x] + SumOver(g, s)
        /\ SumOver(h, s \cup {x}) = h[x] + SumOver(h, s)
    BY <2>1, SumAdd
  <2>3. SumOver(g, s) \in Int /\ SumOver(h, s) \in Int
    BY <2>1, SumType
  <2>4. g[x] \in Int /\ h[x] \in Int /\ Same(g[x], h[x])
    OBVIOUS
  <2>5. Same(SumOver(g, s), SumOver(h, s))
    BY <1>2
  <2>6. Same(g[x] + SumOver(g, s), h[x] + SumOver(h, s))
    BY <2>3, <2>4, <2>5, SameArithmetic
  <2>. QED BY <2>2, <2>6
<1>3. D \in T
  <2> HIDE DEF T
  <2>. QED BY <1>1, <1>2, FiniteInduction
<1>. QED BY <1>3

Pieces(b) == [i \in DOMAIN b |-> ShiftLeft(b[i] % 128, 7 * (i - 1))]
Digits(b) == [i \in DOMAIN b |-> (b[i] % 128) * 2^(7 * (i - 1))]

LEMMA DecodeIsSum ==
  ASSUME NEW b
  PROVE  /\ DecodeULEB128(b) = SumOver(Pieces(b), DOMAIN b)
         /\ Number(b) = SumOver(Digits(b), DOMAIN b)
<1> DEFINE D == DOMAIN b
<1>1. ASSUME NEW g
      PROVE  SumOver(g, D) = (CHOOSE iter : iter = [s \in SUBSET D |->
               IF s = {} THEN 0 ELSE g[Some(s)] + iter[s \ {Some(s)}]])[D]
  BY DEF SumOver, SumIter
<1> DEFINE E(g, iter) == [s \in SUBSET D |->
             IF s = {} THEN 0 ELSE g[Some(s)] + iter[s \ {Some(s)}]]
<1>2. \A s \in SUBSET D : s # {} => Some(s) \in D
  BY DEF Some
<1>3. DecodeULEB128(b) = SumOver(Pieces(b), D)
  <2> DEFINE F(iter) == [s \in SUBSET D |-> IF s = {} THEN 0
               ELSE ShiftLeft(b[Some(s)] % 128, 7 * (Some(s) - 1)) + iter[s \ {Some(s)}]]
  <2>1. DecodeULEB128(b) = (CHOOSE iter : iter = F(iter))[D]
    BY DEF DecodeULEB128, MapThenSumSet, MapThenFoldSet, Some
  <2>2. \A iter : F(iter) = E(Pieces(b), iter)
    BY <1>2 DEF Pieces
  <2>3. SumOver(Pieces(b), D) = (CHOOSE iter : iter = E(Pieces(b), iter))[D]
    BY <1>1
  <2> HIDE DEF E, F
  <2>. QED BY <2>1, <2>2, <2>3
<1>4. Number(b) = SumOver(Digits(b), D)
  <2> DEFINE F(iter) == [s \in SUBSET D |-> IF s = {} THEN 0
               ELSE (b[Some(s)] % 128) * 2^(7 * (Some(s) - 1)) + iter[s \ {Some(s)}]]
  <2>1. Number(b) = (CHOOSE iter : iter = F(iter))[D]
    BY DEF Number, MapThenSumSet, MapThenFoldSet, Some
  <2>2. \A iter : F(iter) = E(Digits(b), iter)
    BY <1>2 DEF Digits
  <2>3. SumOver(Digits(b), D) = (CHOOSE iter : iter = E(Digits(b), iter))[D]
    BY <1>1
  <2> HIDE DEF E, F
  <2>. QED BY <2>1, <2>2, <2>3
<1>. QED BY <1>3, <1>4

LEMMA ElementInRange ==
  ASSUME NEW S, NEW b \in Seq(S), NEW i \in DOMAIN b
  PROVE  b[i] \in S
OBVIOUS

LEMMA ByteInRange ==
  ASSUME NEW b \in Seq(0..255), NEW i \in DOMAIN b
  PROVE  b[i] \in 0..255
BY ElementInRange

LEMMA LastByte ==
  ASSUME NEW b \in Seq(0..255), b # <<>>
  PROVE  b[Len(b)] \in 0..255 /\ Len(b) \in DOMAIN b
OBVIOUS

\* DecodeULEB128 returns, in the width of its integers, the number that is encoded.
THEOREM UnsignedDecoded ==
  ASSUME NEW b \in Seq(0..255)
  PROVE  /\ DecodeULEB128(b) \in Int /\ Number(b) \in Int
         /\ Same(DecodeULEB128(b), Number(b))
<1>1. DOMAIN b = 1..Len(b) /\ Len(b) \in Nat /\ IsFiniteSet(DOMAIN b)
  BY FS_Interval
<1>2. ASSUME NEW i \in DOMAIN b
      PROVE  /\ Pieces(b)[i] \in Int /\ Digits(b)[i] \in Int
             /\ Same(Pieces(b)[i], Digits(b)[i])
  <2>1. PICK byte \in 0..255 : byte = b[i]
    BY ByteInRange
  <2>2. byte % 128 \in Int /\ i \in Nat \ {0}
    BY <1>1
  <2>3. 7 * (i - 1) \in Nat
    BY <2>2
  <2>4. PICK d \in Int, m \in Nat : d = byte % 128 /\ m = 7 * (i - 1)
    BY <2>2, <2>3
  <2>5. ShiftLeft(d, m) \in Int /\ d * 2^m \in Int /\ Same(ShiftLeft(d, m), d * 2^m)
    BY ShiftIsSame
  <2>6. Pieces(b)[i] = ShiftLeft(d, m) /\ Digits(b)[i] = d * 2^m
    BY <2>1, <2>4 DEF Pieces, Digits
  <2>. QED BY <2>5, <2>6
<1>3. SumOver(Pieces(b), DOMAIN b) \in Int /\ SumOver(Digits(b), DOMAIN b) \in Int
  BY <1>1, <1>2, SumType
<1>4. Same(SumOver(Pieces(b), DOMAIN b), SumOver(Digits(b), DOMAIN b))
  BY <1>1, <1>2, SumIsSame
<1>. QED BY <1>3, <1>4, DecodeIsSum

\* DecodeSLEB128 returns the number that is encoded in two's complement.
THEOREM SignedDecoded ==
  ASSUME NEW b \in Seq(0..255), b # <<>>
  PROVE  /\ DecodeSLEB128(b) \in Int64 /\ DecodeSLEB128(b) \in Int /\ SignedNumber(b) \in Int
         /\ Same(DecodeSLEB128(b), SignedNumber(b))
<1> DEFINE n == 7 * Len(b)
           sign == b[Len(b)] % 128 >= 64
           u == DecodeULEB128(b)
           top == IF sign THEN ShiftLeft(1, n) ELSE 0
           topNumber == IF sign THEN 2^n ELSE 0
<1>1. Len(b) \in Nat \ {0} /\ n \in Nat /\ n < 8 * Len(b)
  OBVIOUS
<1>2. u \in Int /\ Number(b) \in Int /\ Same(u, Number(b))
  BY UnsignedDecoded
<1>3. top \in Int /\ topNumber \in Int /\ Same(top, topNumber)
  <2>1. ShiftLeft(1, n) \in Int /\ 1 * 2^n \in Int /\ Same(ShiftLeft(1, n), 1 * 2^n)
    BY <1>1, ShiftIsSame
  <2>2. 1 * 2^n = 2^n /\ 2^n \in Int
    BY <1>1, PowerPositive
  <2>3. Same(0, 0)
    BY SameIsEquivalence
  <2>. QED BY <2>1, <2>2, <2>3
<1>4. DecodeSLEB128(b) = Signed(u - top)
  BY <1>1 DEF DecodeSLEB128
<1>5. SignedNumber(b) = Number(b) - topNumber
  <2>1. PICK byte \in 0..255 : byte = b[Len(b)]
    BY LastByte
  <2>2. byte % 128 < 64 <=> ~(byte % 128 >= 64)
    OBVIOUS
  <2>3. Number(b) - 0 = Number(b)
    BY <1>2
  <2>4. PICK m : m = byte % 128
    OBVIOUS
  <2>5. SignedNumber(b) = IF m < 64 THEN Number(b) ELSE Number(b) - 2^(7 * Len(b))
    BY <2>1, <2>4 DEF SignedNumber
  <2>6. topNumber = IF m >= 64 THEN 2^(7 * Len(b)) ELSE 0
    BY <2>1, <2>4
  <2>7. m < 64 <=> ~(m >= 64)
    BY <2>2, <2>4
  <2> HIDE DEF topNumber
  <2>. QED BY <2>3, <2>5, <2>6, <2>7
<1> HIDE DEF n, sign, u, top, topNumber
<1>6. u - top \in Int /\ Number(b) - topNumber \in Int
      /\ Same(u - top, Number(b) - topNumber)
  <2>1. ASSUME NEW x \in Int, NEW y \in Int, NEW v \in Int, NEW w \in Int,
               Same(x, y), Same(v, w)
        PROVE  x - v \in Int /\ y - w \in Int /\ Same(x - v, y - w)
    BY <2>1, SameArithmetic
  <2>. QED BY <1>2, <1>3, <2>1
<1>7. /\ Signed(u - top) \in Int64 /\ Signed(u - top) \in Int
      /\ Same(Signed(u - top), u - top)
  BY <1>6, SignedIsSame
<1>. QED BY <1>4, <1>5, <1>6, <1>7, SameIsEquivalence

-----------------------------------------------------------------------------
\* What has been read is the section so far, and the rest is still in the buffer.
ReadSoFar ==
  /\ section \in Sections
  /\ curCIE \in Nat
  /\ FramesInformation \in Seq(Entry)
  /\ unread \in Seq(Entry)
  /\ Len(FramesInformation) + Len(unread) = Len(section)
  /\ \A i \in DOMAIN unread : unread[i] = section[Len(FramesInformation) + i]
  /\ \A i \in DOMAIN FramesInformation :
       /\ FramesInformation[i].kind = section[i].kind
       /\ IsFDE(i) => /\ FramesInformation[i].begin = section[i].begin
                      /\ FramesInformation[i].size = section[i].size

\* The entry being executed is the only one that covers the address.
OnlyEntry ==
  /\ address \in Nat
  /\ stage \in {"cie", "fde", "base"} => Covering(address) = {fde}

TableInv == ReadSoFar /\ OnlyEntry

\* An address in the range of a function is in the range of its entry.
LEMMA WrapSmall ==
  ASSUME NEW x \in Nat, x < 2^Width
  PROVE  Wrap(x) = x
<1> DEFINE M == 2^Width
<1>1. M \in Nat \ {0} /\ x < M
  BY WidthPositive
<1>2. x % M = x
  <2> HIDE DEF M
  <2>. QED BY <1>1
<1>. QED BY <1>2 DEF Wrap

LEMMA TableInitInv == FrameInit => TableInv
<1> SUFFICES ASSUME FrameInit PROVE TableInv
  OBVIOUS
<1>1. section \in Seq(Entry)
  BY FrameAssumption DEF FrameInit
<1>2. ReadSoFar
  BY <1>1 DEF FrameInit, ReadSoFar, IsFDE
<1>. QED BY <1>2 DEF FrameInit, TableInv, OnlyEntry

\* Reading one entry keeps the correspondence with the section.
LEMMA ReadInv ==
  ASSUME ReadSoFar, unread # <<>>, UNCHANGED section, curCIE' \in Nat,
         NEW e \in Entry, Read(e),
         e.kind = Head(unread).kind,
         e.kind = "fde" => /\ e.begin = Head(unread).begin
                           /\ e.size = Head(unread).size
  PROVE  ReadSoFar'
<1> DEFINE n == Len(FramesInformation)
<1>1. /\ FramesInformation' \in Seq(Entry) /\ unread' \in Seq(Entry)
      /\ Len(FramesInformation') = n + 1
      /\ Len(unread') = Len(unread) - 1
      /\ Len(unread) \in Nat \ {0}
      /\ \A i \in 1..n : FramesInformation'[i] = FramesInformation[i]
      /\ FramesInformation'[n + 1] = e
      /\ \A i \in DOMAIN unread' : unread'[i] = unread[i + 1]
      /\ n \in Nat
      /\ Head(unread) = unread[1]
      /\ DOMAIN unread = 1..Len(unread) /\ DOMAIN unread' = 1..Len(unread')
      /\ DOMAIN FramesInformation' = 1..(n + 1) /\ DOMAIN FramesInformation = 1..n
  BY DEF ReadSoFar, Read
<1> HIDE DEF n
<1>2. \A i \in 1..Len(unread) : unread[i] = section[n + i]
  BY <1>1 DEF ReadSoFar, n
<1>3. Head(unread) = section[n + 1]
  <2>1. 1 \in 1..Len(unread)
    BY <1>1 DEF ReadSoFar
  <2>. QED BY <1>1, <1>2, <2>1
<1>4. ASSUME NEW i \in DOMAIN unread'
      PROVE  unread'[i] = section'[n + 1 + i]
  <2> DEFINE m == Len(unread)
  <2>1. i \in Nat /\ i + 1 \in 1..m /\ n + (i + 1) = n + 1 + i
    <3>1. m \in Nat /\ i \in 1..(m - 1)
      BY <1>1
    <3>2. n \in Nat
      BY <1>1
    <3> HIDE DEF m
    <3>. QED BY <3>1, <3>2
  <2>2. unread[i + 1] = section[n + (i + 1)]
    BY <1>2, <2>1
  <2>. QED BY <1>1, <2>1, <2>2
<1>5. ASSUME NEW i \in DOMAIN FramesInformation'
      PROVE  /\ FramesInformation'[i].kind = section'[i].kind
             /\ IsFDE(i)' => /\ FramesInformation'[i].begin = section'[i].begin
                             /\ FramesInformation'[i].size = section'[i].size
  <2>1. CASE i = n + 1
    BY <2>1, <1>1, <1>3 DEF IsFDE
  <2>2. CASE i \in 1..n
    BY <2>2, <1>1 DEF ReadSoFar, IsFDE
  <2>. QED BY <2>1, <2>2, <1>1
<1>6. Len(FramesInformation') + Len(unread') = Len(section')
  <2>1. n + Len(unread) = Len(section) /\ section' = section
    BY DEF ReadSoFar, n
  <2>2. Len(section') = n + Len(unread)
    BY <2>1
  <2>. QED BY <1>1, <2>2
<1>. QED BY <1>1, <1>4, <1>5, <1>6 DEF ReadSoFar

LEMMA TableStepInv ==
  ASSUME TableInv, [FrameNext]_frameVars
  PROVE  TableInv'
<1> USE DEF TableInv
<1>1. CASE parseCIE
  <2>1. Head(unread) \in Entry /\ stage' = "parse" /\ UNCHANGED address
    BY <1>1 DEF parseCIE, Reading, ReadSoFar, lookupVars
  <2>2. ReadSoFar'
    BY <1>1, <2>1, ReadInv DEF parseCIE, Reading, ReadSoFar
  <2>. QED BY <2>1, <2>2 DEF OnlyEntry
<1>2. CASE parseFDE
  <2> DEFINE e == [Head(unread) EXCEPT !.CIE = curCIE]
  <2>1. /\ Head(unread) \in FDEEntry /\ curCIE \in Nat
        /\ stage' = "parse" /\ UNCHANGED address
    <3>1. /\ stage = "parse" /\ unread # <<>> /\ Head(unread).kind = "fde"
          /\ UNCHANGED <<lookupVars, stage>>
      BY <1>2 DEF parseFDE, Reading
    <3>2. Head(unread) \in Entry /\ curCIE \in Nat
      BY <3>1 DEF ReadSoFar
    <3>3. Head(unread) \in FDEEntry
      BY <3>1, <3>2 DEF Entry, CIEEntry, FDEEntry
    <3>. QED BY <3>1, <3>2, <3>3 DEF lookupVars
  <2>2. e \in FDEEntry /\ e.kind = "fde" /\ e.begin = Head(unread).begin
        /\ e.size = Head(unread).size /\ Head(unread).kind = "fde"
    BY <2>1 DEF FDEEntry
  <2>3. ReadSoFar'
    <3> HIDE DEF e
    <3>1. Read(e) /\ unread # <<>> /\ UNCHANGED <<section, curCIE>>
      BY <1>2 DEF parseFDE, Reading, e
    <3>. QED BY <2>1, <2>2, <3>1, ReadInv DEF Entry
  <2>. QED BY <2>1, <2>3 DEF OnlyEntry
<1>3. CASE parseCut \/ parseShort
  BY <1>3 DEF parseCut, parseShort, Reading, ReadSoFar, IsFDE, OnlyEntry, lookupVars
<1>4. CASE parseEnd
  BY <1>4 DEF parseEnd, ReadSoFar, IsFDE, OnlyEntry, tableVars, lookupVars
<1>5. ASSUME NEW a \in Addrs, notFound(a) PROVE TableInv'
  BY <1>5, FrameAssumption
  DEF notFound, Finish, ReadSoFar, IsFDE, OnlyEntry, tableVars
<1>6. ASSUME NEW a \in Addrs, findFDE(a) PROVE TableInv'
  <2>1. UNCHANGED tableVars /\ address' = a /\ Covering(a) = {fde'}
        /\ stage = "ready" /\ stage' = "cie"
    BY <1>6 DEF findFDE
  <2>2. Covering(a)' = Covering(a)
    BY <2>1 DEF Covering, InFDE, IsFDE, tableVars
  <2>3. ReadSoFar'
    BY <2>1 DEF ReadSoFar, IsFDE, tableVars
  <2>4. OnlyEntry'
    BY <2>1, <2>2, FrameAssumption DEF OnlyEntry, Covering, InFDE, IsFDE, tableVars
  <2>. QED BY <2>3, <2>4
<1>7. ASSUME UNCHANGED <<tableVars, address, fde>>,
             \/ stage \in {"cie", "fde", "base"}
             \/ stage' = stage,
             stage' \in {"ready", "cie", "fde", "base"} \/ stage' = stage
      PROVE  TableInv'
  <2>1. ReadSoFar'
    BY <1>7 DEF ReadSoFar, IsFDE, tableVars
  <2>2. OnlyEntry'
    BY <1>7 DEF OnlyEntry, Covering, InFDE, IsFDE, tableVars
  <2>. QED BY <2>1, <2>2
<1>8. CASE execCIEInstruction
  BY <1>8, <1>7 DEF execCIEInstruction
<1>9. CASE cieExecuted
  BY <1>9, <1>7 DEF cieExecuted
<1>10. CASE execFDEInstruction
  BY <1>10, <1>7 DEF execFDEInstruction
<1>11. CASE execFails
  BY <1>11, <1>7 DEF execFails, Finish
<1>12. CASE fdeExecuted
  BY <1>12, <1>7 DEF fdeExecuted, lookupVars
<1>13. CASE frameBase
  BY <1>13, <1>7 DEF frameBase, Finish
<1>14. CASE UNCHANGED frameVars
  BY <1>14, <1>7 DEF frameVars, tableVars
<1>. QED
  BY <1>1, <1>2, <1>3, <1>4, <1>5, <1>6, <1>8, <1>9, <1>10, <1>11, <1>12, <1>13, <1>14
  DEF FrameNext

\* With an entry for each function, the only covering entry is the function's own, unless
\* that has not been read and the neighbour's reaches its first address.
LEMMA OnlyEntryIsOwn ==
  ASSUME FunctionsHaveEntries(section), TableInv
  PROVE  FrameIsOwn
<1> SUFFICES ASSUME stage \in {"cie", "fde", "base"},
                    NEW f \in findFunctionIncludePc(address),
                    ~IsEntryOf(section[fde], f)
             PROVE  /\ address = f.lowpc
                    /\ \E i \in DOMAIN unread : IsEntryOf(unread[i], f)
  BY DEF FrameIsOwn
<1> DEFINE n == Len(FramesInformation)
<1>1. /\ f \in Functions /\ f.lowpc \in Nat /\ f.highpc \in Nat /\ f.highpc < 2^Width
      /\ f.lowpc <= address /\ address < f.highpc /\ address \in Nat
  BY FrameAssumption DEF findFunctionIncludePc, FunctionsHaveEntries, TableInv, OnlyEntry
<1>2. /\ Covering(address) = {fde}
      /\ \A i \in DOMAIN FramesInformation :
           /\ FramesInformation[i].kind = section[i].kind
           /\ IsFDE(i) => /\ FramesInformation[i].begin = section[i].begin
                          /\ FramesInformation[i].size = section[i].size
  BY DEF TableInv, OnlyEntry, ReadSoFar
<1>3. /\ n \in Nat /\ DOMAIN FramesInformation = 1..n
      /\ Len(unread) \in Nat /\ DOMAIN unread = 1..Len(unread)
      /\ DOMAIN section = 1..(n + Len(unread))
      /\ \A i \in DOMAIN unread : unread[i] = section[n + i]
  <2>1. section \in Seq(Entry)
    BY FrameAssumption DEF TableInv, ReadSoFar
  <2>2. /\ n \in Nat /\ DOMAIN FramesInformation = 1..n
        /\ Len(unread) \in Nat /\ DOMAIN unread = 1..Len(unread)
        /\ Len(section) = n + Len(unread)
        /\ \A i \in DOMAIN unread : unread[i] = section[n + i]
    BY DEF TableInv, ReadSoFar
  <2> HIDE DEF n
  <2>. QED BY <2>1, <2>2
<1> HIDE DEF n
<1>4. ASSUME NEW i \in DOMAIN section, section[i].kind = "fde"
      PROVE  section[i].begin \in Nat /\ section[i].size \in Nat
  <2>1. PICK B : B = Entry
    OBVIOUS
  <2>2. section \in Seq(B)
    BY <2>1, FrameAssumption DEF TableInv, ReadSoFar
  <2>3. section[i] \in B
    BY <2>2, ElementInRange
  <2>. QED BY <2>1, <2>3, <1>4 DEF Entry, FDEEntry, CIEEntry
<1>5. address = f.lowpc
  <2> DEFINE b == section[fde].begin
             z == section[fde].size
  <2>1. /\ fde \in DOMAIN FramesInformation /\ IsFDE(fde)
        /\ FramesInformation[fde].begin = b /\ FramesInformation[fde].size = z
        /\ b <= address /\ address <= Wrap(b + z)
        /\ section[fde].kind = "fde"
    BY <1>2 DEF Covering, InFDE, IsFDE
  <2>2. fde \in DOMAIN section
    BY <1>3, <2>1
  <2>3. b \in Nat /\ z \in Nat
    BY <1>4, <2>1, <2>2
  <2>4. b + z <= f.lowpc \/ f.highpc <= b
    BY <1>1, <2>1, <2>2 DEF FunctionsHaveEntries
  <2> HIDE DEF b, z
  <2>5. b + z <= f.lowpc
    BY <1>1, <2>1, <2>3, <2>4
  <2>6. 2^Width \in Nat
    BY WidthPositive
  <2>7. b + z \in Nat /\ b + z < 2^Width
    BY <1>1, <2>3, <2>5, <2>6
  <2>8. Wrap(b + z) = b + z
    BY <2>7, WrapSmall
  <2>. QED BY <1>1, <2>1, <2>3, <2>5, <2>8
<1>6. PICK i \in DOMAIN section : IsEntryOf(section[i], f)
  BY <1>1 DEF FunctionsHaveEntries
<1>7. i \notin DOMAIN FramesInformation
  <2> SUFFICES ASSUME i \in DOMAIN FramesInformation PROVE FALSE
    OBVIOUS
  <2>1. IsFDE(i) /\ FramesInformation[i].begin = f.lowpc
        /\ FramesInformation[i].begin + FramesInformation[i].size = f.highpc
    BY <1>2, <1>6 DEF IsFDE, IsEntryOf
  <2>2. Wrap(FramesInformation[i].begin + FramesInformation[i].size) = f.highpc
    BY <1>1, <2>1, WrapSmall
  <2>3. i \in Covering(address)
    BY <1>1, <2>1, <2>2 DEF Covering, InFDE
  <2>. QED BY <1>2, <1>6, <2>3
<1>8. i - n \in DOMAIN unread /\ n + (i - n) = i
  BY <1>3, <1>7
<1>9. IsEntryOf(unread[i - n], f)
  BY <1>3, <1>6, <1>8
<1>. QED BY <1>5, <1>8, <1>9

\* A section that has been chosen stays.
LEMMA SectionStays ==
  ASSUME [FrameNext]_frameVars
  PROVE  section' = section
<1> USE DEF tableVars, lookupVars
<1>1. CASE parseCIE \/ parseFDE \/ parseCut \/ parseShort \/ parseEnd
  BY <1>1 DEF parseCIE, parseFDE, parseCut, parseShort, parseEnd, Reading
<1>2. ASSUME NEW a \in Addrs, notFound(a) \/ findFDE(a) PROVE section' = section
  BY <1>2 DEF notFound, findFDE
<1>3. CASE execCIEInstruction \/ cieExecuted \/ execFDEInstruction \/ execFails
             \/ fdeExecuted \/ frameBase
  BY <1>3 DEF execCIEInstruction, cieExecuted, execFDEInstruction, execFails, fdeExecuted,
              frameBase
<1>4. CASE UNCHANGED frameVars
  BY <1>4 DEF frameVars
<1>. QED BY <1>1, <1>2, <1>3, <1>4 DEF FrameNext

OwnEntryInv == TableInv /\ FunctionsHaveEntries(section)

\* The theorem for FrameIsOwn: wherever reading the section has stopped and whatever the
\* sizes and the order of the entries, findFrameInformation executes the instructions of a
\* neighbouring function's entry at most at the first address of a function whose own entry
\* was not read, in a section that has one entry for each function.
THEOREM FrameOfFunction ==
  FrameSpec /\ FunctionsHaveEntries(section) => []FrameIsOwn
<1>1. FrameInit /\ FunctionsHaveEntries(section) => OwnEntryInv
  BY TableInitInv DEF OwnEntryInv
<1>2. OwnEntryInv /\ [FrameNext]_frameVars => OwnEntryInv'
  <2> SUFFICES ASSUME OwnEntryInv, [FrameNext]_frameVars PROVE OwnEntryInv'
    OBVIOUS
  <2>1. section' = section
    BY SectionStays
  <2>2. FunctionsHaveEntries(section)'
    BY <2>1 DEF OwnEntryInv, FunctionsHaveEntries
  <2>. QED BY <2>2, TableStepInv DEF OwnEntryInv
<1>3. OwnEntryInv => FrameIsOwn
  BY OnlyEntryIsOwn DEF OwnEntryInv
<1>. QED BY <1>1, <1>2, <1>3, PTL DEF FrameSpec

-----------------------------------------------------------------------------
(***************************************************************************)
(* Types.  What is read of an entry has its types, and an entry is         *)
(* executed with a CIE.                                                    *)
(***************************************************************************)

\* Each entry that has been read is the section's, and an FDE has got the last CIE before it.
CIEsRead ==
  /\ IsLastCIE(section, curCIE, Len(FramesInformation) + 1)
  /\ \A i \in DOMAIN FramesInformation :
       /\ ~IsFDE(i) => FramesInformation[i] = section[i]
       /\ IsFDE(i) => /\ FramesInformation[i].instructions = section[i].instructions
                      /\ IsLastCIE(section, FramesInformation[i].CIE, i)

FrameState ==
  /\ CfaTypeOK
  /\ buf \in Seq(Instruction)
  /\ stage \in {"parse", "crashed", "ready", "cie", "fde", "base"}
  /\ stage = "parse" => found = Nothing
  /\ found \in [outcome : Outcomes, base : Uint]
  /\ fde \in 0..Len(section)
  /\ stage \in {"cie", "fde", "base"} =>
       /\ fde \in DOMAIN FramesInformation
       /\ IsFDE(fde)
       /\ FramesInformation[fde].CIE # 0

FrameInv == TableInv /\ CIEsRead /\ FrameState

LEMMA SignedMachine ==
  ASSUME NEW x \in Int
  PROVE  Signed(x) \in Int64
BY SignedIsSame

LEMMA ZeroIsMachine == 0 \in Uint /\ 0 \in Int64
<1> DEFINE M == 2^Width
           H == 2^(Width - 1)
<1>1. M \in Nat \ {0} /\ H \in Nat \ {0}
  BY WidthPositive
<1>2. Uint = 0..(M - 1) /\ Int64 = (-H)..(H - 1)
  BY DEF Uint, Int64
<1> HIDE DEF M, H
<1>. QED BY <1>1, <1>2

LEMMA MachineNumbers == Uint \subseteq Int /\ Int64 \subseteq Int
<1> DEFINE M == 2^Width
           H == 2^(Width - 1)
<1>1. M \in Nat \ {0} /\ H \in Nat \ {0}
  BY WidthPositive
<1>2. Uint = 0..(M - 1) /\ Int64 = (-H)..(H - 1)
  BY DEF Uint, Int64
<1> HIDE DEF M, H
<1>. QED BY <1>1, <1>2

\* The fields of an instruction have the types that its decoding needs.
LEMMA InstructionFields ==
  ASSUME NEW i \in Instruction
  PROVE  /\ i.reg \in Nat /\ i.delta \in Nat
         /\ i.operand \in Seq(0..255) \ {<<>>}
BY DEF Instruction

\* The instruction at the head of the buffer, and what the decoders make of its operand.
LEMMA HeadInstruction ==
  ASSUME buf \in Seq(Instruction), buf # <<>>
  PROVE  /\ Head(buf) \in Instruction
         /\ Tail(buf) \in Seq(Instruction)
         /\ Head(buf).reg \in Nat
         /\ Head(buf).delta \in Nat
         /\ Head(buf).operand \in Seq(0..255)
         /\ Head(buf).operand # <<>>
         /\ DecodeULEB128(Head(buf).operand) \in Int
         /\ DecodeSLEB128(Head(buf).operand) \in Int
<1>1. Head(buf) \in Instruction /\ Tail(buf) \in Seq(Instruction)
  OBVIOUS
<1>2. /\ Head(buf).reg \in Nat /\ Head(buf).delta \in Nat
      /\ Head(buf).operand \in Seq(0..255) \ {<<>>}
  BY <1>1, InstructionFields
<1>. QED BY <1>1, <1>2, UnsignedDecoded, SignedDecoded

LEMMA ExecTypes ==
  ASSUME CfaTypeOK, buf \in Seq(Instruction), NEW cie \in CIEEntry,
         execSingleInstruction(cie)
  PROVE  CfaTypeOK' /\ buf' \in Seq(Instruction)
<1>1. buf # <<>> /\ buf' = Tail(buf)
  BY DEF execSingleInstruction, offset_extended, def_cfa, def_cfa_register,
     def_cfa_offset_sf, advance_loc, restore, nop, Fetch
<1>2. cie.data_alignment_factor \in Int /\ cie.code_alignment_factor \in Nat
  BY DEF CIEEntry
<1> DEFINE u == DecodeULEB128(Head(buf).operand)
           s == DecodeSLEB128(Head(buf).operand)
           daf == cie.data_alignment_factor
<1>3. u \in Int /\ s \in Int /\ Head(buf).reg \in Nat /\ Head(buf).delta \in Nat
      /\ buf' \in Seq(Instruction)
  BY <1>1, HeadInstruction
<1>4. Signed(u * daf) \in Int64 /\ Signed(u) \in Int64 /\ Signed(s * daf) \in Int64
  <2> HIDE DEF u, s, daf
  <2>1. u * daf \in Int /\ s * daf \in Int
    BY <1>2, <1>3 DEF daf
  <2>. QED BY <1>3, <2>1, SignedMachine
<1> HIDE DEF u, s, daf
<1>5. CASE offset_extended(cie)
  BY <1>3, <1>4, <1>5 DEF offset_extended, CfaTypeOK, DWRule, u, daf
<1>6. CASE def_cfa
  BY <1>3, <1>4, <1>6 DEF def_cfa, CfaTypeOK, u
<1>7. CASE def_cfa_register
  BY <1>3, <1>7 DEF def_cfa_register, CfaTypeOK
<1>8. CASE def_cfa_offset_sf(cie)
  BY <1>3, <1>4, <1>8 DEF def_cfa_offset_sf, CfaTypeOK, s, daf
<1>9. CASE advance_loc(cie)
  <2>1. loc + Head(buf).delta * cie.code_alignment_factor \in Int
    BY <1>2, <1>3 DEF CfaTypeOK
  <2>2. Wrap(loc + Head(buf).delta * cie.code_alignment_factor) \in Nat
    BY <2>1, WrapIsSame
  <2>. QED BY <1>3, <1>9, <2>2 DEF advance_loc, CfaTypeOK
<1>10. CASE restore
  BY <1>3, <1>10, ZeroIsMachine DEF restore, CfaTypeOK, DWRule
<1>11. CASE nop
  BY <1>3, <1>11 DEF nop, CfaTypeOK
<1>. QED
  BY <1>3, <1>5, <1>6, <1>7, <1>8, <1>9, <1>10, <1>11 DEF execSingleInstruction

LEMMA NewFrameTypes == NewFrame => CfaTypeOK'
BY ZeroIsMachine DEF NewFrame, CfaTypeOK, DWRule

\* The CIE of an FDE that has been read.
LEMMA CIEOfFDE ==
  ASSUME TableInv, CIEsRead, NEW i \in DOMAIN FramesInformation, IsFDE(i),
         FramesInformation[i].CIE # 0
  PROVE  LET c == FramesInformation[i].CIE
         IN  /\ c \in DOMAIN FramesInformation
             /\ FramesInformation[c] \in CIEEntry
             /\ FramesInformation[c] = section[c]
             /\ FramesInformation[i] \in FDEEntry
             /\ section[i].kind = "fde"
             /\ i \in DOMAIN section
             /\ section[i] \in FDEEntry
             /\ FramesInformation[i].instructions = section[i].instructions
             /\ FramesInformation[i].begin = section[i].begin
             /\ IsLastCIE(section, c, i)
<1> DEFINE c == FramesInformation[i].CIE
<1>1. IsLastCIE(section, c, i) /\ FramesInformation[i].instructions = section[i].instructions
  BY DEF CIEsRead
<1>2. FramesInformation \in Seq(Entry) /\ section \in Seq(Entry)
      /\ Len(FramesInformation) <= Len(section)
  <2>1. PICK B : B = Entry
    OBVIOUS
  <2>2. section \in Seq(B) /\ FramesInformation \in Seq(B) /\ unread \in Seq(B)
    BY <2>1, FrameAssumption DEF TableInv, ReadSoFar
  <2>3. Len(FramesInformation) + Len(unread) = Len(section)
    BY DEF TableInv, ReadSoFar
  <2>4. /\ Len(section) \in Nat /\ Len(FramesInformation) \in Nat /\ Len(unread) \in Nat
    BY <2>2
  <2>5. Len(FramesInformation) <= Len(section)
    BY <2>3, <2>4
  <2>. QED BY <2>1, <2>2, <2>5
<1>3. FramesInformation[i] \in Entry
  BY <1>2, ElementInRange
<1>4. FramesInformation[i] \in FDEEntry
  BY <1>3 DEF IsFDE, Entry, CIEEntry, FDEEntry
<1>5. c \in Nat \ {0} /\ c < i
  BY <1>1, <1>2 DEF IsLastCIE
<1>6. c \in DOMAIN FramesInformation
  BY <1>2, <1>5
<1>7. section[c].kind = "cie"
  BY <1>1 DEF IsLastCIE
<1>8. FramesInformation[c].kind = "cie"
  BY <1>6, <1>7 DEF TableInv, ReadSoFar
<1>9. FramesInformation[c] = section[c]
  BY <1>6, <1>8 DEF CIEsRead, IsFDE
<1>10. FramesInformation[c] \in Entry
  BY <1>2, <1>6
<1>11. FramesInformation[c] \in CIEEntry
  BY <1>8, <1>10 DEF Entry, CIEEntry, FDEEntry
<1>12. section[i].kind = "fde" /\ FramesInformation[i].begin = section[i].begin
  BY DEF TableInv, ReadSoFar, IsFDE
<1>13. i \in DOMAIN section /\ section[i] \in Entry
  BY <1>2
<1>14. section[i] \in FDEEntry
  BY <1>12, <1>13 DEF Entry, CIEEntry, FDEEntry
<1> HIDE DEF c
<1>. QED
  BY <1>1, <1>4, <1>6, <1>9, <1>11, <1>12, <1>13, <1>14 DEF c

LEMMA FrameInitInv == FrameInit => FrameInv
<1> SUFFICES ASSUME FrameInit PROVE FrameInv
  OBVIOUS
<1>1. TableInv
  BY TableInitInv
<1>2. CIEsRead
  BY DEF FrameInit, CIEsRead, IsLastCIE
<1>3. CfaTypeOK
  BY ZeroIsMachine DEF FrameInit, CfaTypeOK, DWRule
<1>4. section \in Seq(Entry)
  BY FrameAssumption DEF FrameInit
<1>5. FrameState
  BY <1>3, <1>4, ZeroIsMachine DEF FrameInit, FrameState, Nothing, Outcomes
<1>. QED BY <1>1, <1>2, <1>5 DEF FrameInv

\* Reading an entry, with the position of the last CIE.
LEMMA ReadCIEs ==
  ASSUME TableInv, CIEsRead, unread # <<>>, UNCHANGED section,
         NEW e \in Entry, Read(e),
         \/ /\ Head(unread).kind = "cie"
            /\ e = Head(unread)
            /\ curCIE' = Len(FramesInformation) + 1
         \/ /\ Head(unread).kind = "fde"
            /\ e = [Head(unread) EXCEPT !.CIE = curCIE]
            /\ curCIE' = curCIE
  PROVE  CIEsRead'
<1> PICK n \in Nat : n = Len(FramesInformation)
  BY DEF TableInv, ReadSoFar
<1>1. /\ n = Len(FramesInformation)
      /\ DOMAIN FramesInformation = 1..n
      /\ DOMAIN FramesInformation' = 1..(n + 1)
      /\ Len(FramesInformation') = n + 1
      /\ \A i \in 1..n : FramesInformation'[i] = FramesInformation[i]
      /\ FramesInformation'[n + 1] = e
      /\ section' = section
      /\ Head(unread) = unread[1] /\ 1 \in DOMAIN unread
  BY DEF TableInv, ReadSoFar, Read
<1>2. Head(unread) = section[n + 1] /\ Head(unread) \in Entry
  <2>1. unread \in Seq(Entry)
    BY DEF TableInv, ReadSoFar
  <2>2. unread[1] \in Entry
    BY <1>1, <2>1, ElementInRange
  <2>3. unread[1] = section[n + 1]
    BY <1>1 DEF TableInv, ReadSoFar
  <2>. QED BY <1>1, <2>2, <2>3
<1>3. IsLastCIE(section, curCIE, n + 1)
  BY DEF CIEsRead
<1>4. ASSUME NEW i \in 1..n
      PROVE  /\ ~IsFDE(i)' => FramesInformation'[i] = section[i]
             /\ IsFDE(i)' => /\ FramesInformation'[i].instructions = section[i].instructions
                             /\ IsLastCIE(section, FramesInformation'[i].CIE, i)
  BY <1>1 DEF CIEsRead, IsFDE
<1>5. CASE Head(unread).kind = "cie"
  <2>1. e = section[n + 1] /\ section[n + 1].kind = "cie" /\ curCIE' = n + 1
    BY <1>2, <1>5
  <2>2. ~IsFDE(n + 1)'
    BY <1>1, <2>1 DEF IsFDE
  <2>3. IsLastCIE(section, n + 1, n + 2)
    BY <1>1, <2>1 DEF IsLastCIE
  <2>4. Len(FramesInformation') + 1 = n + 2
    BY <1>1
  <2>. QED BY <1>1, <1>4, <2>1, <2>2, <2>3, <2>4 DEF CIEsRead
<1>6. CASE Head(unread).kind = "fde"
  <2>1. Head(unread) \in FDEEntry
    BY <1>2, <1>6 DEF Entry, CIEEntry, FDEEntry
  <2>2. /\ e = [section[n + 1] EXCEPT !.CIE = curCIE]
        /\ section[n + 1].kind = "fde" /\ section[n + 1] \in FDEEntry
        /\ curCIE' = curCIE
    BY <1>2, <1>6, <2>1
  <2>3. e.CIE = curCIE /\ e.kind = "fde" /\ e.instructions = section[n + 1].instructions
    BY <2>2 DEF FDEEntry
  <2>4. IsLastCIE(section, curCIE, n + 2)
    BY <1>1, <1>3, <2>2 DEF IsLastCIE
  <2>5. Len(FramesInformation') + 1 = n + 2
    BY <1>1
  <2>6. IsFDE(n + 1)' => IsLastCIE(section, FramesInformation'[n + 1].CIE, n + 1)
    BY <1>1, <1>3, <2>3
  <2>7. /\ IsFDE(n + 1)'
        /\ FramesInformation'[n + 1].instructions = section[n + 1].instructions
    BY <1>1, <2>3 DEF IsFDE
  <2>8. ASSUME NEW i \in 1..(n + 1)
        PROVE  /\ ~IsFDE(i)' => FramesInformation'[i] = section[i]
               /\ IsFDE(i)' => /\ FramesInformation'[i].instructions = section[i].instructions
                               /\ IsLastCIE(section, FramesInformation'[i].CIE, i)
    <3>1. CASE i \in 1..n
      BY <1>4, <3>1
    <3>2. CASE i = n + 1
      BY <2>6, <2>7, <3>2
    <3>. QED BY <3>1, <3>2
  <2>. QED BY <1>1, <2>2, <2>4, <2>5, <2>8 DEF CIEsRead
<1>. QED BY <1>5, <1>6

\* Steps that read no entry.
LEMMA CIEsUnchanged ==
  ASSUME CIEsRead, UNCHANGED tableVars
  PROVE  CIEsRead'
BY DEF CIEsRead, tableVars, IsFDE

LEMMA FinishTypes ==
  ASSUME NEW o \in Outcomes, NEW x \in Uint, Finish(o, x)
  PROVE  stage' = "ready" /\ found' \in [outcome : Outcomes, base : Uint]
BY DEF Finish

LEMMA FinishOutcome ==
  ASSUME NEW o, NEW x, Finish(o, x)
  PROVE  stage' = "ready" /\ found'.outcome = o /\ found'.base = x
BY DEF Finish

LEMMA FrameStepInv ==
  ASSUME FrameInv, [FrameNext]_frameVars
  PROVE  FrameInv'
<1>1. TableInv'
  BY TableStepInv DEF FrameInv
<1>2. section \in Seq(Entry) /\ section' = section
      /\ Len(FramesInformation) <= Len(section)
      /\ Len(FramesInformation) \in Nat
      /\ DOMAIN FramesInformation = 1..Len(FramesInformation)
  <2>1. section' = section
    BY DEF FrameNext, frameVars, parseCIE, parseFDE, parseCut, parseShort, Reading, parseEnd, notFound,
       findFDE, execCIEInstruction, cieExecuted, execFDEInstruction, execFails, fdeExecuted,
       frameBase, tableVars
  <2>2. PICK B : B = Entry
    OBVIOUS
  <2>3. section \in Seq(B) /\ FramesInformation \in Seq(B) /\ unread \in Seq(B)
    BY <2>2, FrameAssumption DEF FrameInv, TableInv, ReadSoFar
  <2>4. Len(FramesInformation) + Len(unread) = Len(section)
    BY DEF FrameInv, TableInv, ReadSoFar
  <2>5. /\ Len(section) \in Nat /\ Len(FramesInformation) \in Nat /\ Len(unread) \in Nat
        /\ DOMAIN FramesInformation = 1..Len(FramesInformation)
    BY <2>3
  <2>6. Len(FramesInformation) <= Len(section)
    BY <2>4, <2>5
  <2>. QED BY <2>1, <2>2, <2>3, <2>5, <2>6
<1>3. CASE parseCIE \/ parseFDE
  <2>1. UNCHANGED <<lookupVars, stage>> /\ unread # <<>> /\ stage = "parse"
    BY <1>3 DEF parseCIE, parseFDE, Reading
  <2>2. FrameState'
    BY <1>2, <2>1 DEF FrameInv, FrameState, CfaTypeOK, cfaVars, lookupVars
  <2>3. Head(unread) \in Entry
    BY <2>1 DEF FrameInv, TableInv, ReadSoFar
  <2>4. parseCIE => CIEsRead'
    BY <1>2, <2>1, <2>3, ReadCIEs DEF parseCIE, Reading, FrameInv
  <2>5. parseFDE => CIEsRead'
    <3>0. SUFFICES ASSUME parseFDE PROVE CIEsRead'
      OBVIOUS
    <3> DEFINE e == [Head(unread) EXCEPT !.CIE = curCIE]
    <3>1. Head(unread) \in FDEEntry
      BY <2>3, <3>0 DEF parseFDE, Reading, Entry, CIEEntry, FDEEntry
    <3>2. curCIE \in Nat
      BY DEF FrameInv, TableInv, ReadSoFar
    <3>3. e \in Entry
      BY <3>1, <3>2 DEF Entry, FDEEntry
    <3>. QED BY <1>2, <2>1, <3>0, <3>3, ReadCIEs DEF parseFDE, Reading, FrameInv
  <2>. QED BY <1>1, <1>3, <2>2, <2>4, <2>5 DEF FrameInv
<1>4. ASSUME UNCHANGED tableVars, FrameState'
      PROVE  FrameInv'
  BY <1>1, <1>4, CIEsUnchanged DEF FrameInv
<1> USE DEF FrameInv
<1>5. CASE parseCut \/ parseShort
  <2>1. UNCHANGED tableVars
    BY <1>5 DEF parseCut, parseShort, Reading, tableVars
  <2>2. FrameState'
    BY <1>2, <1>5 DEF parseCut, parseShort, Reading, FrameState, CfaTypeOK, cfaVars, lookupVars
  <2>. QED BY <1>4, <2>1, <2>2
<1>6. CASE parseEnd
  <2>1. FrameState'
    BY <1>2, <1>6 DEF parseEnd, FrameState, CfaTypeOK, cfaVars, lookupVars, tableVars
  <2>. QED BY <1>4, <1>6, <2>1 DEF parseEnd
<1>7. ASSUME NEW a \in Addrs, notFound(a) PROVE FrameInv'
  <2>1. CfaTypeOK'
    BY <1>7 DEF notFound, FrameState, CfaTypeOK, cfaVars
  <2>2. Finish("not find", 0) \/ Finish("dumplicate", 0) \/ Finish("no cie", 0)
    BY <1>7 DEF notFound
  <2>3. stage' = "ready" /\ found' \in [outcome : Outcomes, base : Uint]
    BY <2>2, FinishTypes, ZeroIsMachine DEF Outcomes
  <2>4. fde' = 0 /\ buf' = buf /\ UNCHANGED tableVars
    BY <1>7 DEF notFound, cfaVars
  <2>5. FrameState'
    BY <1>2, <2>1, <2>3, <2>4 DEF FrameState
  <2>. QED BY <1>4, <2>4, <2>5
<1>8. ASSUME NEW a \in Addrs, findFDE(a) PROVE FrameInv'
  <2>1. PICK i \in Covering(a) :
          /\ FramesInformation[i].CIE # 0
          /\ fde' = i
          /\ buf' = FramesInformation[FramesInformation[i].CIE].instructions
    BY <1>8 DEF findFDE
  <2>2. i \in DOMAIN FramesInformation /\ IsFDE(i)
    BY DEF Covering, InFDE
  <2>3. FramesInformation[FramesInformation[i].CIE] \in CIEEntry
    BY <2>1, <2>2, CIEOfFDE
  <2>4. buf' \in Seq(Instruction)
    BY <2>1, <2>3 DEF CIEEntry
  <2>5. CfaTypeOK'
    BY <1>8, NewFrameTypes DEF findFDE
  <2>6. fde' \in 0..Len(section')
    BY <1>2, <2>1, <2>2
  <2>7. found' \in [outcome : Outcomes, base : Uint] /\ stage' = "cie" /\ UNCHANGED tableVars
    BY <1>8, ZeroIsMachine DEF findFDE, Nothing, Outcomes
  <2>8. fde' \in DOMAIN FramesInformation' /\ IsFDE(fde)' /\ FramesInformation'[fde'].CIE # 0
    BY <2>1, <2>2, <2>7 DEF tableVars, IsFDE
  <2>9. FrameState'
    BY <2>4, <2>5, <2>6, <2>7, <2>8 DEF FrameState
  <2>. QED BY <1>4, <2>7, <2>9
<1>9. ASSUME stage \in {"cie", "fde", "base"}, UNCHANGED <<tableVars, fde>>,
             CfaTypeOK', buf' \in Seq(Instruction),
             found' \in [outcome : Outcomes, base : Uint],
             stage' \in {"ready", "cie", "fde", "base"}
      PROVE  FrameInv'
  <2>1. FrameState'
    BY <1>2, <1>9 DEF FrameState, IsFDE, tableVars
  <2>. QED BY <1>4, <1>9, <2>1
<1>10. stage \in {"cie", "fde", "base"} => theCIE \in CIEEntry
  BY CIEOfFDE DEF FrameState, theCIE
<1>11. CASE execCIEInstruction
  BY <1>9, <1>10, <1>11, ExecTypes DEF execCIEInstruction, FrameState
<1>12. CASE cieExecuted
  <2>1. FramesInformation[fde] \in FDEEntry
    BY <1>12, CIEOfFDE DEF cieExecuted, FrameState
  <2>2. CfaTypeOK' /\ buf' \in Seq(Instruction)
    BY <1>12, <2>1 DEF cieExecuted, FrameState, CfaTypeOK, FDEEntry
  <2>. QED BY <1>9, <1>12, <2>2 DEF cieExecuted, FrameState
<1>13. CASE execFDEInstruction
  BY <1>9, <1>10, <1>13, ExecTypes DEF execFDEInstruction, FrameState
<1>14. CASE execFails
  <2>1. CfaTypeOK' /\ buf' \in Seq(Instruction)
    BY <1>14 DEF execFails, FrameState, CfaTypeOK, cfaVars
  <2>2. found' \in [outcome : Outcomes, base : Uint]
    BY <1>14, ZeroIsMachine DEF execFails, Finish, Outcomes
  <2>. QED BY <1>9, <1>14, <2>1, <2>2 DEF execFails, Finish
<1>15. CASE fdeExecuted
  <2>1. CfaTypeOK' /\ buf' \in Seq(Instruction)
    BY <1>15 DEF fdeExecuted, FrameState, CfaTypeOK, cfaVars, lookupVars
  <2>. QED BY <1>9, <1>15, <2>1 DEF fdeExecuted, FrameState, lookupVars
<1>16. CASE frameBase
  <2>1. CfaTypeOK' /\ buf' \in Seq(Instruction)
    BY <1>16 DEF frameBase, FrameState, CfaTypeOK, cfaVars
  <2>2. BaseKnown => Wrap(regs[cfa.reg] + cfa.offset) \in Uint
    <3>1. SUFFICES ASSUME BaseKnown PROVE Wrap(regs[cfa.reg] + cfa.offset) \in Uint
      OBVIOUS
    <3>2. regs[cfa.reg] \in Int /\ cfa.offset \in Int
      <4>1. cfa.reg \in Nat /\ cfa.reg < 17 /\ cfa.offset \in Int64
        BY <3>1 DEF BaseKnown, FrameState, CfaTypeOK
      <4>2. cfa.reg \in 0..16
        BY <4>1
      <4>. QED BY <4>1, <4>2, MachineNumbers, FrameAssumption
    <3>3. regs[cfa.reg] + cfa.offset \in Int
      BY <3>2
    <3>. QED BY <3>3, WrapIsSame
  <2>3. found' \in [outcome : Outcomes, base : Uint]
    <3>1. \/ Finish("no registers", 0)
          \/ BaseKnown /\ Finish("frame", Wrap(regs[cfa.reg] + cfa.offset))
          \/ Finish("invalid cfa", 0)
      BY <1>16 DEF frameBase
    <3>2. {"no registers", "frame", "invalid cfa"} \subseteq Outcomes
      BY DEF Outcomes
    <3>. QED BY <2>2, <3>1, <3>2, FinishTypes, ZeroIsMachine
  <2>. QED BY <1>9, <1>16, <2>1, <2>3 DEF frameBase, Finish
<1>17. CASE UNCHANGED frameVars
  <2>1. FrameState'
    BY <1>2, <1>17 DEF frameVars, FrameState, CfaTypeOK, cfaVars, IsFDE
  <2>. QED BY <1>4, <1>17, <2>1 DEF frameVars, tableVars
<1>. QED
  BY <1>3, <1>5, <1>6, <1>7, <1>8, <1>11, <1>12, <1>13, <1>14, <1>15, <1>16, <1>17
  DEF FrameNext

\* Reading a section and executing its instructions, the registers and the frame keep the
\* types of their Go counterparts, whatever the operands: no number leaves its width, and no
\* position points outside the table.
THEOREM FrameTypes == FrameSpec => []FrameTypeOK
<1>1. FrameInv => FrameTypeOK
  <2> SUFFICES ASSUME FrameInv PROVE FrameTypeOK
    OBVIOUS
  <2>1. /\ CfaTypeOK
        /\ stage \in {"parse", "crashed", "ready", "cie", "fde", "base"}
        /\ fde \in 0..Len(section)
        /\ found \in [outcome : Outcomes, base : Uint]
    BY DEF FrameInv, FrameState
  <2>2. section \in Sections /\ address \in Nat
    BY DEF FrameInv, TableInv, ReadSoFar, OnlyEntry
  <2>3. curCIE \in 0..Len(section)
    <3>1. PICK B : B = Entry
      OBVIOUS
    <3>2. section \in Seq(B) /\ FramesInformation \in Seq(B) /\ unread \in Seq(B)
      BY <3>1, FrameAssumption DEF FrameInv, TableInv, ReadSoFar
    <3>3. /\ Len(section) \in Nat /\ Len(FramesInformation) \in Nat /\ Len(unread) \in Nat
      BY <3>2
    <3>4. Len(FramesInformation) + Len(unread) = Len(section)
      BY DEF FrameInv, TableInv, ReadSoFar
    <3>5. IsLastCIE(section, curCIE, Len(FramesInformation) + 1)
      BY DEF FrameInv, CIEsRead
    <3>. QED BY <3>3, <3>4, <3>5 DEF IsLastCIE
  <2>. QED BY <2>1, <2>2, <2>3 DEF FrameTypeOK
<1>. QED BY <1>1, FrameInitInv, FrameStepInv, PTL DEF FrameSpec

-----------------------------------------------------------------------------
(***************************************************************************)
(* The row of an address.  The instructions executed are a prefix of those *)
(* of the CIE and the FDE: exactly the ones whose location does not lie    *)
(* beyond the address.  cfa holds what the last of them made it.           *)
(***************************************************************************)

RegOps    == {"def_cfa", "def_cfa_register"}
OffsetOps == {"def_cfa", "def_cfa_offset_sf"}

\* k is the last of the first n instructions of P that has one of the opcodes.
LastIn(P, k, n, ops) ==
  /\ k \in 1..n
  /\ P[k].op \in ops
  /\ \A j \in (k + 1)..n : P[j].op \notin ops

OffsetOf(i, factor) ==
  IF i.op = "def_cfa" THEN Number(i.operand) ELSE SignedNumber(i.operand) * factor

\* cfa is what the first n instructions of P make it; an offset, modulo the width.
RowOf(P, n, factor) ==
  cfa.rule = "cfa" =>
    /\ \E k \in 1..n : LastIn(P, k, n, RegOps) /\ cfa.reg = P[k].reg
    /\ \E k \in 1..n : LastIn(P, k, n, OffsetOps) /\ Same(cfa.offset, OffsetOf(P[k], factor))

LEMMA LastStays ==
  ASSUME NEW P, NEW n \in Nat, NEW ops, NEW k, LastIn(P, k, n, ops), P[n + 1].op \notin ops
  PROVE  LastIn(P, k, n + 1, ops) /\ k \in 1..(n + 1)
BY DEF LastIn

LEMMA LastIsNew ==
  ASSUME NEW P, NEW n \in Nat, NEW ops, P[n + 1].op \in ops
  PROVE  LastIn(P, n + 1, n + 1, ops) /\ n + 1 \in 1..(n + 1)
BY DEF LastIn

\* What def_cfa and def_cfa_offset_sf store is the offset of the row.
LEMMA OffsetIsRow ==
  ASSUME buf \in Seq(Instruction), buf # <<>>, NEW factor \in Int
  PROVE  LET i == Head(buf)
         IN  /\ i.op = "def_cfa" =>
                  Same(Signed(DecodeULEB128(i.operand)), OffsetOf(i, factor))
             /\ i.op = "def_cfa_offset_sf" =>
                  Same(Signed(DecodeSLEB128(i.operand) * factor), OffsetOf(i, factor))
<1>1. Head(buf).operand \in Seq(0..255) /\ Head(buf).operand # <<>>
  BY HeadInstruction
<1>2. PICK b \in Seq(0..255) : b = Head(buf).operand /\ b # <<>>
  BY <1>1
<1>3. PICK u \in Int : u = DecodeULEB128(b) /\ Same(u, Number(b)) /\ Number(b) \in Int
  BY <1>2, UnsignedDecoded
<1>4. PICK s \in Int :
        s = DecodeSLEB128(b) /\ Same(s, SignedNumber(b)) /\ SignedNumber(b) \in Int
  BY <1>2, SignedDecoded
<1>5. Same(Signed(u), Number(b))
  BY <1>3, SignedIsSame, SameIsEquivalence
<1>6. PICK v \in Int : v = SignedNumber(b)
  BY <1>4
<1>7. Same(s * factor, v * factor) /\ s * factor \in Int /\ v * factor \in Int
  <2>1. Same(s, v) /\ Same(factor, factor)
    BY <1>4, <1>6, SameIsEquivalence
  <2>2. Same(s * factor, v * factor)
    BY <2>1, SameArithmetic
  <2>. QED BY <2>2
<1>8. Same(Signed(s * factor), v * factor)
  BY <1>7, SignedIsSame, SameIsEquivalence
<1>. QED BY <1>2, <1>3, <1>4, <1>5, <1>6, <1>8 DEF OffsetOf

\* Executing the next instruction brings the row up to date.
LEMMA RowStep ==
  ASSUME CfaTypeOK, buf \in Seq(Instruction), NEW cie \in CIEEntry,
         execSingleInstruction(cie),
         NEW P, NEW n \in Nat, P[n + 1] = Head(buf),
         RowOf(P, n, cie.data_alignment_factor)
  PROVE  RowOf(P, n + 1, cie.data_alignment_factor)'
<1> PICK factor \in Int : factor = cie.data_alignment_factor
  BY DEF CIEEntry
<1>1. buf # <<>> /\ buf' = Tail(buf)
  BY DEF execSingleInstruction, offset_extended, def_cfa, def_cfa_register,
     def_cfa_offset_sf, advance_loc, restore, nop, Fetch
<1>2. /\ Head(buf).op = "def_cfa" =>
           Same(Signed(DecodeULEB128(Head(buf).operand)), OffsetOf(P[n + 1], factor))
      /\ Head(buf).op = "def_cfa_offset_sf" =>
           Same(Signed(DecodeSLEB128(Head(buf).operand) * factor), OffsetOf(P[n + 1], factor))
  BY <1>1, OffsetIsRow
<1>3. ASSUME cfa.rule = "cfa"
      PROVE  /\ \E k \in 1..n : LastIn(P, k, n, RegOps) /\ cfa.reg = P[k].reg
             /\ \E k \in 1..n :
                  LastIn(P, k, n, OffsetOps) /\ Same(cfa.offset, OffsetOf(P[k], factor))
  BY <1>3 DEF RowOf
<1>4. SUFFICES ASSUME cfa'.rule = "cfa"
               PROVE  /\ \E k \in 1..(n + 1) :
                           LastIn(P, k, n + 1, RegOps) /\ cfa'.reg = P[k].reg
                      /\ \E k \in 1..(n + 1) :
                           LastIn(P, k, n + 1, OffsetOps)
                           /\ Same(cfa'.offset, OffsetOf(P[k], factor))
  BY DEF RowOf
<1>5. CASE UNCHANGED cfa /\ P[n + 1].op \notin RegOps \cup OffsetOps
  BY <1>3, <1>4, <1>5, LastStays
<1>6. CASE def_cfa
  <2>1. P[n + 1].op \in RegOps /\ P[n + 1].op \in OffsetOps /\ Head(buf).op = "def_cfa"
    BY <1>6 DEF def_cfa, Fetch, RegOps, OffsetOps
  <2>2. cfa'.reg = P[n + 1].reg /\ Same(cfa'.offset, OffsetOf(P[n + 1], factor))
    BY <1>2, <1>6, <2>1 DEF def_cfa
  <2>. QED BY <2>1, <2>2, LastIsNew
<1>7. CASE def_cfa_register
  BY <1>4, <1>7 DEF def_cfa_register, CfaTypeOK
<1>8. CASE def_cfa_offset_sf(cie)
  <2>1. P[n + 1].op \notin RegOps /\ P[n + 1].op \in OffsetOps
        /\ Head(buf).op = "def_cfa_offset_sf"
    BY <1>8 DEF def_cfa_offset_sf, Fetch, RegOps, OffsetOps
  <2>2. cfa'.reg = cfa.reg /\ cfa.rule = "cfa"
        /\ Same(cfa'.offset, OffsetOf(P[n + 1], factor))
    BY <1>2, <1>4, <1>8, <2>1 DEF def_cfa_offset_sf, CfaTypeOK
  <2>. QED BY <1>3, <2>1, <2>2, LastStays, LastIsNew
<1>9. CASE offset_extended(cie) \/ restore \/ nop \/ advance_loc(cie)
  <2>1. UNCHANGED cfa /\ Head(buf).op \in {"offset_extended", "restore", "nop"} \cup Advance
    BY <1>9 DEF offset_extended, restore, nop, advance_loc, Fetch
  <2>. QED BY <1>5, <2>1 DEF RegOps, OffsetOps, Advance
<1>. QED BY <1>6, <1>7, <1>8, <1>9 DEF execSingleInstruction

\* A sum of natural numbers is one.
LEMMA SumNatural ==
  ASSUME NEW D, IsFiniteSet(D), NEW g, \A x \in D : g[x] \in Nat
  PROVE  SumOver(g, D) \in Nat
<1> DEFINE T == {s \in SUBSET D : SumOver(g, s) \in Nat}
<1>1. {} \in T
  BY SumEmpty
<1>2. ASSUME NEW s \in SUBSET D, NEW x \in D \ s, s \in T
      PROVE  s \cup {x} \in T
  <2>1. IsFiniteSet(s)
    BY FS_Subset
  <2>2. SumOver(g, s \cup {x}) = g[x] + SumOver(g, s)
    <3>1. g[x] \in Int /\ \A y \in s : g[y] \in Int
      OBVIOUS
    <3>. QED BY <2>1, <3>1, SumAdd
  <2>3. SumOver(g, s) \in Nat /\ g[x] \in Nat
    BY <1>2
  <2>. QED BY <2>2, <2>3
<1> HIDE DEF T
<1>3. D \in T
  BY <1>1, <1>2, FiniteInduction
<1>. QED BY <1>3 DEF T

\* The entry i of s and its CIE are an FDE and a CIE.
IsFrame(s, i) == s[i] \in FDEEntry /\ s[s[i].CIE] \in CIEEntry

HeadLen(s, i) == Len(s[s[i].CIE].instructions)

\* The elements of two sequences put together.
LEMMA Concatenation ==
  ASSUME NEW S, NEW x \in Seq(S), NEW y \in Seq(S)
  PROVE  /\ x \o y \in Seq(S)
         /\ Len(x) \in Nat /\ Len(x \o y) \in Nat /\ Len(x) <= Len(x \o y)
         /\ Len(x \o y) = Len(x) + Len(y)
         /\ \A k \in 1..Len(x) : (x \o y)[k] = x[k]
         /\ \A k \in 1..Len(y) : (x \o y)[Len(x) + k] = y[k]
<1>1. Len(x) \in Nat /\ Len(y) \in Nat
  OBVIOUS
<1>2. x \o y \in Seq(S) /\ Len(x \o y) = Len(x) + Len(y)
  OBVIOUS
<1>3. \A k \in 1..Len(x) : (x \o y)[k] = x[k]
  BY <1>1
<1>4. \A k \in 1..Len(y) : (x \o y)[Len(x) + k] = y[k]
  BY <1>1
<1>. QED BY <1>1, <1>2, <1>3, <1>4

LEMMA InstructionsType ==
  ASSUME NEW s, NEW i, IsFrame(s, i)
  PROVE  LET P == Instructions(s, i)
             c == HeadLen(s, i)
         IN  /\ P \in Seq(Instruction)
             /\ c \in Nat /\ Len(P) \in Nat /\ c <= Len(P)
             /\ Len(P) = c + Len(s[i].instructions)
             /\ \A k \in 1..c : P[k] = s[s[i].CIE].instructions[k]
             /\ \A k \in 1..Len(s[i].instructions) : P[c + k] = s[i].instructions[k]
<1>1. s[i].instructions \in Seq(Instruction) /\ s[s[i].CIE].instructions \in Seq(Instruction)
  BY DEF IsFrame, FDEEntry, CIEEntry
<1>2. PICK x \in Seq(Instruction), y \in Seq(Instruction) :
        x = s[s[i].CIE].instructions /\ y = s[i].instructions
  BY <1>1
<1>3. Instructions(s, i) = x \o y /\ HeadLen(s, i) = Len(x)
  BY <1>2 DEF Instructions, HeadLen
<1>4. PICK S : S = Seq(Instruction) /\ x \in S /\ y \in S /\ x \o y \in S
  BY Concatenation
<1>5. /\ Len(x) \in Nat /\ Len(x \o y) \in Nat /\ Len(x) <= Len(x \o y)
      /\ Len(x \o y) = Len(x) + Len(y)
      /\ \A k \in 1..Len(x) : (x \o y)[k] = x[k]
      /\ \A k \in 1..Len(y) : (x \o y)[Len(x) + k] = y[k]
  BY Concatenation
<1>6. PICK P : P = x \o y
  OBVIOUS
<1>. QED BY <1>2, <1>3, <1>4, <1>5, <1>6

\* How far each instruction of the FDE moves the location.
Moves(s, i) ==
  [j \in DOMAIN Instructions(s, i) |->
     Instructions(s, i)[j].delta * s[s[i].CIE].code_alignment_factor]

AdvancesBefore(s, i, k) ==
  {j \in (HeadLen(s, i) + 1)..Len(Instructions(s, i)) :
     j < k /\ Instructions(s, i)[j].op \in Advance}

LEMMA LocationIsSum ==
  ASSUME NEW s, NEW i, IsFrame(s, i), NEW k
  PROVE  Location(s, i, k) = s[i].begin + SumOver(Moves(s, i), AdvancesBefore(s, i, k))
<1> DEFINE D == AdvancesBefore(s, i, k)
           f == s[s[i].CIE].code_alignment_factor
           P == Instructions(s, i)
           E(iter) == [t \in SUBSET D |->
             IF t = {} THEN 0 ELSE Moves(s, i)[Some(t)] + iter[t \ {Some(t)}]]
           F(iter) == [t \in SUBSET D |->
             IF t = {} THEN 0 ELSE P[Some(t)].delta * f + iter[t \ {Some(t)}]]
<1>1. D \subseteq DOMAIN P
  BY InstructionsType DEF AdvancesBefore
<1>2. \A t \in SUBSET D : t # {} => Some(t) \in DOMAIN P
  BY <1>1 DEF Some
<1>3. \A iter : E(iter) = F(iter)
  BY <1>2 DEF Moves
<1>4. SumOver(Moves(s, i), D) = (CHOOSE iter : iter = E(iter))[D]
  BY DEF SumOver, SumIter
<1>5. Location(s, i, k) = s[i].begin + (CHOOSE iter : iter = F(iter))[D]
  BY DEF Location, MapThenSumSet, MapThenFoldSet, Some, AdvancesBefore, HeadLen
<1> HIDE DEF D, E, F
<1>. QED BY <1>3, <1>4, <1>5 DEF D

LEMMA MovesType ==
  ASSUME NEW s, NEW i, IsFrame(s, i)
  PROVE  \A j \in 1..Len(Instructions(s, i)) :
           /\ Moves(s, i)[j] \in Nat
           /\ Moves(s, i)[j] =
                Instructions(s, i)[j].delta * s[s[i].CIE].code_alignment_factor
<1> PICK P \in Seq(Instruction) : P = Instructions(s, i)
  BY InstructionsType
<1> PICK f \in Nat : f = s[s[i].CIE].code_alignment_factor
  BY DEF IsFrame, CIEEntry
<1> TAKE j \in 1..Len(Instructions(s, i))
<1>1. P[j] \in Instruction /\ j \in DOMAIN P
  OBVIOUS
<1>2. P[j].delta \in Nat
  BY <1>1, InstructionFields
<1>3. Moves(s, i)[j] = P[j].delta * f
  BY <1>1 DEF Moves
<1>. QED BY <1>2, <1>3

\* Locations do not decrease, and an instruction moves them as advance_loc does.
LEMMA LocationStep ==
  ASSUME NEW s, NEW i, IsFrame(s, i), NEW k \in Nat
  PROVE  LET P == Instructions(s, i)
             c == HeadLen(s, i)
         IN  /\ Location(s, i, k) \in Nat
             /\ k <= c + 1 => Location(s, i, k) = s[i].begin
             /\ k \in 1..Len(P) => Location(s, i, k) <= Location(s, i, k + 1)
             /\ k \in (c + 1)..Len(P) =>
                  Location(s, i, k + 1) = Location(s, i, k) +
                    (IF P[k].op \in Advance
                     THEN P[k].delta * s[s[i].CIE].code_alignment_factor
                     ELSE 0)
<1> DEFINE L(x) == Location(s, i, x)
           M == Moves(s, i)
           A(x) == AdvancesBefore(s, i, x)
<1> PICK P \in Seq(Instruction) : P = Instructions(s, i)
  BY InstructionsType
<1> PICK c \in Nat : c = HeadLen(s, i) /\ c <= Len(P)
  BY InstructionsType
<1>0. s[i].begin \in Nat
  BY DEF IsFrame, FDEEntry
<1>1. \A x : A(x) = {j \in (c + 1)..Len(P) : j < x /\ P[j].op \in Advance}
  BY DEF AdvancesBefore
<1>2. \A j \in 1..Len(P) : M[j] \in Nat
  BY MovesType
<1>3. \A x : IsFiniteSet(A(x)) /\ A(x) \subseteq 1..Len(P)
  <2>1. IsFiniteSet(1..Len(P)) /\ Len(P) \in Nat
    BY FS_Interval
  <2>2. \A x : A(x) \subseteq 1..Len(P)
    BY <1>1
  <2>. QED BY <2>1, <2>2, FS_Subset
<1>4. \A x : L(x) = s[i].begin + SumOver(M, A(x))
  BY LocationIsSum
<1>5. \A x : SumOver(M, A(x)) \in Nat
  BY <1>2, <1>3, SumNatural
<1>6. \A x : L(x) \in Nat
  BY <1>0, <1>4, <1>5
<1>7. \A x \in Nat : x <= c + 1 => L(x) = s[i].begin
  <2>1. ASSUME NEW x \in Nat, x <= c + 1 PROVE A(x) = {}
    BY <1>1, <2>1
  <2>2. SumOver(M, {}) = 0
    BY SumEmpty
  <2>3. ASSUME NEW x \in Nat, x <= c + 1 PROVE L(x) = s[i].begin + 0
    BY <1>4, <2>1, <2>2, <2>3
  <2>. QED BY <1>0, <2>3
<1>8. k \in (c + 1)..Len(P) =>
        L(k + 1) = L(k) + (IF P[k].op \in Advance THEN M[k] ELSE 0)
  <2>0. SUFFICES ASSUME k \in (c + 1)..Len(P)
                 PROVE  L(k + 1) = L(k) + (IF P[k].op \in Advance THEN M[k] ELSE 0)
    OBVIOUS
  <2>1. CASE P[k].op \in Advance
    <3>1. A(k + 1) = A(k) \cup {k} /\ k \notin A(k)
      BY <1>1, <2>0, <2>1
    <3>2. k \in 1..Len(P)
      BY <2>0
    <3>3. SumOver(M, A(k) \cup {k}) = M[k] + SumOver(M, A(k))
      <4>1. IsFiniteSet(A(k)) /\ A(k) \subseteq 1..Len(P)
        BY <1>3
      <4>2. M[k] \in Int /\ \A y \in A(k) : M[y] \in Int
        BY <1>2, <3>2, <4>1
      <4> HIDE DEF A, M
      <4>. QED BY <3>1, <4>1, <4>2, SumAdd
    <3>4. L(k + 1) = s[i].begin + SumOver(M, A(k) \cup {k})
      BY <1>4, <3>1
    <3>5. L(k) = s[i].begin + SumOver(M, A(k))
      BY <1>4
    <3>6. M[k] \in Nat /\ SumOver(M, A(k)) \in Nat
      BY <1>2, <1>5, <3>2
    <3>7. PICK m \in Nat, t \in Nat, b \in Nat :
            m = M[k] /\ t = SumOver(M, A(k)) /\ b = s[i].begin
      BY <1>0, <3>6
    <3> HIDE DEF L, M, A
    <3>8. L(k + 1) = b + (m + t) /\ L(k) = b + t
      BY <3>3, <3>4, <3>5, <3>7
    <3>9. L(k + 1) = L(k) + m
      BY <3>8
    <3>10. L(k + 1) \in Nat /\ L(k) \in Nat
      BY <3>8
    <3>. QED BY <1>0, <2>1, <3>7, <3>9, <3>10
  <2>2. CASE P[k].op \notin Advance
    <3>1. A(k + 1) = A(k)
      <4>1. \A j \in (c + 1)..Len(P) : j < k + 1 /\ j # k <=> j < k
        OBVIOUS
      <4> DEFINE B(x) == {j \in (c + 1)..Len(P) : j < x /\ P[j].op \in Advance}
      <4>2. B(k + 1) = B(k)
        BY <2>2, <4>1
      <4>. QED BY <1>1, <4>2
    <3>2. L(k + 1) = L(k)
      BY <1>4, <3>1
    <3>. QED BY <1>6, <2>2, <3>2
  <2>. QED BY <2>1, <2>2
<1>9. k \in 1..Len(P) => L(k) <= L(k + 1)
  <2>0. SUFFICES ASSUME k \in 1..Len(P) PROVE L(k) <= L(k + 1)
    OBVIOUS
  <2>1. M[k] \in Nat /\ L(k) \in Nat
    BY <1>2, <1>6, <2>0
  <2>2. CASE k <= c
    <3>1. L(k) = s[i].begin /\ L(k + 1) = s[i].begin
      BY <1>7, <2>2
    <3>. QED BY <1>0, <3>1
  <2>3. CASE ~(k <= c)
    <3>1. k \in (c + 1)..Len(P)
      BY <2>0, <2>3
    <3> HIDE DEF L, M
    <3>. QED BY <1>8, <2>1, <3>1
  <2>. QED BY <2>2, <2>3
<1>10. k \in (c + 1)..Len(P) => M[k] = P[k].delta * s[s[i].CIE].code_alignment_factor
  BY MovesType
<1> HIDE DEF L, M
<1>. QED BY <1>6, <1>7, <1>8, <1>9, <1>10 DEF L

LEMMA LocationMonotone ==
  ASSUME NEW s, NEW i, IsFrame(s, i),
         NEW k \in 1..(Len(Instructions(s, i)) + 1), NEW l \in Nat, k <= l,
         l <= Len(Instructions(s, i)) + 1
  PROVE  Location(s, i, k) <= Location(s, i, l)
<1> PICK N \in Nat : N = Len(Instructions(s, i))
  BY InstructionsType
<1> DEFINE L(x) == Location(s, i, x)
           T == {d \in Nat : k + d <= N + 1 => L(k) <= L(k + d)}
<1>1. \A x \in Nat : L(x) \in Nat
  BY LocationStep
<1>2. \A x \in 1..N : L(x) <= L(x + 1)
  BY LocationStep
<1> HIDE DEF L
<1>3. 0 \in T
  BY <1>1
<1>4. ASSUME NEW d \in Nat, d \in T PROVE d + 1 \in T
  <2>1. SUFFICES ASSUME k + (d + 1) <= N + 1 PROVE L(k) <= L(k + (d + 1))
    OBVIOUS
  <2>2. L(k) <= L(k + d)
    BY <1>4, <2>1
  <2>3. k + d \in 1..N /\ (k + d) + 1 = k + (d + 1)
    BY <2>1
  <2>4. L(k + d) <= L(k + (d + 1))
    BY <1>2, <2>3
  <2>5. L(k) \in Nat /\ L(k + d) \in Nat /\ L(k + (d + 1)) \in Nat
    <3>1. k \in Nat /\ k + d \in Nat /\ k + (d + 1) \in Nat
      OBVIOUS
    <3>. QED BY <1>1, <3>1
  <2>. QED BY <2>2, <2>4, <2>5
<1> HIDE DEF T
<1>5. Nat \subseteq T
  BY <1>3, <1>4, Induction
<1>6. l - k \in Nat /\ k + (l - k) = l
  OBVIOUS
<1>7. l - k \in T
  BY <1>5, <1>6
<1>. QED BY <1>6, <1>7 DEF T, L

-----------------------------------------------------------------------------
\* The first n instructions of the entry have been executed.
Executed(n) ==
  LET P == Instructions(section, fde)
      c == HeadLen(section, fde)
  IN  /\ n \in 0..Len(P)
      /\ \A k \in 1..n : Location(section, fde, k) <= address
      /\ RowOf(P, n, section[section[fde].CIE].data_alignment_factor)
      /\ stage = "cie" => n <= c /\ Len(buf) = c - n
      /\ stage = "fde" => /\ n >= c
                          /\ Len(buf) = Len(P) - n
                          /\ loc = Location(section, fde, n + 1)
      /\ stage \in {"cie", "fde"} => \A k \in 1..Len(buf) : buf[k] = P[n + k]
      /\ stage = "base" => n = Len(P) \/ Location(section, fde, n + 1) > address

RowInv ==
  /\ stage \in {"cie", "fde", "base"} =>
       /\ section[fde].begin <= address
       /\ \E n \in Nat : Executed(n)
  /\ CfaOfRow

\* The entry that is executed, in the section.
LEMMA OwnCIE ==
  ASSUME FramesAsExpected, TableInv, CIEsRead, NEW i \in DOMAIN FramesInformation, IsFDE(i),
         FramesInformation[i].CIE # 0
  PROVE  /\ IsFrame(section, i)
         /\ FramesInformation[FramesInformation[i].CIE] = section[section[i].CIE]
         /\ FramesInformation[i].instructions = section[i].instructions
         /\ FramesInformation[i].begin = section[i].begin
         /\ Location(section, i, Len(Instructions(section, i)) + 1) < 2^Width
<1> DEFINE c == FramesInformation[i].CIE
           d == section[i].CIE
<1>1. /\ c \in DOMAIN FramesInformation
      /\ FramesInformation[c] \in CIEEntry
      /\ FramesInformation[c] = section[c]
      /\ section[i].kind = "fde" /\ i \in DOMAIN section /\ section[i] \in FDEEntry
      /\ FramesInformation[i].instructions = section[i].instructions
      /\ FramesInformation[i].begin = section[i].begin
      /\ IsLastCIE(section, c, i)
  BY CIEOfFDE
<1>2. c \in Nat \ {0} /\ i \in Nat /\ section \in Sections
  <2>1. FramesInformation \in Seq(Entry) /\ section \in Sections
    BY DEF TableInv, ReadSoFar
  <2>2. DOMAIN FramesInformation \subseteq Nat \ {0}
    BY <2>1
  <2>. QED BY <1>1, <2>1, <2>2
<1>3. c \in 1..(i - 1) /\ section[c].kind = "cie"
  BY <1>1, <1>2 DEF IsLastCIE
<1> HIDE DEF c
<1>4. ~IsLastCIE(section, 0, i)
  BY <1>2, <1>3 DEF IsLastCIE
<1>5. IsLastCIE(section, d, i) /\ Location(section, i, Len(Instructions(section, i)) + 1) < 2^Width
  BY <1>1, <1>2, <1>4 DEF FramesAsExpected
<1> HIDE DEF d
<1>6. d \in 0..(i - 1) /\ \A j \in (d + 1)..(i - 1) : section[j].kind # "cie"
  BY <1>5 DEF IsLastCIE
<1>7. d # 0 => section[d].kind = "cie"
  BY <1>5 DEF IsLastCIE
<1>8. \A j \in (c + 1)..(i - 1) : section[j].kind # "cie"
  BY <1>1 DEF IsLastCIE
<1>9. ~(d < c)
  BY <1>2, <1>3, <1>6
<1>10. ~(c < d)
  BY <1>2, <1>3, <1>6, <1>7, <1>8
<1>11. c = d
  BY <1>2, <1>6, <1>9, <1>10
<1>. QED BY <1>1, <1>5, <1>11 DEF IsFrame, c, d

\* A list that ends where it ended has one element fewer.
LEMMA ShorterByOne ==
  ASSUME NEW n \in Nat, NEW end \in Nat, NEW l \in Nat \ {0}, NEW m, l = end - n, m = l - 1
  PROVE  n + 1 <= end /\ m = end - (n + 1)
OBVIOUS

\* The next instruction is executed: one that applies at the address.
LEMMA ExecutedStep ==
  ASSUME FramesAsExpected, FrameInv, stage \in {"cie", "fde"},
         NEW n \in Nat, Executed(n), execSingleInstruction(theCIE),
         UNCHANGED <<stage, address, fde, section>>,
         Location(section, fde, n + 1) <= address
  PROVE  Executed(n + 1)'
<1>0. PICK s, i : s = section /\ i = fde
  OBVIOUS
<1>1. /\ fde \in DOMAIN FramesInformation /\ IsFDE(fde) /\ FramesInformation[fde].CIE # 0
      /\ CfaTypeOK /\ buf \in Seq(Instruction)
  BY DEF FrameInv, FrameState
<1>2. /\ IsFrame(s, i)
      /\ theCIE = s[s[i].CIE]
      /\ Location(s, i, Len(Instructions(s, i)) + 1) < 2^Width
  BY <1>0, <1>1, OwnCIE DEF FrameInv, theCIE
<1>3. PICK P \in Seq(Instruction) : P = Instructions(s, i)
  BY <1>2, InstructionsType
<1>4. PICK c \in Nat : c = HeadLen(s, i) /\ c <= Len(P)
  BY <1>2, <1>3, InstructionsType
<1>5. PICK cie \in CIEEntry : cie = s[s[i].CIE] /\ execSingleInstruction(cie)
  BY <1>2 DEF IsFrame
<1>6. /\ n \in 0..Len(P)
      /\ \A k \in 1..n : Location(s, i, k) <= address
      /\ RowOf(P, n, cie.data_alignment_factor)
      /\ stage = "cie" => n <= c /\ Len(buf) = c - n
      /\ stage = "fde" => n >= c /\ Len(buf) = Len(P) - n /\ loc = Location(s, i, n + 1)
      /\ \A k \in 1..Len(buf) : buf[k] = P[n + k]
  BY <1>0, <1>3, <1>4, <1>5 DEF Executed
<1>7. buf # <<>> /\ buf' = Tail(buf)
  BY <1>5 DEF execSingleInstruction, offset_extended, def_cfa, def_cfa_register,
     def_cfa_offset_sf, advance_loc, restore, nop, Fetch
<1>8. /\ Len(buf) \in Nat \ {0} /\ Len(buf') = Len(buf) - 1
      /\ Head(buf) = buf[1]
      /\ \A k \in 1..(Len(buf) - 1) : buf'[k] = buf[k + 1]
  BY <1>1, <1>7
<1>9. n + 1 \in 0..Len(P) /\ Head(buf) = P[n + 1]
  <2>1. Len(P) \in Nat
    OBVIOUS
  <2>. QED BY <1>4, <1>6, <1>8, <2>1
<1>10. \A k \in 1..(n + 1) : Location(s, i, k) <= address
  BY <1>0, <1>6
<1>11. RowOf(P, n + 1, cie.data_alignment_factor)'
  BY <1>1, <1>5, <1>6, <1>9, RowStep
<1>12. \A k \in 1..Len(buf') : buf'[k] = P[(n + 1) + k]
  <2> TAKE k \in 1..Len(buf')
  <2>1. k \in 1..(Len(buf) - 1) /\ k + 1 \in 1..Len(buf) /\ n + (k + 1) = (n + 1) + k
    BY <1>8
  <2>. QED BY <1>6, <1>8, <2>1
<1>13. loc' = IF Head(buf).op \in Advance
              THEN Wrap(loc + Head(buf).delta * cie.code_alignment_factor)
              ELSE loc
  BY <1>5 DEF execSingleInstruction, offset_extended, def_cfa, def_cfa_register,
     def_cfa_offset_sf, advance_loc, restore, nop, Fetch, Advance
<1>14. stage = "fde" => loc' = Location(s, i, (n + 1) + 1)
  <2>0. SUFFICES ASSUME stage = "fde" PROVE loc' = Location(s, i, (n + 1) + 1)
    OBVIOUS
  <2>1. n + 1 \in (c + 1)..Len(P) /\ n + 1 \in Nat
    BY <1>6, <1>9, <2>0
  <2>2. Location(s, i, (n + 1) + 1) =
          loc + (IF P[n + 1].op \in Advance
                 THEN P[n + 1].delta * cie.code_alignment_factor ELSE 0)
    <3>1. Location(s, i, (n + 1) + 1) = Location(s, i, n + 1) +
            (IF P[n + 1].op \in Advance
             THEN P[n + 1].delta * s[s[i].CIE].code_alignment_factor ELSE 0)
      BY <1>2, <1>3, <1>4, <2>1, LocationStep
    <3>. QED BY <1>5, <1>6, <2>0, <3>1
  <2>3. Location(s, i, (n + 1) + 1) \in Nat /\ loc \in Nat
    <3>1. (n + 1) + 1 \in Nat
      OBVIOUS
    <3>. QED BY <1>1, <1>2, <3>1, LocationStep DEF CfaTypeOK
  <2>4. Location(s, i, (n + 1) + 1) <= Location(s, i, Len(P) + 1)
    <3>1. /\ (n + 1) + 1 \in 1..(Len(P) + 1) /\ Len(P) + 1 \in Nat
          /\ (n + 1) + 1 <= Len(P) + 1
      BY <2>1
    <3>. QED BY <1>2, <1>3, <3>1, LocationMonotone
  <2>5. Location(s, i, (n + 1) + 1) < 2^Width
    <3>1. Location(s, i, Len(P) + 1) \in Nat /\ 2^Width \in Nat
      <4>1. Len(P) + 1 \in Nat
        OBVIOUS
      <4>. QED BY <1>2, <4>1, LocationStep, WidthPositive
    <3>2. Location(s, i, Len(P) + 1) < 2^Width
      BY <1>2, <1>3
    <3> DEFINE x == Location(s, i, (n + 1) + 1)
               y == Location(s, i, Len(P) + 1)
               M == 2^Width
    <3>3. x \in Nat /\ y \in Nat /\ M \in Nat /\ x <= y /\ y < M
      BY <2>3, <2>4, <3>1, <3>2
    <3> HIDE DEF x, y, M
    <3>4. x < M
      BY <3>3
    <3>. QED BY <3>4 DEF x, M
  <2>6. Wrap(Location(s, i, (n + 1) + 1)) = Location(s, i, (n + 1) + 1)
    BY <2>3, <2>5, WrapSmall
  <2>7. CASE P[n + 1].op \in Advance
    BY <1>9, <1>13, <2>2, <2>6, <2>7
  <2>8. CASE P[n + 1].op \notin Advance
    <3>1. loc + 0 = loc
      BY <2>3
    <3>. QED BY <1>9, <1>13, <2>2, <2>8, <3>1
  <2>. QED BY <2>7, <2>8
<1>15. stage = "cie" => n + 1 <= c /\ Len(buf') = c - (n + 1)
  <2>1. SUFFICES ASSUME stage = "cie" PROVE n + 1 <= c /\ Len(buf') = c - (n + 1)
    OBVIOUS
  <2>2. Len(buf) = c - n
    BY <1>6, <2>1
  <2>. QED BY <1>8, <2>2, ShorterByOne
<1>16. stage = "fde" => n + 1 >= c /\ Len(buf') = Len(P) - (n + 1)
  <2>1. SUFFICES ASSUME stage = "fde" PROVE n + 1 >= c /\ Len(buf') = Len(P) - (n + 1)
    OBVIOUS
  <2>2. Len(P) \in Nat
    OBVIOUS
  <2>3. Len(buf) = Len(P) - n /\ n >= c
    BY <1>6, <2>1
  <2>4. Len(buf') = Len(P) - (n + 1)
    BY <1>8, <2>2, <2>3, ShorterByOne
  <2>5. n + 1 >= c
    BY <2>3
  <2>. QED BY <2>4, <2>5
<1>17. section' = s /\ fde' = i /\ address' = address /\ stage' = stage /\ stage # "base"
  BY <1>0
<1>. QED
  BY <1>3, <1>4, <1>5, <1>9, <1>10, <1>11, <1>12, <1>14, <1>15, <1>16, <1>17 DEF Executed

\* The last of the executed instructions of some opcodes is the last that applies.
LEMMA LastExecuted ==
  ASSUME FramesAsExpected, FrameInv, stage = "base", NEW n \in Nat, Executed(n),
         NEW ops, NEW k \in 1..n, LastIn(Instructions(section, fde), k, n, ops)
  PROVE  LastOf(ops) = Instructions(section, fde)[k]
<1>0. PICK s, i : s = section /\ i = fde
  OBVIOUS
<1>1. IsFrame(s, i)
  BY <1>0, OwnCIE DEF FrameInv, FrameState
<1>2. PICK P \in Seq(Instruction) : P = Instructions(s, i)
  BY <1>1, InstructionsType
<1>3. /\ n \in 0..Len(P) /\ Len(P) \in Nat
      /\ \A j \in 1..n : Location(s, i, j) <= address
      /\ n = Len(P) \/ Location(s, i, n + 1) > address
      /\ address \in Nat
  BY <1>0, <1>2 DEF Executed, FrameInv, TableInv, OnlyEntry
<1> DEFINE K == {j \in DOMAIN P : P[j].op \in ops /\ Location(s, i, j) <= address}
<1>4. k \in K /\ k \in Nat
  BY <1>0, <1>2, <1>3 DEF LastIn
<1>5. ASSUME NEW y \in K PROVE y \in Nat /\ y <= k
  <2>1. y \in 1..Len(P) /\ P[y].op \in ops /\ Location(s, i, y) <= address
    OBVIOUS
  <2>2. y <= n
    <3>1. SUFFICES ASSUME y > n PROVE FALSE
      BY <1>3, <2>1
    <3>2. n + 1 \in 1..(Len(P) + 1) /\ n + 1 <= y /\ y \in Nat /\ y <= Len(P) + 1
      BY <1>3, <2>1, <3>1
    <3>3. Location(s, i, n + 1) <= Location(s, i, y)
      BY <1>1, <1>2, <3>2, LocationMonotone
    <3>4. Location(s, i, n + 1) > address
      BY <1>3, <2>1, <3>1
    <3>5. Location(s, i, n + 1) \in Nat /\ Location(s, i, y) \in Nat
      <4>1. n + 1 \in Nat /\ y \in Nat
        BY <3>2
      <4>. QED BY <1>1, <4>1, LocationStep
    <3>. QED BY <1>3, <2>1, <3>3, <3>4, <3>5
  <2>3. y \notin (k + 1)..n
    BY <1>0, <1>2, <2>1 DEF LastIn
  <2>. QED BY <1>3, <1>4, <2>1, <2>2, <2>3
<1> HIDE DEF K
<1>6. Max(K) = k
  <2>1. \A y \in K : k >= y
    BY <1>4, <1>5
  <2>2. ASSUME NEW x \in K, \A y \in K : x >= y PROVE x = k
    BY <1>4, <1>5, <2>2
  <2>. QED BY <1>4, <2>1, <2>2 DEF Max
<1>. QED BY <1>0, <1>2, <1>6 DEF LastOf, K

\* A register number that frameBase accepts has a value.
LEMMA FrameRegister ==
  ASSUME NEW reg \in Nat, reg < 17
  PROVE  reg \in 0..16
OBVIOUS

\* The frame base computed from the last row is that of the row of the address.
LEMMA RowIsReached ==
  ASSUME FramesAsExpected, FrameInv, stage = "base", NEW n \in Nat, Executed(n), BaseKnown
  PROVE  Wrap(regs[cfa.reg] + cfa.offset) = Wrap(regs[RowReg] + RowOffset)
<1>0. PICK s, i : s = section /\ i = fde
  OBVIOUS
<1>1. IsFrame(s, i)
  BY <1>0, OwnCIE DEF FrameInv, FrameState
<1>2. PICK P \in Seq(Instruction) : P = Instructions(s, i)
  BY <1>1, InstructionsType
<1>3. PICK factor \in Int : factor = s[s[i].CIE].data_alignment_factor
  BY <1>1 DEF IsFrame, CIEEntry
<1>4. /\ \E k \in 1..n : LastIn(P, k, n, RegOps) /\ cfa.reg = P[k].reg
      /\ \E k \in 1..n : LastIn(P, k, n, OffsetOps) /\ Same(cfa.offset, OffsetOf(P[k], factor))
      /\ n \in 0..Len(P)
  BY <1>0, <1>2, <1>3 DEF Executed, RowOf, BaseKnown
<1>5. RowReg = cfa.reg
  <2>1. PICK k \in 1..n : LastIn(P, k, n, RegOps) /\ cfa.reg = P[k].reg
    BY <1>4
  <2>2. LastOf(RegOps) = P[k]
    BY <1>0, <1>2, <2>1, LastExecuted
  <2>. QED BY <2>1, <2>2 DEF RowReg, RegOps
<1>6. PICK k \in 1..n : LastIn(P, k, n, OffsetOps) /\ Same(cfa.offset, OffsetOf(P[k], factor))
  BY <1>4
<1>7. RowOffset = OffsetOf(P[k], factor)
  <2>1. LastOf(OffsetOps) = P[k]
    BY <1>0, <1>2, <1>6, LastExecuted
  <2>. QED BY <1>0, <1>3, <2>1 DEF RowOffset, OffsetOps, OffsetOf
<1>8. OffsetOf(P[k], factor) \in Int
  <2>1. Len(P) \in Nat
    OBVIOUS
  <2>2. k \in DOMAIN P
    BY <1>4, <2>1
  <2>3. P[k] \in Instruction
    BY <2>2, ElementInRange
  <2>4. PICK b \in Seq(0..255) : b = P[k].operand /\ b # <<>>
    BY <2>3, InstructionFields
  <2>5. PICK x \in Int, y \in Int : x = Number(b) /\ y = SignedNumber(b)
    BY <2>4, UnsignedDecoded, SignedDecoded
  <2>. QED BY <2>4, <2>5 DEF OffsetOf
<1>9. regs[cfa.reg] \in Int /\ cfa.offset \in Int
  <2>1. cfa.reg \in Nat /\ cfa.offset \in Int64
    <3>1. cfa \in [reg : Nat, offset : Int64, rule : {"undefined", "cfa"}]
      BY DEF FrameInv, FrameState, CfaTypeOK
    <3>. QED BY <3>1
  <2>2. cfa.reg \in 0..16
    BY <2>1, FrameRegister DEF BaseKnown
  <2>. QED BY <2>1, <2>2, MachineNumbers, FrameAssumption
<1>10. PICK r \in Int, x \in Int, y \in Int :
         r = regs[cfa.reg] /\ x = cfa.offset /\ y = OffsetOf(P[k], factor)
  BY <1>8, <1>9
<1>11. Same(r, r) /\ Same(x, y)
  BY <1>6, <1>10, SameIsEquivalence
<1>12. Same(r + x, r + y) /\ r + x \in Int /\ r + y \in Int
  BY <1>11, SameArithmetic
<1>13. Wrap(r + x) = Wrap(r + y)
  BY <1>12, SameWrap
<1>. QED BY <1>5, <1>7, <1>10, <1>13

LEMMA RowInitInv == FrameInit => RowInv
BY DEF FrameInit, RowInv, CfaOfRow, Nothing

LEMMA RowStepInv ==
  ASSUME FramesAsExpected, FrameInv, RowInv, [FrameNext]_frameVars
  PROVE  RowInv'
<1>1. ASSUME UNCHANGED <<section, fde, address, found>> PROVE CfaOfRow'
  BY <1>1 DEF RowInv, CfaOfRow, RowReg, RowOffset, LastOf
<1>2. ASSUME found'.outcome # "frame" PROVE CfaOfRow'
  BY <1>2 DEF CfaOfRow
<1>3. CASE parseCIE \/ parseFDE \/ parseCut \/ parseShort \/ parseEnd
  <2>1. /\ UNCHANGED <<section, fde, address, found>>
        /\ stage' \in {"parse", "crashed", "ready"}
    BY <1>3 DEF parseCIE, parseFDE, parseCut, parseShort, parseEnd, Reading, lookupVars, tableVars
  <2>. QED BY <1>1, <2>1 DEF RowInv
<1>4. ASSUME NEW a \in Addrs, notFound(a) PROVE RowInv'
  <2>1. Finish("not find", 0) \/ Finish("dumplicate", 0) \/ Finish("no cie", 0)
    BY <1>4 DEF notFound
  <2>2. stage' = "ready" /\ found'.outcome # "frame"
    <3>1. ASSUME NEW o \in {"not find", "dumplicate", "no cie"}, Finish(o, 0)
          PROVE  stage' = "ready" /\ found'.outcome # "frame"
      <4>1. found'.outcome = o /\ stage' = "ready"
        BY <3>1, FinishOutcome
      <4>2. o # "frame"
        OBVIOUS
      <4>. QED BY <4>1, <4>2
    <3>. QED BY <2>1, <3>1
  <2>. QED BY <1>2, <2>2 DEF RowInv
<1>5. ASSUME NEW a \in Addrs, findFDE(a) PROVE RowInv'
  <2>1. PICK i \in Covering(a) :
          /\ FramesInformation[i].CIE # 0
          /\ fde' = i
          /\ buf' = FramesInformation[FramesInformation[i].CIE].instructions
    BY <1>5 DEF findFDE
  <2>2. i \in DOMAIN FramesInformation /\ IsFDE(i) /\ FramesInformation[i].begin <= a
    BY DEF Covering, InFDE
  <2>3. PICK s : s = section /\ section' = s
    BY <1>5 DEF findFDE, tableVars
  <2>4. /\ IsFrame(s, i)
        /\ FramesInformation[FramesInformation[i].CIE] = s[s[i].CIE]
        /\ FramesInformation[i].begin = s[i].begin
    BY <2>1, <2>2, <2>3, OwnCIE DEF FrameInv
  <2>5. /\ address' = a /\ stage' = "cie" /\ found'.outcome # "frame"
        /\ cfa'.rule = "undefined"
    BY <1>5 DEF findFDE, NewFrame, Nothing
  <2>6. PICK P \in Seq(Instruction), c \in Nat :
          /\ P = Instructions(s, i) /\ c = HeadLen(s, i) /\ Len(P) \in Nat
          /\ \A k \in 1..c : P[k] = s[s[i].CIE].instructions[k]
    BY <2>4, InstructionsType
  <2>7. Len(buf') = c /\ \A k \in 1..Len(buf') : buf'[k] = P[0 + k]
    BY <2>1, <2>4, <2>6 DEF HeadLen
  <2>8. Executed(0)'
    BY <2>1, <2>3, <2>5, <2>6, <2>7 DEF Executed, RowOf
  <2>. QED BY <1>2, <2>1, <2>2, <2>3, <2>4, <2>5, <2>8 DEF RowInv
<1>6. ASSUME stage \in {"cie", "fde", "base"}
      PROVE  /\ IsFrame(section, fde)
             /\ section[fde].begin <= address
             /\ FramesInformation[fde].begin = section[fde].begin
             /\ FramesInformation[fde].instructions = section[fde].instructions
             /\ \E n \in Nat : Executed(n)
  BY <1>6, OwnCIE DEF FrameInv, FrameState, RowInv
<1>7. CASE execCIEInstruction
  <2>1. PICK n \in Nat : Executed(n)
    BY <1>6, <1>7 DEF execCIEInstruction
  <2>2. stage = "cie" /\ execSingleInstruction(theCIE)
        /\ UNCHANGED <<stage, address, fde, found, section>>
    BY <1>7 DEF execCIEInstruction, tableVars
  <2>3. n + 1 \in Nat /\ n + 1 <= HeadLen(section, fde) + 1
    <3>1. n <= HeadLen(section, fde) /\ HeadLen(section, fde) \in Nat
      BY <1>6, <2>1, <2>2, InstructionsType DEF Executed
    <3>. QED BY <3>1
  <2>4. Location(section, fde, n + 1) <= address
    BY <1>6, <2>2, <2>3, LocationStep
  <2>5. Executed(n + 1)'
    BY <2>1, <2>2, <2>4, ExecutedStep
  <2>. QED BY <1>1, <1>6, <2>2, <2>5 DEF RowInv
<1>8. CASE cieExecuted
  <2>1. PICK n \in Nat : Executed(n)
    BY <1>6, <1>8 DEF cieExecuted
  <2>2. /\ stage = "cie" /\ stage' = "fde" /\ buf = <<>>
        /\ loc' = section[fde].begin /\ buf' = section[fde].instructions
        /\ UNCHANGED <<section, fde, address, found, cfa>>
    BY <1>6, <1>8 DEF cieExecuted, tableVars
  <2>3. PICK s, i : s = section /\ i = fde
    OBVIOUS
  <2>0. IsFrame(s, i)
    BY <1>6, <2>2, <2>3
  <2>4. PICK P \in Seq(Instruction), c \in Nat :
          /\ P = Instructions(s, i) /\ c = HeadLen(s, i)
          /\ Len(P) = c + Len(s[i].instructions) /\ c <= Len(P)
          /\ \A k \in 1..Len(s[i].instructions) : P[c + k] = s[i].instructions[k]
    <3>1. /\ Instructions(s, i) \in Seq(Instruction) /\ HeadLen(s, i) \in Nat
          /\ Len(Instructions(s, i)) = HeadLen(s, i) + Len(s[i].instructions)
          /\ HeadLen(s, i) <= Len(Instructions(s, i))
          /\ \A k \in 1..Len(s[i].instructions) :
               Instructions(s, i)[HeadLen(s, i) + k] = s[i].instructions[k]
      BY <2>0, InstructionsType
    <3>. QED BY <3>1
  <2>5. n = c
    <3>1. n <= c /\ Len(buf) = c - n
      BY <2>1, <2>2, <2>3, <2>4 DEF Executed
    <3>2. Len(buf) = 0
      BY <2>2
    <3>. QED BY <3>1, <3>2
  <2>6. Location(s, i, n + 1) = s[i].begin
    <3>1. n + 1 \in Nat /\ n + 1 <= c + 1
      BY <2>5
    <3>. QED BY <2>0, <2>4, <3>1, LocationStep
  <2>7. Len(s[i].instructions) = Len(P) - n /\ Len(P) \in Nat
    <3>1. Len(s[i].instructions) \in Nat
      BY <1>6, <2>2, <2>3 DEF IsFrame, FDEEntry
    <3>. QED BY <2>4, <2>5, <3>1
  <2>8. RowOf(P, n, s[s[i].CIE].data_alignment_factor)'
    BY <2>1, <2>2, <2>3, <2>4 DEF Executed, RowOf
  <2>9. n \in 0..Len(P) /\ \A k \in 1..n : Location(s, i, k) <= address
    BY <2>1, <2>3, <2>4 DEF Executed
  <2>10. Executed(n)'
    BY <2>2, <2>3, <2>4, <2>5, <2>6, <2>7, <2>8, <2>9 DEF Executed
  <2>. QED BY <1>1, <1>6, <2>2, <2>10 DEF RowInv
<1>9. CASE execFDEInstruction
  <2>1. PICK n \in Nat : Executed(n)
    BY <1>6, <1>9 DEF execFDEInstruction
  <2>2. stage = "fde" /\ execSingleInstruction(theCIE) /\ address >= loc
        /\ UNCHANGED <<stage, address, fde, found, section>>
    BY <1>9 DEF execFDEInstruction, tableVars, RowReaches
  <2>3. Location(section, fde, n + 1) <= address
    <3>1. loc = Location(section, fde, n + 1) /\ loc \in Nat /\ address \in Nat
      BY <2>1, <2>2 DEF Executed, FrameInv, FrameState, CfaTypeOK, TableInv, OnlyEntry
    <3>. QED BY <2>2, <3>1
  <2>4. Executed(n + 1)'
    BY <2>1, <2>2, <2>3, ExecutedStep
  <2>. QED BY <1>1, <1>6, <2>2, <2>4 DEF RowInv
<1>10. CASE execFails
  <2>1. stage' = "ready" /\ found'.outcome # "frame"
    BY <1>10 DEF execFails, Finish
  <2>. QED BY <1>2, <2>1 DEF RowInv
<1>11. CASE fdeExecuted
  <2>1. PICK n \in Nat : Executed(n)
    BY <1>6, <1>11 DEF fdeExecuted
  <2>2. /\ stage = "fde" /\ stage' = "base"
        /\ buf = <<>> \/ ~(address >= loc)
        /\ UNCHANGED <<section, fde, address, found, cfa>>
    BY <1>11 DEF fdeExecuted, RowReaches, lookupVars, tableVars, cfaVars
  <2>3. /\ loc = Location(section, fde, n + 1) /\ loc \in Nat /\ address \in Nat
        /\ n \in 0..Len(Instructions(section, fde))
        /\ Len(buf) = Len(Instructions(section, fde)) - n
    BY <2>1, <2>2 DEF Executed, FrameInv, FrameState, CfaTypeOK, TableInv, OnlyEntry
  <2>4. n = Len(Instructions(section, fde)) \/ Location(section, fde, n + 1) > address
    <3>1. CASE buf = <<>>
      <4>1. Len(buf) = 0
        BY <3>1
      <4>2. PICK N \in Nat : N = Len(Instructions(section, fde))
        BY <1>6, <2>2, InstructionsType
      <4>. QED BY <2>3, <4>1, <4>2
    <3>2. CASE ~(address >= loc)
      BY <2>3, <3>2
    <3>. QED BY <2>2, <3>1, <3>2
  <2>5. PICK P, factor : P = Instructions(section, fde)
                         /\ factor = section[section[fde].CIE].data_alignment_factor
    OBVIOUS
  <2>6. RowOf(P, n, factor)'
    BY <2>1, <2>2, <2>5 DEF Executed, RowOf
  <2>7. Executed(n)'
    BY <2>1, <2>2, <2>3, <2>4, <2>5, <2>6 DEF Executed
  <2>. QED BY <1>1, <1>6, <2>2, <2>7 DEF RowInv
<1>12. CASE frameBase
  <2>1. /\ stage = "base" /\ stage' = "ready"
        /\ UNCHANGED <<section, fde, address>>
        /\ found'.outcome = "frame" =>
             BaseKnown /\ found'.base = Wrap(regs[cfa.reg] + cfa.offset)
    <3>1. \/ Finish("no registers", 0)
          \/ BaseKnown /\ Finish("frame", Wrap(regs[cfa.reg] + cfa.offset))
          \/ Finish("invalid cfa", 0)
      BY <1>12 DEF frameBase
    <3>2. stage = "base" /\ UNCHANGED <<section, fde, address>>
      BY <1>12 DEF frameBase, tableVars
    <3>3. CASE Finish("no registers", 0)
      <4>1. found'.outcome = "no registers" /\ stage' = "ready"
        BY <3>3, FinishOutcome
      <4>. QED BY <3>2, <4>1
    <3>4. CASE BaseKnown /\ Finish("frame", Wrap(regs[cfa.reg] + cfa.offset))
      BY <3>2, <3>4, FinishOutcome
    <3>5. CASE Finish("invalid cfa", 0)
      <4>1. found'.outcome = "invalid cfa" /\ stage' = "ready"
        BY <3>5, FinishOutcome
      <4>. QED BY <3>2, <4>1
    <3>. QED BY <3>1, <3>3, <3>4, <3>5
  <2>2. PICK n \in Nat : Executed(n)
    BY <1>6, <2>1
  <2>3. found'.outcome = "frame" => found'.base = Wrap(regs[RowReg] + RowOffset)
    BY <2>1, <2>2, RowIsReached
  <2>4. RowReg' = RowReg /\ RowOffset' = RowOffset
    BY <2>1 DEF RowReg, RowOffset, LastOf
  <2>. QED BY <2>1, <2>3, <2>4 DEF RowInv, CfaOfRow
<1>13. CASE UNCHANGED frameVars
  <2>1. UNCHANGED <<section, fde, address, found, stage, buf, loc, cfa>>
    BY <1>13 DEF frameVars, cfaVars
  <2>2. ASSUME NEW n \in Nat, Executed(n) PROVE Executed(n)'
    BY <2>1, <2>2 DEF Executed, RowOf
  <2>. QED BY <1>1, <2>1, <2>2 DEF RowInv
<1>. QED
  BY <1>3, <1>4, <1>5, <1>7, <1>8, <1>9, <1>10, <1>11, <1>12, <1>13 DEF FrameNext

\* The frame base that findFrameInformation computes for p is the canonical frame address
\* that DWARF gives for the row of the address, for every section in which an FDE uses the
\* CIE before it and whose rows stay in the address space; neither the width of the integers
\* nor the order of the instructions matters.
THEOREM FrameBaseOfRow ==
  ASSUME FramesAsExpected
  PROVE  FrameSpec => []CfaOfRow
<1>1. FrameInit => FrameInv /\ RowInv
  BY FrameInitInv, RowInitInv
<1>2. FrameInv /\ RowInv /\ [FrameNext]_frameVars => (FrameInv /\ RowInv)'
  BY FrameStepInv, RowStepInv
<1>3. RowInv => CfaOfRow
  BY DEF RowInv
<1>. QED BY <1>1, <1>2, <1>3, PTL DEF FrameSpec
=============================================================================
