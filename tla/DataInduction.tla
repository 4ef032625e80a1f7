--------------------------- MODULE DataInduction ---------------------------
(***************************************************************************)
(* Induction and recursion in a form the provers can instantiate: what an  *)
(* induction is about is a set, what a recursion computes with are         *)
(* functions, and no fact takes an operator.  From these follow the laws   *)
(* of the sum over a finite set and of the powers of two that the proofs   *)
(* about sections, encodings and listings need.                            *)
(***************************************************************************)
EXTENDS Integers, Sequences, FiniteSetsExt, FiniteSetTheorems, TLAPS

-----------------------------------------------------------------------------
(***************************************************************************)
(* Induction.                                                              *)
(***************************************************************************)

\* A set of numbers that is not empty has a least element.
LEMMA LeastNumber ==
  ASSUME NEW T \in SUBSET Nat, T # {}
  PROVE  \E x \in T : \A y \in T : x <= y
<1> DEFINE R == OpToRel(<, Nat)
<1>1. R = {ss \in Nat \X Nat : ss[1] < ss[2]}
  BY DEF OpToRel
<1>2. IsWellFoundedOn(R, Nat)
  BY NatLessThanWellFounded
<1> HIDE DEF R
<1>3. PICK x \in T : \A y \in T : ~(<<y, x>> \in R)
  BY <1>2, WFMin
<1>4. ASSUME NEW y \in T
      PROVE  x <= y
  <2>1. x \in Nat /\ y \in Nat
    OBVIOUS
  <2>2. y < x => <<y, x>> \in R
    BY <1>1, <2>1
  <2>. QED BY <1>3, <2>1, <2>2
<1>. QED BY <1>4

\* A set that has 0 and the successor of each of its numbers has them all.
LEMMA Induction ==
  ASSUME NEW T, 0 \in T, \A n \in Nat : n \in T => n + 1 \in T
  PROVE  Nat \subseteq T
<1> SUFFICES ASSUME NEW n \in Nat, n \notin T
             PROVE  FALSE
  OBVIOUS
<1>1. PICK x \in Nat \ T : \A y \in Nat \ T : x <= y
  <2>1. Nat \ T # {}
    OBVIOUS
  <2>. QED BY <2>1, LeastNumber
<1>2. x # 0
  OBVIOUS
<1>3. x - 1 \in Nat /\ x - 1 \in T
  BY <1>1, <1>2
<1>. QED BY <1>3

\* A set that has s whenever it has everything of a smaller measure has everything.
LEMMA MeasureInduction ==
  ASSUME NEW S, NEW m \in [S -> Nat], NEW T,
         \A s \in S : (\A t \in S : m[t] < m[s] => t \in T) => s \in T
  PROVE  S \subseteq T
<1> DEFINE N == {n \in Nat : \A s \in S : m[s] < n => s \in T}
<1>1. 0 \in N
  OBVIOUS
<1>2. ASSUME NEW n \in Nat, n \in N
      PROVE  n + 1 \in N
  <2>1. ASSUME NEW s \in S, m[s] < n + 1
        PROVE  s \in T
    <3>1. \A t \in S : m[t] < m[s] => m[t] < n
      BY <2>1
    <3>. QED BY <1>2, <3>1
  <2>. QED BY <2>1
<1>3. Nat \subseteq N
  <2> HIDE DEF N
  <2>. QED BY <1>1, <1>2, Induction
<1>4. ASSUME NEW s \in S
      PROVE  s \in T
  <2>1. m[s] + 1 \in N
    BY <1>3
  <2>. QED BY <2>1
<1>. QED BY <1>4

-----------------------------------------------------------------------------
(***************************************************************************)
(* Recursion: where next leads to a smaller measure, there is a function   *)
(* that starts with base on the leaves and computes every other value from *)
(* the value at next.                                                      *)
(***************************************************************************)
Recursive(f, S, leaves, base, next, step) ==
  \A s \in S : f[s] = IF s \in leaves THEN base[s] ELSE step[<<s, f[next[s]]>>]

LEMMA RecursionExists ==
  ASSUME NEW S, NEW V, NEW leaves, NEW m \in [S -> Nat],
         NEW base, \A s \in S : s \in leaves => base[s] \in V,
         NEW next, \A s \in S \ leaves : next[s] \in S /\ m[next[s]] < m[s],
         NEW step \in [S \X V -> V]
  PROVE  \E f \in [S -> V] : Recursive(f, S, leaves, base, next, step)
<1> DEFINE Up(n) == {s \in S : m[s] < n}
           N == {n \in Nat : \E f \in [Up(n) -> V] : Recursive(f, Up(n), leaves, base, next, step)}
<1>0. ASSUME NEW n \in Nat, NEW s \in Up(n), s \notin leaves
      PROVE  next[s] \in Up(n)
  BY <1>0
<1>1. 0 \in N
  <2>1. Up(0) = {}
    OBVIOUS
  <2>2. [s \in {} |-> s] \in [{} -> V]
    OBVIOUS
  <2>. QED BY <2>1, <2>2 DEF Recursive
<1>2. ASSUME NEW n \in Nat, n \in N
      PROVE  n + 1 \in N
  <2>1. PICK f \in [Up(n) -> V] : Recursive(f, Up(n), leaves, base, next, step)
    BY <1>2
  <2> DEFINE value(s) == IF s \in leaves THEN base[s] ELSE step[<<s, f[next[s]]>>]
             g == [s \in Up(n + 1) |-> value(s)]
  <2>2. ASSUME NEW s \in Up(n + 1), s \notin leaves
        PROVE  next[s] \in Up(n)
    BY <2>2
  <2>3. ASSUME NEW s \in Up(n + 1)
        PROVE  value(s) \in V
    BY <2>2
  <2>4. g \in [Up(n + 1) -> V]
    <3> HIDE DEF value, Up
    <3>. QED BY <2>3
  <2>5. ASSUME NEW s \in Up(n)
        PROVE  g[s] = f[s]
    <3>1. s \in Up(n + 1)
      OBVIOUS
    <3>2. f[s] = value(s)
      <4> HIDE DEF Up
      <4>. QED BY <2>1 DEF Recursive
    <3> HIDE DEF value, Up
    <3>. QED BY <3>1, <3>2
  <2>6. Recursive(g, Up(n + 1), leaves, base, next, step)
    <3> HIDE DEF Up
    <3>. QED BY <2>2, <2>5 DEF Recursive
  <2> HIDE DEF g, Up
  <2>. QED BY <2>4, <2>6
<1>3. Nat \subseteq N
  <2> HIDE DEF N
  <2>. QED BY <1>1, <1>2, Induction
<1> DEFINE F(n) == CHOOSE f \in [Up(n) -> V] : Recursive(f, Up(n), leaves, base, next, step)
<1>4. ASSUME NEW n \in Nat
      PROVE  F(n) \in [Up(n) -> V] /\ Recursive(F(n), Up(n), leaves, base, next, step)
  <2>1. n \in N
    BY <1>3
  <2> HIDE DEF Up
  <2>. QED BY <2>1
<1>5. ASSUME NEW k \in Nat, NEW n \in Nat
      PROVE  \A s \in Up(k) \cap Up(n) : F(k)[s] = F(n)[s]
  <2> DEFINE T == {s \in S : s \in Up(k) \cap Up(n) => F(k)[s] = F(n)[s]}
  <2>1. ASSUME NEW s \in S, \A t \in S : m[t] < m[s] => t \in T
        PROVE  s \in T
    <3> SUFFICES ASSUME s \in Up(k), s \in Up(n)
                 PROVE  F(k)[s] = F(n)[s]
      OBVIOUS
    <3>1. s \notin leaves => /\ next[s] \in Up(k) /\ next[s] \in Up(n)
                             /\ next[s] \in S /\ m[next[s]] < m[s]
      BY <1>0
    <3> HIDE DEF Up, F
    <3>2. s \notin leaves => F(k)[next[s]] = F(n)[next[s]]
      BY <2>1, <3>1
    <3>3. /\ F(k)[s] = IF s \in leaves THEN base[s] ELSE step[<<s, F(k)[next[s]]>>]
          /\ F(n)[s] = IF s \in leaves THEN base[s] ELSE step[<<s, F(n)[next[s]]>>]
      <4>1. /\ Recursive(F(k), Up(k), leaves, base, next, step)
            /\ Recursive(F(n), Up(n), leaves, base, next, step)
        BY <1>4
      <4>. QED BY <4>1 DEF Recursive
    <3>. QED BY <3>2, <3>3
  <2>2. S \subseteq T
    <3> HIDE DEF T
    <3>. QED BY <2>1, MeasureInduction
  <2>. QED BY <2>2
<1> DEFINE h == [s \in S |-> F(m[s] + 1)[s]]
<1>6. ASSUME NEW s \in S
      PROVE  m[s] + 1 \in Nat /\ s \in Up(m[s] + 1)
  OBVIOUS
<1>7. h \in [S -> V]
  <2> HIDE DEF F, Up
  <2>. QED BY <1>4, <1>6
<1>8. ASSUME NEW s \in S
      PROVE  h[s] = IF s \in leaves THEN base[s] ELSE step[<<s, h[next[s]]>>]
  <2>1. h[s] = F(m[s] + 1)[s]
    BY <1>8
  <2>2. F(m[s] + 1)[s] = IF s \in leaves THEN base[s]
                                         ELSE step[<<s, F(m[s] + 1)[next[s]]>>]
    <3> HIDE DEF F, Up
    <3>. QED BY <1>4, <1>6 DEF Recursive
  <2>3. ASSUME s \notin leaves
        PROVE  F(m[s] + 1)[next[s]] = h[next[s]]
    <3>1. next[s] \in S /\ next[s] \in Up(m[s] + 1)
      BY <1>0, <1>6, <2>3
    <3>2. h[next[s]] = F(m[next[s]] + 1)[next[s]]
      BY <3>1
    <3>3. next[s] \in Up(m[next[s]] + 1) /\ m[next[s]] + 1 \in Nat /\ m[s] + 1 \in Nat
      BY <1>6, <3>1
    <3> HIDE DEF F, Up, h
    <3>. QED BY <1>5, <3>1, <3>2, <3>3
  <2> HIDE DEF F, Up, h
  <2>. QED BY <2>1, <2>2, <2>3
<1> HIDE DEF F, Up, h
<1>. QED BY <1>7, <1>8 DEF Recursive

-----------------------------------------------------------------------------
(***************************************************************************)
(* Finite sets, and the sum over one: MapThenSumSet of the community       *)
(* modules takes its elements in an order nobody knows.                    *)
(***************************************************************************)

\* Taking an element out makes a finite set smaller.
LEMMA OneLess ==
  ASSUME NEW D, IsFiniteSet(D), NEW s \in SUBSET D, NEW x \in s
  PROVE  /\ IsFiniteSet(s)
         /\ Cardinality(s) \in Nat
         /\ Cardinality(s \ {x}) \in Nat
         /\ Cardinality(s \ {x}) < Cardinality(s)
<1>1. IsFiniteSet(s) /\ IsFiniteSet(s \ {x})
  BY FS_Subset, FS_RemoveElement
<1>2. Cardinality(s) \in Nat /\ Cardinality(s \ {x}) \in Nat
  BY <1>1, FS_CardinalityType
<1>3. Cardinality(s \ {x}) = Cardinality(s) - 1
  BY <1>1, FS_RemoveElement
<1>. QED BY <1>1, <1>2, <1>3

\* A set of sets that has the empty set, and with each set also the set with one more
\* element of D, has D.
LEMMA FiniteInduction ==
  ASSUME NEW D, IsFiniteSet(D), NEW T, {} \in T,
         \A s \in SUBSET D : \A x \in D \ s : s \in T => s \cup {x} \in T
  PROVE  D \in T
<1> DEFINE m == [s \in SUBSET D |-> Cardinality(s)]
<1>1. m \in [SUBSET D -> Nat]
  BY FS_Subset, FS_CardinalityType
<1>2. ASSUME NEW s \in SUBSET D, \A t \in SUBSET D : m[t] < m[s] => t \in T
      PROVE  s \in T
  <2>1. CASE s = {}
    BY <2>1
  <2>2. CASE s # {}
    <3>1. PICK x \in s : TRUE
      BY <2>2
    <3>3. s \ {x} \in SUBSET D /\ m[s \ {x}] < m[s]
      BY <3>1, OneLess
    <3>4. s = (s \ {x}) \cup {x} /\ x \in D \ (s \ {x})
      BY <3>1
    <3>. QED BY <1>2, <3>3, <3>4
  <2>. QED BY <2>1, <2>2
<1>3. SUBSET D \subseteq T
  <2> HIDE DEF m
  <2>. QED BY <1>1, <1>2, MeasureInduction
<1>. QED BY <1>3

Some(s) == CHOOSE x \in s : TRUE

SumIter(g, D) ==
  CHOOSE iter : iter = [s \in SUBSET D |-> IF s = {} THEN 0 ELSE g[Some(s)] + iter[s \ {Some(s)}]]

\* The sum of the values of g on D: the MapThenSumSet of a function.
SumOver(g, D) == SumIter(g, D)[D]

LEMMA SumIsFold ==
  ASSUME NEW g, NEW D
  PROVE  MapThenSumSet(LAMBDA i : g[i], D) = SumOver(g, D)
BY DEF MapThenSumSet, MapThenFoldSet, SumOver, SumIter, Some

\* The recursive function behind the sum satisfies its equation.
LEMMA SumIterType ==
  ASSUME NEW D, IsFiniteSet(D), NEW g, \A x \in D : g[x] \in Int
  PROVE  /\ SumIter(g, D) \in [SUBSET D -> Int]
         /\ SumIter(g, D)[{}] = 0
         /\ \A s \in SUBSET D : s # {} =>
              SumIter(g, D)[s] = g[Some(s)] + SumIter(g, D)[s \ {Some(s)}]
<1> DEFINE S == SUBSET D
           m == [s \in S |-> Cardinality(s)]
           zero == [s \in S |-> 0]
           next == [s \in S |-> s \ {Some(s)}]
           step == [p \in S \X Int |-> IF p[1] = {} THEN 0 ELSE g[Some(p[1])] + p[2]]
           E(f) == [s \in S |-> IF s = {} THEN 0 ELSE g[Some(s)] + f[s \ {Some(s)}]]
<1>1. \A s \in S : s # {} => Some(s) \in s
  BY DEF Some
<1>2. m \in [S -> Nat]
  BY FS_Subset, FS_CardinalityType
<1>3. ASSUME NEW s \in S, s # {}
      PROVE  next[s] \in S /\ m[next[s]] < m[s] /\ next[s] = s \ {Some(s)}
  <2>1. Some(s) \in s
    BY <1>1, <1>3
  <2>2. Cardinality(s \ {Some(s)}) < Cardinality(s)
    BY <2>1, OneLess
  <2>. QED BY <2>1, <2>2
<1>4. step \in [S \X Int -> Int]
  BY <1>1
<1>5. \A s \in S : zero[s] = 0 /\ zero[s] \in Int
  OBVIOUS
<1>6. PICK f \in [S -> Int] : Recursive(f, S, {{}}, zero, next, step)
  <2> HIDE DEF S, m, zero, next, step
  <2>. QED BY <1>2, <1>3, <1>4, <1>5, RecursionExists
<1>7. ASSUME NEW s \in S
      PROVE  f[s] = IF s = {} THEN 0 ELSE g[Some(s)] + f[s \ {Some(s)}]
  <2>1. f[s] = IF s \in {{}} THEN zero[s] ELSE step[<<s, f[next[s]]>>]
    BY <1>6 DEF Recursive
  <2>2. s # {} => f[next[s]] \in Int
    BY <1>3, <1>6
  <2>3. s # {} => step[<<s, f[next[s]]>>] = g[Some(s)] + f[next[s]]
    BY <2>2
  <2>. QED BY <1>3, <1>5, <2>1, <2>3
<1>8. f = E(f)
  BY <1>6, <1>7
<1>9. SumIter(g, D) = E(SumIter(g, D))
  <2>1. SumIter(g, D) = CHOOSE iter : iter = E(iter)
    BY DEF SumIter
  <2> HIDE DEF E
  <2>. QED BY <1>8, <2>1
<1> DEFINE h == SumIter(g, D)
           T == {s \in S : h[s] = f[s]}
<1>10. ASSUME NEW s \in S
       PROVE  h[s] = IF s = {} THEN 0 ELSE g[Some(s)] + h[s \ {Some(s)}]
  <2> HIDE DEF h
  <2>1. h = E(h)
    BY <1>9 DEF h
  <2>. QED BY <2>1
<1>11. ASSUME NEW s \in S, \A t \in S : m[t] < m[s] => t \in T
       PROVE  s \in T
  <2>1. s # {} => h[s \ {Some(s)}] = f[s \ {Some(s)}]
    BY <1>3, <1>11
  <2> HIDE DEF h
  <2>. QED BY <1>7, <1>10, <2>1
<1>12. S \subseteq T
  <2> HIDE DEF S, T, m
  <2>. QED BY <1>2, <1>11, MeasureInduction
<1>13. \A s \in S : h[s] = f[s] /\ h[s] \in Int
  BY <1>12
<1>14. h = [s \in S |-> h[s]]
  <2>1. h = E(h)
    BY <1>9
  <2> HIDE DEF h
  <2>. QED BY <2>1
<1>15. h \in [S -> Int]
  <2> HIDE DEF h
  <2>. QED BY <1>13, <1>14
<1>. QED BY <1>10, <1>15

\* Any element may be taken out first.
LEMMA SumIterAny ==
  ASSUME NEW D, IsFiniteSet(D), NEW g, \A x \in D : g[x] \in Int
  PROVE  \A s \in SUBSET D : \A x \in s :
           SumIter(g, D)[s] = g[x] + SumIter(g, D)[s \ {x}]
<1> DEFINE S == SUBSET D
           m == [s \in S |-> Cardinality(s)]
           T == {s \in S : \A x \in s : SumIter(g, D)[s] = g[x] + SumIter(g, D)[s \ {x}]}
<1>1. m \in [S -> Nat]
  BY FS_Subset, FS_CardinalityType
<1> DEFINE f == SumIter(g, D)
<1>2. f \in [S -> Int] /\ \A s \in S : s # {} => f[s] = g[Some(s)] + f[s \ {Some(s)}]
  BY SumIterType
<1> HIDE DEF f
<1>3. ASSUME NEW s \in S, \A t \in S : m[t] < m[s] => t \in T,
             NEW x \in s
      PROVE  f[s] = g[x] + f[s \ {x}]
  <2> DEFINE c == Some(s)
  <2>1. c \in s
    BY DEF Some
  <2>2. CASE c = x
    BY <1>2, <2>2
  <2>3. CASE c # x
    <3>1. /\ Cardinality(s \ {c}) < Cardinality(s)
          /\ Cardinality(s \ {x}) < Cardinality(s)
      BY <2>1, OneLess
    <3>2. s \ {c} \in T /\ s \ {x} \in T
      <4> HIDE DEF T
      <4>1. s \ {c} \in S /\ s \ {x} \in S
        OBVIOUS
      <4>2. m[s \ {c}] < m[s] /\ m[s \ {x}] < m[s]
        BY <3>1, <4>1
      <4>. QED BY <1>3, <4>1, <4>2
    <3>3. f[s] = g[c] + f[s \ {c}]
      BY <1>2, <2>1
    <3>4. f[s \ {c}] = g[x] + f[(s \ {c}) \ {x}]
      BY <2>3, <3>2 DEF f
    <3>5. f[s \ {x}] = g[c] + f[(s \ {x}) \ {c}]
      BY <2>1, <2>3, <3>2 DEF f
    <3>6. (s \ {c}) \ {x} = (s \ {x}) \ {c}
      OBVIOUS
    <3>7. f[(s \ {x}) \ {c}] \in Int /\ g[c] \in Int /\ g[x] \in Int
      BY <1>2, <2>1
    <3>8. PICK r \in Int : r = f[(s \ {x}) \ {c}]
      BY <3>7
    <3>9. f[s] = g[c] + (g[x] + r) /\ f[s \ {x}] = g[c] + r
      BY <3>3, <3>4, <3>5, <3>6, <3>8
    <3>. QED BY <3>7, <3>9
  <2>. QED BY <2>2, <2>3
<1>4. S \subseteq T
  <2>1. \A s \in S : (\A t \in S : m[t] < m[s] => t \in T) => s \in T
    BY <1>3 DEF f
  <2> HIDE DEF S, T, m
  <2>. QED BY <1>1, <2>1, MeasureInduction
<1>. QED BY <1>4

\* A smaller domain gives the same sums.
LEMMA SumIterSmaller ==
  ASSUME NEW D, IsFiniteSet(D), NEW C \in SUBSET D, NEW g, \A x \in D : g[x] \in Int
  PROVE  SumIter(g, D)[C] = SumIter(g, C)[C]
<1> DEFINE T == {s \in SUBSET C : SumIter(g, D)[s] = SumIter(g, C)[s]}
<1>0. IsFiniteSet(C)
  BY FS_Subset
<1>1. {} \in T
  BY <1>0, SumIterType
<1>2. ASSUME NEW s \in SUBSET C, NEW x \in C \ s, s \in T
      PROVE  s \cup {x} \in T
  <2>1. (s \cup {x}) \ {x} = s /\ x \in s \cup {x}
        /\ s \cup {x} \in SUBSET C /\ s \cup {x} \in SUBSET D
    OBVIOUS
  <2>2. SumIter(g, D)[s \cup {x}] = g[x] + SumIter(g, D)[(s \cup {x}) \ {x}]
    BY <2>1, SumIterAny
  <2>3. SumIter(g, C)[s \cup {x}] = g[x] + SumIter(g, C)[(s \cup {x}) \ {x}]
    BY <1>0, <2>1, SumIterAny
  <2>. QED BY <1>2, <2>1, <2>2, <2>3
<1>3. C \in T
  <2> HIDE DEF T
  <2>. QED BY <1>0, <1>1, <1>2, FiniteInduction
<1>. QED BY <1>3

\* The laws of the sum: its type, nothing, and one element more.
LEMMA SumType ==
  ASSUME NEW D, IsFiniteSet(D), NEW g, \A x \in D : g[x] \in Int
  PROVE  SumOver(g, D) \in Int
<1>1. SumIter(g, D) \in [SUBSET D -> Int]
  BY SumIterType
<1>2. D \in SUBSET D
  OBVIOUS
<1>. QED BY <1>1, <1>2 DEF SumOver

LEMMA SumEmpty ==
  ASSUME NEW g
  PROVE  SumOver(g, {}) = 0
BY SumIterType, FS_EmptySet DEF SumOver

LEMMA SumAdd ==
  ASSUME NEW D, IsFiniteSet(D), NEW x, x \notin D,
         NEW g, g[x] \in Int, \A y \in D : g[y] \in Int
  PROVE  SumOver(g, D \cup {x}) = g[x] + SumOver(g, D)
<1> DEFINE C == D \cup {x}
<1>1. IsFiniteSet(C) /\ \A y \in C : g[y] \in Int
  BY FS_AddElement
<1>2. C \ {x} = D /\ x \in C
  OBVIOUS
<1> HIDE DEF C
<1>3. SumIter(g, C)[C] = g[x] + SumIter(g, C)[D]
  BY <1>1, <1>2, SumIterAny
<1>4. SumIter(g, C)[D] = SumIter(g, D)[D]
  BY <1>1, <1>2, SumIterSmaller
<1>. QED BY <1>3, <1>4 DEF SumOver, C

\* Functions that agree on the set have the same sum.
LEMMA SumAgree ==
  ASSUME NEW D, IsFiniteSet(D), NEW g, NEW h,
         \A x \in D : g[x] \in Int /\ g[x] = h[x]
  PROVE  SumOver(g, D) = SumOver(h, D)
<1> DEFINE T == {s \in SUBSET D : SumOver(g, s) = SumOver(h, s)}
<1>1. {} \in T
  BY SumEmpty
<1>2. ASSUME NEW s \in SUBSET D, NEW x \in D \ s, s \in T
      PROVE  s \cup {x} \in T
  <2>1. IsFiniteSet(s)
    BY FS_Subset
  <2>2. /\ SumOver(g, s \cup {x}) = g[x] + SumOver(g, s)
        /\ SumOver(h, s \cup {x}) = h[x] + SumOver(h, s)
    BY <2>1, SumAdd
  <2>. QED BY <1>2, <2>2
<1>3. D \in T
  <2> HIDE DEF T
  <2>. QED BY <1>1, <1>2, FiniteInduction
<1>. QED BY <1>3

-----------------------------------------------------------------------------
(***************************************************************************)
(* Powers of two.  The provers know nothing of 2^n but how many subsets a  *)
(* set of n elements has.                                                  *)
(***************************************************************************)

LEMMA PowerIsSubsets ==
  ASSUME NEW n \in Nat
  PROVE  /\ IsFiniteSet(SUBSET (1..n))
         /\ Cardinality(SUBSET (1..n)) = 2^n
         /\ 2^n \in Nat
<1>1. IsFiniteSet(1..n) /\ Cardinality(1..n) = n
  BY FS_Interval
<1>2. IsFiniteSet(SUBSET (1..n)) /\ Cardinality(SUBSET (1..n)) = 2^n
  BY <1>1, FS_SUBSET
<1>. QED BY <1>2, FS_CardinalityType

LEMMA PowerStep ==
  ASSUME NEW n \in Nat
  PROVE  2^(n + 1) = 2 * 2^n
<1> DEFINE A == SUBSET (1..n)
           C == SUBSET (1..(n + 1))
           B == {s \in C : n + 1 \in s}
<1>1. /\ IsFiniteSet(A) /\ Cardinality(A) = 2^n /\ 2^n \in Nat
      /\ IsFiniteSet(C) /\ Cardinality(C) = 2^(n + 1) /\ 2^(n + 1) \in Nat
  <2>1. IsFiniteSet(A) /\ Cardinality(A) = 2^n /\ 2^n \in Nat
    BY PowerIsSubsets
  <2>2. n + 1 \in Nat
    OBVIOUS
  <2>3. IsFiniteSet(C) /\ Cardinality(C) = 2^(n + 1) /\ 2^(n + 1) \in Nat
    BY <2>2, PowerIsSubsets
  <2>. QED BY <2>1, <2>3
<1>2. C = A \cup B /\ A \cap B = {}
  <2>1. 1..(n + 1) = 1..n \cup {n + 1} /\ n + 1 \notin 1..n
    OBVIOUS
  <2>. QED BY <2>1
<1> DEFINE f == [s \in A |-> s \cup {n + 1}]
<1>3. f \in Bijection(A, B)
  <2>1. f \in [A -> B]
    OBVIOUS
  <2>2. ASSUME NEW s \in A, NEW t \in A, f[s] = f[t]
        PROVE  s = t
    <3>1. n + 1 \notin s /\ n + 1 \notin t
      OBVIOUS
    <3>2. s \cup {n + 1} = t \cup {n + 1}
      BY <2>2
    <3>. QED BY <3>1, <3>2
  <2>3. ASSUME NEW t \in B
        PROVE  \E s \in A : f[s] = t
    <3>1. t \ {n + 1} \in A
      OBVIOUS
    <3>2. f[t \ {n + 1}] = t
      BY <3>1
    <3>. QED BY <3>1, <3>2
  <2> HIDE DEF f, A, B
  <2>. QED BY <2>1, <2>2, <2>3 DEF Bijection, Injection, Surjection, IsInjective
<1>4. IsFiniteSet(B) /\ Cardinality(B) = 2^n
  <2> HIDE DEF A, B, f
  <2>1. ExistsBijection(A, B)
    BY <1>3 DEF ExistsBijection
  <2>. QED BY <1>1, <2>1, FS_Bijection
<1>5. Cardinality(A \cup B) = Cardinality(A) + Cardinality(B) - Cardinality(A \cap B)
  <2> HIDE DEF A, B
  <2>. QED BY <1>1, <1>4, FS_Union
<1>6. Cardinality(A \cap B) = 0
  BY <1>2, FS_EmptySet
<1> HIDE DEF A, B, C
<1>. QED BY <1>1, <1>2, <1>4, <1>5, <1>6

LEMMA PowerPositive ==
  ASSUME NEW n \in Nat
  PROVE  2^n \in Nat \ {0}
<1> DEFINE T == {k \in Nat : 2^k \in Nat \ {0}}
<1>1. 0 \in T
  OBVIOUS
<1>2. ASSUME NEW k \in Nat, k \in T
      PROVE  k + 1 \in T
  BY <1>2, PowerStep
<1>3. Nat \subseteq T
  <2> HIDE DEF T
  <2>. QED BY <1>1, <1>2, Induction
<1>. QED BY <1>3

LEMMA PowerSum ==
  ASSUME NEW n \in Nat, NEW k \in Nat
  PROVE  2^(n + k) = 2^n * 2^k
<1> DEFINE T == {j \in Nat : 2^(n + j) = 2^n * 2^j}
<1>0. 2^n \in Nat
  BY PowerPositive
<1>1. 0 \in T
  BY <1>0
<1>2. ASSUME NEW j \in Nat, j \in T
      PROVE  j + 1 \in T
  <2>1. 2^(n + (j + 1)) = 2 * 2^(n + j)
    <3>1. n + (j + 1) = (n + j) + 1 /\ n + j \in Nat
      OBVIOUS
    <3>. QED BY <3>1, PowerStep
  <2>2. 2^(j + 1) = 2 * 2^j /\ 2^j \in Nat
    BY PowerStep, PowerPositive
  <2>3. PICK a \in Nat : a = 2^n
    BY <1>0
  <2>4. PICK b \in Nat : b = 2^j
    BY <2>2
  <2>5. 2^(n + j) = a * b
    BY <1>2, <2>3, <2>4
  <2>6. 2 * (a * b) = a * (2 * b)
    OBVIOUS
  <2>. QED BY <2>1, <2>2, <2>3, <2>4, <2>5, <2>6
<1>3. Nat \subseteq T
  <2> HIDE DEF T
  <2>. QED BY <1>1, <1>2, Induction
<1>. QED BY <1>3
=============================================================================
