---------------------------- MODULE StackProofs ----------------------------
(***************************************************************************)
(* For every program that uses its stack as Go's compiler makes it: every  *)
(* activation keeps its part of the stack to itself, so that bt finds the  *)
(* chain of its callers and p the string of the function control is in.    *)
(***************************************************************************)
EXTENDS InspectProofs

-----------------------------------------------------------------------------
(***************************************************************************)
(* The stack of the traced program.  An activation is the root, or what a  *)
(* call has begun; activation 1 is the innermost one.  base[k] is the      *)
(* address above the return address of activation k, its CFA.              *)
(***************************************************************************)

Top == Max(StackWords)

Assignment == [ptr : Strings \cup {0}, len : Nat]

Activations == 1..(Len(stack) + 1)

\* Where a string may be assigned, one entry of the frame table applies.
StringsAreCovered == \E body \in SUBSET Inst : IsCovered(body)

\* What an activation at a knows of its frame: b is its CFA, o its caller's frame pointer,
\* s what it has assigned.
FrameOK(a, body, s, m, b, o) ==
  LET f == Frame[a]
  IN  /\ f.ready \/ f.does = "setBP" => m[b - 2] = o
      /\ f.does = "len" => s.ptr # 0
      /\ s.ptr # 0 =>
           /\ f.ready \/ f.does = "free" \/ Op[a] = "ret"
           /\ s.ptr \in Strings /\ a \in body /\ f.cfa # 0
           /\ -(f.size + 1) <= f.num /\ f.num <= -4
           /\ m[b + f.num] = s.ptr
      /\ s.len # 0 => s.ptr # 0 /\ s.len = LenOf[s.ptr] /\ m[b + f.num + 1] = s.len

IsReturn(r) == \E a \in Inst : Op[a] = "call" /\ r = ReturnAddress(a)

\* The activations that wait for a call to return.  found[k] is the frame pointer that
\* activation k has found: its caller's own if rbp points to that one's frame, otherwise
\* the one its caller has found.
Outer(base, found, body, floor) ==
  /\ base \in [Activations -> Nat]
  /\ found \in [Activations -> Nat]
  /\ base[Len(stack) + 1] = Top /\ found[Len(stack) + 1] = 0
  /\ \A i, j \in Activations : i <= j => base[i] <= base[j]
  /\ \A k \in 1..Len(stack) :
       /\ IsReturn(stack[k])
       /\ base[k + 1] = base[k] + Frame[stack[k]].cfa
       /\ found[k] = IF Frame[stack[k]].ready THEN base[k + 1] - 2 ELSE found[k + 1]
       /\ mem[base[k] - 1] = stack[k]
       /\ floor[Len(stack) - k] <= base[k]
       /\ Frame[stack[k]].cfa = 0 <=> k = Len(stack)
  /\ \A k \in 2..(Len(stack) + 1) :
       /\ FrameOK(stack[k - 1], body, assigned[k], mem, base[k], found[k])
       /\ assigned[k].ptr # 0 => Frame[stack[k - 1]].ready

\* The innermost one.
Inner(base, found, body) ==
  /\ base[1] = rsp + Frame[Control].cfa
  /\ Frame[Control].cfa = 0 <=> stack = <<>>
  /\ rbp = IF Frame[Control].ready THEN base[1] - 2 ELSE found[1]
  /\ FrameOK(Control, body, assigned[1], mem, base[1], found[1])

FrameTyped ==
  /\ Control \in Inst
  /\ stack \in Seq(Inst)
  /\ rsp \in Nat
  /\ rbp \in Nat
  /\ mem \in [StackWords -> Nat]
  /\ assigned \in Seq(Assignment)
  /\ Len(assigned) = Len(stack) + 1
  /\ Len(stack) <= MaxDepth

Shape(base, found, body, floor) == FrameTyped /\ Outer(base, found, body, floor) /\ Inner(base, found, body)

StackInv(body, floor) == \E base, found : Shape(base, found, body, floor)

\* Below floor[d] there is room for all activations but the first d + 1.
IsRoom(floor) ==
  /\ floor \in [0..MaxDepth -> StackWords]
  /\ floor[0] = Top
  /\ \A d \in 1..MaxDepth : \A a \in Inst :
       floor[d] + Frame[a].cfa <= floor[d - 1] /\ floor[d] + Frame[a].size < floor[d - 1]

Closed(body) == \A a \in Inst : a \in body \/ Frame[a].does = "ptr" => GoesOn(a) \subseteq body

\* The stack is a range of words.
LEMMA StackIsInterval ==
  ASSUME StackFits
  PROVE  /\ StackWords \subseteq Nat \ {0}
         /\ Top \in StackWords
         /\ \A x \in StackWords : x <= Top
         /\ \A x, y \in StackWords : \A z \in Int : x <= z /\ z <= y => z \in StackWords
<1>1. StackWords \subseteq Nat \ {0}
  BY InspectAssumption
<1>2. PICK bottom, top \in StackWords : StackWords = bottom..top
  BY DEF StackFits
<1>3. bottom \in Nat /\ top \in Nat /\ \A x \in StackWords : x <= top
  BY <1>1, <1>2
<1>4. Top \in StackWords /\ \A x \in StackWords : x <= Top
  <2>1. \E t \in StackWords : \A x \in StackWords : t >= x
    BY <1>1, <1>2, <1>3
  <2>2. Top \in StackWords /\ \A x \in StackWords : Top >= x
    BY <2>1 DEF Top, Max
  <2>. QED BY <1>1, <2>2
<1>5. ASSUME NEW x \in StackWords, NEW y \in StackWords, NEW z \in Int, x <= z, z <= y
      PROVE  z \in StackWords
  BY <1>2, <1>3, <1>5
<1>. QED BY <1>1, <1>4, <1>5

\* Room for MaxDepth frames can be divided into levels.
LEMMA RoomExists ==
  ASSUME StackFits
  PROVE  \E floor : IsRoom(floor)
<1>0. PICK bottom, top \in StackWords :
        /\ StackWords = bottom..top
        /\ \E words \in 1..top :
             /\ \A a \in Inst : Frame[a].cfa <= words /\ Frame[a].size < words
             /\ MaxDepth * words <= top - bottom
  BY DEF StackFits
<1>1. PICK words \in 1..top :
        /\ StackWords = bottom..top
        /\ \A a \in Inst : Frame[a].cfa <= words /\ Frame[a].size < words
        /\ MaxDepth * words <= top - bottom
  BY <1>0
<1>2. bottom \in Nat /\ top \in Nat /\ words \in Nat /\ MaxDepth \in Nat /\ bottom <= top
      /\ Top \in Int /\ top <= Top /\ Top <= top
  BY <1>1, StackIsInterval, CodeAssumption
<1>3. \A a \in Inst : Frame[a].cfa \in Nat /\ Frame[a].size \in Nat
  BY InspectAssumption DEF FrameRecord
<1> DEFINE floor == [d \in 0..MaxDepth |-> top - d * words]
<1>4. ASSUME NEW d \in 0..MaxDepth
      PROVE  d * words \in Nat /\ d * words <= MaxDepth * words
  <2>1. d * words + (MaxDepth - d) * words = MaxDepth * words
    BY <1>2
  <2>2. d * words \in Nat /\ (MaxDepth - d) * words \in Nat /\ MaxDepth * words \in Nat
    BY <1>2
  <2>. QED BY <2>1, <2>2
<1>5. ASSUME NEW d \in 0..MaxDepth
      PROVE  top - d * words \in StackWords
  <2>1. PICK p \in Nat : p = d * words /\ p <= top - bottom
    BY <1>1, <1>2, <1>4
  <2>2. bottom <= top - p /\ top - p <= top /\ top - p \in Int
    BY <1>2, <2>1
  <2>. QED BY <1>1, <2>1, <2>2
<1>6. floor[0] = Top
  BY <1>2
<1>7. ASSUME NEW d \in 1..MaxDepth, NEW a \in Inst
      PROVE  floor[d] + Frame[a].cfa <= floor[d - 1] /\ floor[d] + Frame[a].size < floor[d - 1]
  <2>1. d \in 0..MaxDepth /\ d - 1 \in 0..MaxDepth
    BY <1>2
  <2>2. d * words = (d - 1) * words + words
    BY <1>2
  <2>3. PICK p \in Int, q \in Int : p = d * words /\ q = (d - 1) * words
    BY <1>2, <1>4, <2>1
  <2>4. top - p + Frame[a].cfa <= top - q /\ top - p + Frame[a].size < top - q
    BY <1>1, <1>2, <1>3, <2>2, <2>3
  <2>. QED BY <2>1, <2>3, <2>4
<1>8. IsRoom(floor)
  BY <1>5, <1>6, <1>7 DEF IsRoom
<1>. QED BY <1>8

\* What the parts of a frame are.
LEMMA FrameType ==
  ASSUME NEW a \in Inst
  PROVE  /\ Frame[a].does \in {"none", "alloc", "saveBP", "setBP", "ptr", "len", "restoreBP", "free"}
         /\ Frame[a].size \in Nat
         /\ Frame[a].cfa \in Nat
         /\ Frame[a].num \in Int
         /\ Frame[a].ready \in BOOLEAN
BY InspectAssumption DEF FrameRecord

\* An address behind a call.
LEMMA ReturnFrame ==
  ASSUME FramesAreGo, NEW r \in Inst, IsReturn(r)
  PROVE  /\ Frame[r].does \notin {"setBP", "len"}
         /\ Frame[r].ready => Frame[r].size > 0 /\ Frame[r].cfa = Frame[r].size + 1
<1>1. PICK a \in Inst : Op[a] = "call" /\ r = ReturnAddress(a)
  BY DEF IsReturn
<1>2. UsesFrame(a) /\ UsesFrame(r) /\ LeavesFrame(a, r)
  BY <1>1 DEF FramesAreGo, GoesOn
<1>3. Frame[a].does = "none"
  BY <1>1, <1>2 DEF UsesFrame
<1>4. Frame[r].does \notin {"setBP", "len"}
  BY <1>2, <1>3 DEF LeavesFrame
<1>. QED BY <1>2, <1>3, <1>4 DEF UsesFrame, Allocated

\* The innermost frame lies within the stack, the others above it.
LEMMA ShapeBounds ==
  ASSUME StackFits, FramesAreGo, NEW base, NEW found, NEW body, NEW floor, IsRoom(floor),
         Shape(base, found, body, floor)
  PROVE  /\ Len(stack) \in Nat /\ DOMAIN stack = 1..Len(stack)
         /\ \A k \in 1..Len(stack) : stack[k] \in Inst
         /\ \A k \in Activations : base[k] \in Nat /\ base[1] <= base[k] /\ base[k] <= Top
         /\ rsp \in Nat /\ rsp <= base[1] /\ Top \in Nat
         /\ Len(stack) \in 0..MaxDepth /\ floor[Len(stack)] \in Nat /\ floor[Len(stack)] <= rsp
         /\ \A a \in Inst : (Frame[a].cfa = 0 <=> stack = <<>>)
                             => floor[Len(stack)] <= base[1] - Frame[a].cfa
         /\ \A z \in Int : rsp <= z /\ z <= Top => z \in StackWords
<1>1. Len(stack) \in Nat /\ DOMAIN stack = 1..Len(stack) /\ Len(stack) <= MaxDepth
      /\ \A k \in 1..Len(stack) : stack[k] \in Inst
  BY DEF Shape, FrameTyped
<1>2. ASSUME NEW k \in Activations
      PROVE  base[k] \in Nat /\ base[1] <= base[k] /\ base[k] <= Top
  <2>1. 1 \in Activations /\ Len(stack) + 1 \in Activations /\ 1 <= k /\ k <= Len(stack) + 1
    BY <1>1 DEF Activations
  <2>2. /\ base[k] \in Nat
        /\ base[Len(stack) + 1] = Top
        /\ \A i, j \in Activations : i <= j => base[i] <= base[j]
    BY DEF Shape, Outer
  <2>. QED BY <2>1, <2>2
<1>3. rsp \in Nat /\ Frame[Control].cfa \in Nat /\ base[1] = rsp + Frame[Control].cfa
      /\ Control \in Inst
  BY FrameType DEF Shape, FrameTyped, Inner
<1>4. Top \in Nat /\ Top \in StackWords
  BY StackIsInterval
<1>5. Len(stack) \in 0..MaxDepth /\ floor[Len(stack)] \in StackWords
  BY <1>1, CodeAssumption DEF IsRoom
<1>6. ASSUME NEW a \in Inst, Frame[a].cfa = 0 <=> stack = <<>>
      PROVE  floor[Len(stack)] <= base[1] - Frame[a].cfa
  <2>0. Frame[a].cfa \in Nat
    BY FrameType
  <2>1. CASE Len(stack) = 0
    <3>1. stack = <<>>
      BY <2>1 DEF Shape, FrameTyped
    <3>2. Frame[a].cfa = 0 /\ base[1] = Top /\ floor[0] = Top
      BY <1>6, <2>1, <3>1 DEF Shape, Outer, IsRoom
    <3>. QED BY <1>4, <2>1, <3>2
  <2>2. CASE Len(stack) # 0
    <3>1. 1 \in 1..Len(stack) /\ Len(stack) \in 1..MaxDepth /\ Len(stack) - 1 \in 0..MaxDepth
      BY <1>1, <1>5, <2>2, CodeAssumption
    <3>2. floor[Len(stack) - 1] <= base[1]
      BY <3>1 DEF Shape, Outer
    <3>3. floor[Len(stack)] + Frame[a].cfa <= floor[Len(stack) - 1]
      BY <3>1 DEF IsRoom
    <3>4. floor[Len(stack)] \in Nat /\ floor[Len(stack) - 1] \in Nat
      BY <3>1, <1>5, StackIsInterval DEF IsRoom
    <3>5. base[1] \in Nat
      BY <1>1, <1>2 DEF Activations
    <3>. QED BY <2>0, <3>2, <3>3, <3>4, <3>5
  <2>. QED BY <2>1, <2>2
<1>10. floor[Len(stack)] <= rsp
  <2>1. floor[Len(stack)] <= base[1] - Frame[Control].cfa
    BY <1>3, <1>6 DEF Shape, Inner
  <2>. QED BY <1>3, <2>1
<1>7. \A z \in Int : rsp <= z /\ z <= Top => z \in StackWords
  <2>1. floor[Len(stack)] \in Nat
    BY <1>5, StackIsInterval
  <2>2. \A z \in Int : rsp <= z => floor[Len(stack)] <= z
    BY <1>3, <1>10, <2>1
  <2>. QED BY <1>4, <1>5, <2>2, StackIsInterval
<1>8. rsp <= base[1]
  BY <1>3
<1>9. floor[Len(stack)] \in Nat
  BY <1>5, StackIsInterval
<1>. QED BY <1>1, <1>2, <1>3, <1>4, <1>5, <1>6, <1>7, <1>8, <1>9, <1>10

\* The words of the string lie in the frame and below the saved frame pointer.
LEMMA Within ==
  ASSUME NEW b \in Nat, NEW n \in Int, NEW f \in Nat, -f <= n, n <= -4
  PROVE  /\ b + n \in Int /\ b + n + 1 \in Int
         /\ b - f <= b + n /\ b + n <= b - 4
         /\ b - f <= b + n + 1 /\ b + n + 1 <= b - 3
         /\ b + n <= b /\ b + n + 1 <= b
OBVIOUS

\* A word of an outer frame is in the part of the stack that is in use.
LEMMA OuterWord ==
  ASSUME NEW w \in Nat, NEW d \in Nat, NEW c \in Nat, NEW f \in Nat, NEW b \in Nat, NEW t \in Nat,
         NEW z \in Int, w <= d, d <= c, b = c + f, b - f <= z, z <= b, b <= t
  PROVE  c <= z /\ d - 1 <= z /\ w <= z /\ z <= t
<1>1. c <= z
  OBVIOUS
<1>. QED BY <1>1

\* A store below a word leaves the words from that one up alone.
LEMMA StoreBelow ==
  ASSUME StackFits, mem \in [StackWords -> Nat], NEW y \in Int, NEW z \in Int, y < z, NEW v
  PROVE  \A x \in StackWords : z <= x => [mem EXCEPT ![y] = v][x] = mem[x]
<1> TAKE x \in StackWords
<1> HAVE z <= x
<1>1. PICK n \in Nat : n = x
  BY StackIsInterval
<1>2. n # y
  BY <1>1
<1>. QED BY <1>1, <1>2

\* The word of the saved base pointer is in the frame.
LEMMA InFrame ==
  ASSUME NEW b \in Nat, NEW x \in Nat, NEW y \in Nat, y > 0, x = y + 1
  PROVE  b - 2 \in Int /\ b - x <= b - 2 /\ b - 2 <= b
OBVIOUS

\* The two words below the end of a frame that has room for them.
LEMMA BelowReturn ==
  ASSUME NEW b \in Nat, NEW w \in Nat, NEW c \in Nat, NEW t \in Nat, b >= w + c, c >= 2, b <= t
  PROVE  /\ b - 2 \in Int /\ w <= b - 2 /\ b - 2 <= t
         /\ (b - 2) + 1 \in Int /\ w <= (b - 2) + 1 /\ (b - 2) + 1 <= t
         /\ (b - 2) + 1 = b - 1
OBVIOUS

\* m is mem from the return address of the innermost activation up.
KeepsOuter(m, base) == \A x \in StackWords : base[1] - 1 <= x /\ rsp <= x => m[x] = mem[x]

\* An activation that waits knows nothing of the words below the return address of the
\* innermost one.
LEMMA OuterFrames ==
  ASSUME StackFits, FramesAreGo, NEW base, NEW found, NEW body, NEW floor, IsRoom(floor),
         Shape(base, found, body, floor),
         NEW m, KeepsOuter(m, base)
  PROVE  /\ \A k \in 1..Len(stack) : base[k] - 1 \in StackWords /\ m[base[k] - 1] = stack[k]
         /\ \A k \in 2..(Len(stack) + 1) :
              FrameOK(stack[k - 1], body, assigned[k], m, base[k], found[k])
<1>0. \A x \in StackWords : base[1] - 1 <= x /\ rsp <= x => m[x] = mem[x]
  BY DEF KeepsOuter
<1>1. /\ Len(stack) \in Nat
      /\ \A k \in 1..Len(stack) : stack[k] \in Inst /\ IsReturn(stack[k])
      /\ \A k \in Activations : base[k] \in Nat /\ base[1] <= base[k] /\ base[k] <= Top
      /\ rsp \in Nat /\ rsp <= base[1] /\ Top \in Nat
      /\ \A z \in Int : rsp <= z /\ z <= Top => z \in StackWords
  BY ShapeBounds DEF Shape, Outer
<1>2. \A k \in 1..Len(stack) : base[k + 1] = base[k] + Frame[stack[k]].cfa
  BY DEF Shape, Outer
<1>3. ASSUME NEW k \in 1..Len(stack)
      PROVE  base[k] - 1 \in StackWords /\ m[base[k] - 1] = stack[k]
  <2>1. k \in Activations /\ base[k] \in Nat
    BY <1>1 DEF Activations
  <2>2. rsp < base[1]
    <3>1. stack # <<>> /\ Control \in Inst
      BY <1>1, <1>3 DEF Shape, FrameTyped
    <3>2. Frame[Control].cfa # 0 /\ Frame[Control].cfa \in Nat /\ base[1] = rsp + Frame[Control].cfa
      BY <3>1, FrameType DEF Shape, Inner
    <3>. QED BY <1>1, <3>2
  <2>3. base[1] \in Nat
    BY <1>1 DEF Activations
  <2>4. base[k] - 1 \in Int /\ rsp <= base[k] - 1 /\ base[k] - 1 <= Top /\ base[1] - 1 <= base[k] - 1
    BY <1>1, <2>1, <2>2, <2>3
  <2>5. mem[base[k] - 1] = stack[k]
    BY <1>3 DEF Shape, Outer
  <2>. QED BY <1>0, <1>1, <2>4, <2>5
<1>4. ASSUME NEW k \in 2..(Len(stack) + 1)
      PROVE  FrameOK(stack[k - 1], body, assigned[k], m, base[k], found[k])
  <2>1. k - 1 \in 1..Len(stack) /\ k \in Activations /\ k - 1 \in Activations /\ 1 \in Activations
    BY <1>1, <1>4 DEF Activations
  <2>2. PICK r \in Inst : r = stack[k - 1] /\ IsReturn(r)
    BY <1>1, <2>1
  <2>3. PICK b \in Nat : b = base[k] /\ b = base[k - 1] + Frame[r].cfa /\ b <= Top
    <3>1. base[(k - 1) + 1] = base[k - 1] + Frame[r].cfa /\ (k - 1) + 1 = k
      BY <1>2, <1>4, <2>1, <2>2
    <3>. QED BY <1>1, <2>1, <3>1
  <2>4. base[k - 1] \in Nat /\ base[1] \in Nat /\ base[1] <= base[k - 1]
    BY <1>1, <2>1
  <2>5. /\ FrameOK(r, body, assigned[k], mem, b, found[k])
        /\ assigned[k].ptr # 0 => Frame[r].ready
    <3>1. /\ FrameOK(stack[k - 1], body, assigned[k], mem, base[k], found[k])
          /\ assigned[k].ptr # 0 => Frame[stack[k - 1]].ready
      BY <1>4 DEF Shape, Outer
    <3>. QED BY <2>2, <2>3, <3>1
  <2>6. /\ Frame[r].does # "setBP"
        /\ Frame[r].ready => Frame[r].size > 0 /\ Frame[r].cfa = Frame[r].size + 1
        /\ Frame[r].size \in Nat /\ Frame[r].cfa \in Nat /\ Frame[r].num \in Int
    BY <2>2, ReturnFrame, FrameType
  <2>7. ASSUME NEW z \in Int, b - Frame[r].cfa <= z, z <= b
        PROVE  m[z] = mem[z]
    <3>1. PICK c \in Nat, d \in Nat, w \in Nat, t \in Nat, f \in Nat :
            /\ c = base[k - 1] /\ d = base[1] /\ w = rsp /\ t = Top
            /\ f = Frame[r].cfa
      BY <1>1, <2>4, <2>6
    <3>2. b = c + f /\ d <= c /\ b <= t
      BY <2>3, <2>4, <3>1
    <3>3. w <= d
      BY <1>1, <3>1
    <3>4. b - f <= z /\ z <= b
      BY <2>7, <3>1
    <3>5. d - 1 <= z /\ w <= z /\ z <= t
      BY <3>2, <3>3, <3>4, OuterWord
    <3>6. z \in StackWords
      BY <1>1, <3>1, <3>5
    <3>. QED BY <1>0, <3>1, <3>5, <3>6
  <2>8. Frame[r].ready => m[b - 2] = mem[b - 2]
    <3> SUFFICES ASSUME Frame[r].ready PROVE m[b - 2] = mem[b - 2]
      OBVIOUS
    <3>1. PICK x \in Nat, y \in Nat : x = Frame[r].cfa /\ y = Frame[r].size /\ y > 0 /\ x = y + 1
      BY <2>6
    <3>2. b - 2 \in Int /\ b - x <= b - 2 /\ b - 2 <= b
      BY <3>1, InFrame
    <3>. QED BY <2>7, <3>1, <3>2
  <2>9. Frame[r].ready /\ -(Frame[r].size + 1) <= Frame[r].num /\ Frame[r].num <= -4
          => m[b + Frame[r].num] = mem[b + Frame[r].num] /\ m[b + Frame[r].num + 1] = mem[b + Frame[r].num + 1]
    <3> SUFFICES ASSUME Frame[r].ready, -(Frame[r].size + 1) <= Frame[r].num, Frame[r].num <= -4
                 PROVE  /\ m[b + Frame[r].num] = mem[b + Frame[r].num]
                        /\ m[b + Frame[r].num + 1] = mem[b + Frame[r].num + 1]
      OBVIOUS
    <3>1. Frame[r].cfa = Frame[r].size + 1 /\ Frame[r].size \in Nat /\ Frame[r].num \in Int
      BY <2>6
    <3>2. PICK n \in Int : n = Frame[r].num /\ -Frame[r].cfa <= n /\ n <= -4
      BY <3>1
    <3>3. PICK f \in Nat : f = Frame[r].cfa /\ -f <= n
      BY <3>1, <3>2
    <3>4. /\ b + n \in Int /\ b + n + 1 \in Int
          /\ b - f <= b + n /\ b + n <= b
          /\ b - f <= b + n + 1 /\ b + n + 1 <= b
      BY <3>2, <3>3, Within
    <3>. QED BY <2>7, <3>2, <3>3, <3>4
  <2>10. FrameOK(r, body, assigned[k], m, b, found[k])
    BY <2>5, <2>6, <2>8, <2>9 DEF FrameOK
  <2>. QED BY <2>2, <2>3, <2>10
<1>. QED BY <1>3, <1>4

-----------------------------------------------------------------------------
\* Most instructions write nothing: what the activation knew holds where control goes on.
LEMMA PassesOn ==
  ASSUME FramesAreGo, NEW body, Closed(body), NEW a \in Inst, NEW d \in GoesOn(a),
         Frame[a].does \notin {"saveBP", "ptr", "len"},
         NEW s, NEW m, NEW b, NEW o, FrameOK(a, body, s, m, b, o)
  PROVE  /\ FrameOK(d, body, s, m, b, o)
         /\ Frame[d].cfa = 0 <=> Frame[a].cfa = 0
<1>1. d \in Inst /\ UsesFrame(a) /\ LeavesFrame(a, d)
  BY DEF FramesAreGo, GoesOn
<1>2. s.ptr # 0 => d \in body
  BY DEF FrameOK, Closed
<1>3. Frame[d].size = Frame[a].size /\ Frame[d].num = Frame[a].num
      /\ Frame[d].does # "len" /\ Frame[d].does # "setBP"
      /\ (Frame[d].ready => Frame[a].ready \/ Frame[a].does = "setBP")
  BY <1>1 DEF LeavesFrame
<1>5. s.ptr # 0 => Frame[d].ready \/ Frame[d].does = "free" \/ Op[d] = "ret"
  <2>1. Op[a] # "ret"
    BY DEF GoesOn
  <2>2. s.ptr # 0 => Frame[a].ready \/ Frame[a].does = "free"
    BY <2>1 DEF FrameOK
  <2>. QED BY <1>1, <2>2 DEF LeavesFrame
<1>4. Frame[d].cfa = 0 <=> Frame[a].cfa = 0
  <2>1. Frame[a].cfa \in Nat /\ Frame[d].cfa \in Nat /\ Frame[a].size \in Nat
    BY <1>1, FrameType
  <2>2. CASE Frame[a].does = "alloc"
    BY <1>1, <2>1, <2>2 DEF LeavesFrame, UsesFrame
  <2>3. CASE Frame[a].does = "free"
    BY <1>1, <2>1, <2>3 DEF LeavesFrame, UsesFrame, Allocated
  <2>4. CASE Frame[a].does \notin {"alloc", "free"}
    BY <1>1, <2>4 DEF LeavesFrame
  <2>. QED BY <2>2, <2>3, <2>4
<1>. QED BY <1>2, <1>3, <1>4, <1>5 DEF FrameOK

\* The words of the frame of an instruction that writes to it.
IsFrame(a, b, m) ==
  /\ b \in Nat
  /\ m \in [StackWords -> Nat]
  /\ \A z \in Int : b - Frame[a].cfa <= z /\ z < b => z \in StackWords

\* The caller's frame pointer is saved.
LEMMA SavesBP ==
  ASSUME FramesAreGo, NEW body, Closed(body), NEW a \in Inst, NEW d \in GoesOn(a),
         Frame[a].does = "saveBP",
         NEW s, NEW m, NEW b, NEW o, IsFrame(a, b, m), FrameOK(a, body, s, m, b, o)
  PROVE  /\ b - 2 \in StackWords
         /\ FrameOK(d, body, s, [m EXCEPT ![b - 2] = o], b, o)
         /\ Frame[d].cfa = 0 <=> Frame[a].cfa = 0
<1>1. d \in Inst /\ UsesFrame(a) /\ LeavesFrame(a, d)
  BY DEF FramesAreGo, GoesOn
<1>2. s.ptr = 0 /\ s.len = 0
  BY <1>1 DEF UsesFrame, FrameOK
<1>3. Frame[d].does # "len" /\ Frame[d].cfa = Frame[a].cfa
  BY <1>1 DEF LeavesFrame
<1>4. PICK f \in Nat : f = Frame[a].cfa /\ f = Frame[a].size + 1 /\ f >= 2
  BY <1>1, FrameType DEF UsesFrame, Allocated
<1>5. b - 2 \in StackWords
  BY <1>4 DEF IsFrame
<1>6. [m EXCEPT ![b - 2] = o][b - 2] = o
  BY <1>5 DEF IsFrame
<1>. QED BY <1>2, <1>3, <1>5, <1>6 DEF FrameOK

\* The string's pointer is stored.
LEMMA StoresPtr ==
  ASSUME FramesAreGo, NEW body, Closed(body), NEW a \in Inst, NEW d \in GoesOn(a),
         Frame[a].does = "ptr", NEW p \in Strings,
         NEW s, NEW m, NEW b, NEW o, IsFrame(a, b, m), FrameOK(a, body, s, m, b, o)
  PROVE  /\ b + Frame[a].num \in StackWords /\ b + Frame[a].num < b - 1
         /\ FrameOK(d, body, [ptr |-> p, len |-> 0], [m EXCEPT ![b + Frame[a].num] = p], b, o)
         /\ Frame[d].cfa = 0 <=> Frame[a].cfa = 0
<1>1. d \in Inst /\ UsesFrame(a) /\ LeavesFrame(a, d) /\ d \in body
  BY DEF FramesAreGo, GoesOn, Closed
<1>2. /\ Frame[d].size = Frame[a].size /\ Frame[d].num = Frame[a].num
      /\ Frame[d].does # "setBP" /\ Frame[d].cfa = Frame[a].cfa
      /\ Frame[a].ready /\ Frame[d].ready
  BY <1>1 DEF LeavesFrame, UsesFrame
<1>3. PICK f \in Nat : f = Frame[a].cfa /\ f = Frame[a].size + 1 /\ f >= 2
  BY <1>1, FrameType DEF UsesFrame, Allocated
<1>4. PICK n \in Int : n = Frame[a].num /\ -f <= n /\ n <= -4
  BY <1>1, <1>3, FrameType DEF UsesFrame
<1>5. b + n \in StackWords /\ b + n # b - 2 /\ b + n < b - 1 /\ b - 2 \in StackWords
  BY <1>3, <1>4, Within DEF IsFrame
<1>6. [m EXCEPT ![b + n] = p][b + n] = p /\ [m EXCEPT ![b + n] = p][b - 2] = m[b - 2]
  BY <1>5 DEF IsFrame
<1>7. p # 0
  BY InspectAssumption
<1>8. m[b - 2] = o
  BY <1>2 DEF FrameOK
<1>. QED BY <1>1, <1>2, <1>3, <1>4, <1>5, <1>6, <1>7, <1>8 DEF FrameOK

\* The string's length is stored behind its pointer.
LEMMA StoresLen ==
  ASSUME FramesAreGo, NEW body, Closed(body), NEW a \in Inst, NEW d \in GoesOn(a),
         Frame[a].does = "len",
         NEW s, s \in Assignment, NEW m, NEW b, NEW o, IsFrame(a, b, m),
         FrameOK(a, body, s, m, b, o)
  PROVE  /\ b + Frame[a].num + 1 \in StackWords /\ b + Frame[a].num + 1 < b - 1
         /\ s.ptr \in Strings /\ LenOf[s.ptr] \in Nat
         /\ FrameOK(d, body, [s EXCEPT !.len = LenOf[s.ptr]],
                    [m EXCEPT ![b + Frame[a].num + 1] = LenOf[s.ptr]], b, o)
         /\ Frame[d].cfa = 0 <=> Frame[a].cfa = 0
<1>1. d \in Inst /\ UsesFrame(a) /\ LeavesFrame(a, d)
  BY DEF FramesAreGo, GoesOn
<1>2. /\ Frame[d].size = Frame[a].size /\ Frame[d].num = Frame[a].num
      /\ Frame[d].does # "setBP" /\ Frame[d].does # "len" /\ Frame[d].cfa = Frame[a].cfa
      /\ Frame[a].ready /\ Frame[d].ready
  BY <1>1 DEF LeavesFrame, UsesFrame
<1>3. PICK f \in Nat : f = Frame[a].cfa /\ f = Frame[a].size + 1 /\ f >= 2
  BY <1>1, FrameType DEF UsesFrame, Allocated
<1>4. PICK n \in Int : n = Frame[a].num /\ -f <= n /\ n <= -4
  BY <1>1, <1>3, FrameType DEF UsesFrame
<1>5. /\ b + n \in StackWords /\ b + n + 1 \in StackWords /\ b - 2 \in StackWords
      /\ b + n + 1 # b - 2 /\ b + n + 1 # b + n /\ b + n + 1 < b - 1
  BY <1>3, <1>4, Within DEF IsFrame
<1>6. s.ptr # 0 /\ s.ptr \in Strings /\ d \in body /\ m[b + n] = s.ptr /\ m[b - 2] = o
  BY <1>2, <1>4 DEF FrameOK, Closed
<1>7. PICK p, l : p = s.ptr /\ l = LenOf[p] /\ l \in Nat
  BY <1>6, InspectAssumption
<1>8. /\ [s EXCEPT !.len = LenOf[s.ptr]].ptr = s.ptr
      /\ [s EXCEPT !.len = LenOf[s.ptr]].len = LenOf[s.ptr]
  BY DEF Assignment
<1>9. /\ [m EXCEPT ![b + n + 1] = l][b + n + 1] = l
      /\ [m EXCEPT ![b + n + 1] = l][b + n] = m[b + n]
      /\ [m EXCEPT ![b + n + 1] = l][b - 2] = m[b - 2]
  BY <1>5 DEF IsFrame
<1>10. FrameOK(d, body, [s EXCEPT !.len = LenOf[s.ptr]], [m EXCEPT ![b + n + 1] = l], b, o)
  BY <1>2, <1>3, <1>4, <1>6, <1>7, <1>8, <1>9 DEF FrameOK
<1>. QED BY <1>2, <1>4, <1>5, <1>6, <1>7, <1>8, <1>9, <1>10

\* An instruction that leaves the stack of activations alone.
LEMMA InnerMoves ==
  ASSUME StackFits, FramesAreGo, NEW base, NEW found, NEW body, NEW floor, IsRoom(floor),
         Shape(base, found, body, floor),
         NEW d \in Inst, Control' = d, stack' = stack,
         assigned' \in Seq(Assignment), Len(assigned') = Len(assigned),
         \A k \in 2..(Len(stack) + 1) : assigned'[k] = assigned[k],
         mem' \in [StackWords -> Nat],
         \A x \in StackWords : base[1] - 1 <= x => mem'[x] = mem[x],
         rsp' \in Nat, base[1] = rsp' + Frame[d].cfa,
         Frame[d].cfa = 0 <=> Frame[Control].cfa = 0,
         rbp' \in Nat, rbp' = IF Frame[d].ready THEN base[1] - 2 ELSE found[1],
         FrameOK(d, body, assigned'[1], mem', base[1], found[1])
  PROVE  Shape(base, found, body, floor)'
<1>1. FrameTyped'
  BY DEF Shape, FrameTyped
<1>2. Activations' = Activations
  BY DEF Activations
<1>3. /\ \A k \in 1..Len(stack) : mem'[base[k] - 1] = stack[k]
      /\ \A k \in 2..(Len(stack) + 1) :
           FrameOK(stack[k - 1], body, assigned[k], mem', base[k], found[k])
  <2>1. PICK m : m = mem'
    OBVIOUS
  <2>2. KeepsOuter(m, base)
    BY <2>1 DEF KeepsOuter
  <2>3. /\ \A k \in 1..Len(stack) : m[base[k] - 1] = stack[k]
        /\ \A k \in 2..(Len(stack) + 1) :
             FrameOK(stack[k - 1], body, assigned[k], m, base[k], found[k])
    BY <2>2, OuterFrames
  <2>. QED BY <2>1, <2>3
<1>4. Outer(base, found, body, floor)'
  <2>1. /\ base \in [Activations -> Nat] /\ found \in [Activations -> Nat]
        /\ base[Len(stack) + 1] = Top /\ found[Len(stack) + 1] = 0
        /\ \A i, j \in Activations : i <= j => base[i] <= base[j]
        /\ \A k \in 1..Len(stack) :
             /\ IsReturn(stack[k])
             /\ base[k + 1] = base[k] + Frame[stack[k]].cfa
             /\ found[k] = IF Frame[stack[k]].ready THEN base[k + 1] - 2 ELSE found[k + 1]
             /\ floor[Len(stack) - k] <= base[k]
             /\ Frame[stack[k]].cfa = 0 <=> k = Len(stack)
    BY DEF Shape, Outer
  <2>2. \A k \in 2..(Len(stack) + 1) :
          /\ FrameOK(stack[k - 1], body, assigned'[k], mem', base[k], found[k])
          /\ assigned'[k].ptr # 0 => Frame[stack[k - 1]].ready
    BY <1>3 DEF Shape, Outer
  <2>. QED BY <1>2, <1>3, <2>1, <2>2 DEF Outer
<1>5. Inner(base, found, body)'
  BY <1>2 DEF Inner, Shape
<1>. QED BY <1>1, <1>4, <1>5 DEF Shape

\* What a step of the program finds.
LEMMA AtInst ==
  ASSUME StackFits, FramesAreGo, NEW base, NEW found, NEW body, NEW floor, IsRoom(floor),
         Shape(base, found, body, floor), pc \in Inst
  PROVE  /\ Control = pc
         /\ base[1] \in Nat /\ base[1] = rsp + Frame[pc].cfa /\ rsp \in Nat
         /\ assigned[1] \in Assignment /\ Len(assigned) \in Nat /\ 1 \in 1..Len(assigned)
         /\ found[1] \in Nat
         /\ UsesFrame(pc) /\ IsFrame(pc, base[1], mem)
         /\ FrameOK(pc, body, assigned[1], mem, base[1], found[1])
         /\ rbp = IF Frame[pc].ready THEN base[1] - 2 ELSE found[1]
<1>1. Control = pc
  BY DEF Control
<1>2. /\ base[1] = rsp + Frame[pc].cfa /\ rsp \in Nat /\ rbp \in Nat
      /\ FrameOK(pc, body, assigned[1], mem, base[1], found[1])
      /\ rbp = IF Frame[pc].ready THEN base[1] - 2 ELSE found[1]
  BY <1>1 DEF Shape, Inner, FrameTyped
<1>3. /\ Len(stack) \in Nat /\ \A k \in Activations : base[k] \in Nat /\ base[k] <= Top
      /\ Top \in Nat
      /\ \A z \in Int : rsp <= z /\ z <= Top => z \in StackWords
  BY ShapeBounds
<1>4. 1 \in Activations
  BY <1>3 DEF Activations
<1>5. base[1] \in Nat /\ base[1] <= Top /\ found[1] \in Nat
  BY <1>3, <1>4 DEF Shape, Outer
<1>6. Frame[pc].cfa \in Nat
  BY FrameType
<1>7. IsFrame(pc, base[1], mem)
  <2>1. ASSUME NEW z \in Int, base[1] - Frame[pc].cfa <= z, z < base[1]
        PROVE  z \in StackWords
    <3>1. PICK b \in Nat, c \in Nat, w \in Nat, t \in Nat :
            b = base[1] /\ c = Frame[pc].cfa /\ w = rsp /\ t = Top
      BY <1>2, <1>3, <1>5, <1>6
    <3>2. b = w + c /\ b <= t /\ b - c <= z /\ z < b
      BY <1>2, <1>5, <2>1, <3>1
    <3>3. w <= z /\ z <= t
      BY <3>2
    <3>. QED BY <1>3, <3>1, <3>3
  <2>. QED BY <1>5, <2>1 DEF IsFrame, Shape, FrameTyped
<1>8. assigned[1] \in Assignment /\ Len(assigned) \in Nat /\ 1 \in 1..Len(assigned)
  <2> HIDE DEF Assignment
  <2>1. assigned \in Seq(Assignment) /\ Len(assigned) = Len(stack) + 1
    BY DEF Shape, FrameTyped
  <2>2. Len(assigned) \in Nat /\ 1 \in 1..Len(assigned)
    BY <1>3, <2>1
  <2>. QED BY <2>1, <2>2
<1>9. UsesFrame(pc)
  BY DEF FramesAreGo
<1>. QED BY <1>1, <1>2, <1>5, <1>7, <1>8, <1>9

\* An instruction within a function.
LEMMA OpMoves ==
  ASSUME StackFits, FramesAreGo, NEW base, NEW found, NEW body, Closed(body), NEW floor, IsRoom(floor),
         Shape(base, found, body, floor),
         pc \in Inst, NEW d \in GoesOn(pc), Control' = d, stack' = stack, moves
  PROVE  Shape(base, found, body, floor)'
<1> DEFINE f == Frame[pc]
           g == Frame[d]
           o == found[1]
           s == assigned[1]
<1>1. /\ Control = pc
      /\ base[1] \in Nat /\ base[1] = rsp + f.cfa /\ rsp \in Nat
      /\ s \in Assignment /\ Len(assigned) \in Nat /\ 1 \in 1..Len(assigned)
      /\ o \in Nat /\ UsesFrame(pc) /\ IsFrame(pc, base[1], mem)
      /\ FrameOK(pc, body, s, mem, base[1], o)
      /\ rbp = IF f.ready THEN base[1] - 2 ELSE o
  BY AtInst
<1>2. d \in Inst /\ LeavesFrame(pc, d)
  BY DEF FramesAreGo, GoesOn
<1>3. /\ f.size \in Nat /\ f.cfa \in Nat /\ f.num \in Int /\ f.ready \in BOOLEAN
      /\ g.size \in Nat /\ g.cfa \in Nat /\ g.num \in Int /\ g.ready \in BOOLEAN
  BY <1>2, FrameType
<1>5. g.cfa <= base[1] /\ (g.cfa = 0 <=> f.cfa = 0)
  <2>1. g.cfa = 0 <=> f.cfa = 0
    <3>1. CASE f.does = "saveBP"
      BY SavesBP, <1>1, <3>1
    <3>2. CASE f.does = "ptr"
      BY <1>2, <3>2 DEF LeavesFrame
    <3>3. CASE f.does = "len"
      BY <1>2, <3>3 DEF LeavesFrame
    <3>4. CASE f.does \notin {"saveBP", "ptr", "len"}
      BY PassesOn, <1>1, <3>4
    <3>. QED BY <3>1, <3>2, <3>3, <3>4
  <2>2. f.cfa = 0 <=> stack = <<>>
    BY <1>1 DEF Shape, Inner
  <2>3. floor[Len(stack)] \in Nat /\ floor[Len(stack)] <= base[1] - g.cfa
    BY <1>2, <2>1, <2>2, ShapeBounds
  <2>4. PICK b \in Nat, c \in Nat, l \in Nat : b = base[1] /\ c = g.cfa /\ l <= b - c
    BY <1>1, <1>3, <2>3
  <2>5. c <= b
    BY <2>4
  <2>. QED BY <2>1, <2>4, <2>5
<1>4. /\ rsp' \in Nat /\ base[1] = rsp' + g.cfa
  <2>0. PICK r \in Nat, b \in Nat : r = rsp /\ b = base[1]
    BY <1>1
  <2>1. PICK z \in Nat, c \in Nat, c2 \in Nat : z = f.size /\ c = f.cfa /\ c2 = g.cfa
    BY <1>3
  <2>2. b = r + c /\ c2 <= b
    BY <1>1, <1>5, <2>0, <2>1
  <2>3. CASE f.does = "alloc"
    <3>1. c = 1 /\ c2 = c + z /\ rsp' = r - z
      BY <1>1, <1>2, <2>0, <2>1, <2>3 DEF UsesFrame, LeavesFrame, moves
    <3>. QED BY <2>0, <2>1, <2>2, <3>1
  <2>4. CASE f.does = "free"
    <3>1. c = z + 1 /\ c2 = c - z /\ rsp' = r + z
      BY <1>1, <1>2, <2>0, <2>1, <2>4 DEF UsesFrame, LeavesFrame, moves, Allocated
    <3>. QED BY <2>0, <2>1, <2>2, <3>1
  <2>5. CASE f.does \notin {"alloc", "free"}
    <3>1. c2 = c /\ rsp' = r
      BY <1>2, <2>0, <2>1, <2>5 DEF LeavesFrame, moves
    <3>. QED BY <2>0, <2>1, <2>2, <3>1
  <2>. QED BY <2>3, <2>4, <2>5
<1>6. /\ f.does \in {"saveBP", "setBP", "restoreBP"} => SavedBP = base[1] - 2
      /\ f.does \in {"ptr", "len"} => Slot = base[1] + f.num
  <2>1. PICK r \in Nat, b \in Nat, z \in Nat, c \in Nat, n \in Int :
          r = rsp /\ b = base[1] /\ z = f.size /\ c = f.cfa /\ n = f.num
    BY <1>1, <1>3
  <2>2. b = r + c
    BY <1>1, <2>1
  <2>3. SavedBP = r + z - 1 /\ Slot = r + z + 1 + n
    BY <2>1 DEF SavedBP, Slot
  <2>4. f.does \notin {"none", "alloc"} => c = z + 1
    BY <1>1, <2>1 DEF UsesFrame, Allocated
  <2>5. c = z + 1 => r + z - 1 = b - 2 /\ r + z + 1 + n = b + n
    BY <2>2
  <2>. QED BY <2>1, <2>3, <2>4, <2>5
<1>7. /\ mem \in [StackWords -> Nat] /\ rbp \in Nat /\ assigned \in Seq(Assignment)
      /\ Len(assigned) = Len(stack) + 1
  BY DEF Shape, FrameTyped
<1>8. ASSUME NEW m, mem' = m, m \in [StackWords -> Nat],
             \A x \in StackWords : base[1] - 1 <= x => m[x] = mem[x],
             NEW t, t \in Assignment, assigned' = [assigned EXCEPT ![1] = t],
             rbp' \in Nat, rbp' = IF g.ready THEN base[1] - 2 ELSE o,
             FrameOK(d, body, t, m, base[1], o)
      PROVE  Shape(base, found, body, floor)'
  <2>1. /\ assigned' \in Seq(Assignment) /\ Len(assigned') = Len(assigned)
        /\ assigned'[1] = t
        /\ \A k \in 2..(Len(stack) + 1) : assigned'[k] = assigned[k]
    <3> HIDE DEF Assignment
    <3>. QED BY <1>1, <1>7, <1>8
  <2>. QED BY <1>1, <1>2, <1>4, <1>5, <1>8, <2>1, InnerMoves
<1>9. assigned = [assigned EXCEPT ![1] = s]
  <2> HIDE DEF Assignment
  <2>. QED BY <1>1, <1>7
<1>10. f.does \notin {"none", "alloc"} => base[1] - 2 \in StackWords /\ base[1] - 2 \in Nat
  <2>1. PICK b \in Nat, z \in Nat, c \in Nat : b = base[1] /\ z = f.size /\ c = f.cfa
    BY <1>1, <1>3
  <2>2. f.does \notin {"none", "alloc"} => z > 0 /\ c = z + 1
    BY <1>1, <2>1 DEF UsesFrame, Allocated
  <2>3. z > 0 /\ c = z + 1 => b - 2 \in Int /\ b - c <= b - 2 /\ b - 2 < b
    BY <2>1
  <2>4. \A x \in Int : b - c <= x /\ x < b => x \in StackWords
    BY <1>1, <2>1 DEF IsFrame
  <2>. QED BY <2>1, <2>2, <2>3, <2>4, InspectAssumption
<1>11. g.ready <=> f.does = "setBP" \/ (f.ready /\ f.does # "restoreBP")
  BY <1>2 DEF LeavesFrame
<1>12. CASE f.does = "saveBP"
  <2>1. rbp = o /\ ~g.ready
    BY <1>1, <1>11, <1>12 DEF UsesFrame
  <2>2. /\ mem' = [mem EXCEPT ![base[1] - 2] = o] /\ assigned' = assigned /\ rbp' = rbp
    BY <1>6, <1>12, <2>1 DEF moves
  <2>3. [mem EXCEPT ![base[1] - 2] = o] \in [StackWords -> Nat]
    BY <1>7, <2>1
  <2>4. \A x \in StackWords : base[1] - 1 <= x => [mem EXCEPT ![base[1] - 2] = o][x] = mem[x]
    <3>1. PICK b \in Nat : b = base[1]
      BY <1>1
    <3>2. PICK y \in Int, z \in Int : y = b - 2 /\ z = b - 1
      OBVIOUS
    <3>3. y < z
      BY <3>2
    <3>4. \A x \in StackWords : z <= x => [mem EXCEPT ![y] = o][x] = mem[x]
      BY <1>7, <3>3, StoreBelow
    <3>. QED BY <3>1, <3>2, <3>4
  <2>5. FrameOK(d, body, s, [mem EXCEPT ![base[1] - 2] = o], base[1], o)
    BY <1>1, <1>12, SavesBP
  <2>. QED BY <1>1, <1>7, <1>8, <1>9, <2>1, <2>2, <2>3, <2>4, <2>5
<1>13. CASE f.does = "ptr"
  <2>1. PICK p \in Strings :
          /\ mem' = [mem EXCEPT ![base[1] + f.num] = p]
          /\ assigned' = [assigned EXCEPT ![1] = [ptr |-> p, len |-> 0]]
          /\ rbp' = rbp
    BY <1>6, <1>13 DEF moves
  <2>2. /\ base[1] + f.num \in StackWords /\ base[1] + f.num < base[1] - 1
        /\ FrameOK(d, body, [ptr |-> p, len |-> 0], [mem EXCEPT ![base[1] + f.num] = p], base[1], o)
    BY <1>1, <1>13, StoresPtr
  <2>3. [mem EXCEPT ![base[1] + f.num] = p] \in [StackWords -> Nat]
    BY <1>7, InspectAssumption
  <2>4. \A x \in StackWords :
          base[1] - 1 <= x => [mem EXCEPT ![base[1] + f.num] = p][x] = mem[x]
    <3>1. PICK b \in Nat, i \in Int : b = base[1] /\ i = f.num
      BY <1>1, <1>3
    <3>2. PICK y \in Int, z \in Int : y = b + i /\ z = b - 1
      BY <3>1
    <3>3. y < z
      BY <2>2, <3>1, <3>2
    <3>4. \A x \in StackWords : z <= x => [mem EXCEPT ![y] = p][x] = mem[x]
      BY <1>7, <3>3, StoreBelow
    <3>. QED BY <3>1, <3>2, <3>4
  <2>5. [ptr |-> p, len |-> 0] \in Assignment
    BY DEF Assignment
  <2>6. rbp = (IF g.ready THEN base[1] - 2 ELSE o)
    BY <1>1, <1>11, <1>13 DEF UsesFrame
  <2>. QED BY <1>7, <1>8, <2>1, <2>2, <2>3, <2>4, <2>5, <2>6
<1>14. CASE f.does = "len"
  <2>1. /\ mem' = [mem EXCEPT ![base[1] + f.num + 1] = LenOf[s.ptr]]
        /\ assigned' = [assigned EXCEPT ![1].len = LenOf[s.ptr]]
        /\ rbp' = rbp
    BY <1>6, <1>14 DEF moves
  <2>2. /\ base[1] + f.num + 1 \in StackWords /\ base[1] + f.num + 1 < base[1] - 1
        /\ LenOf[s.ptr] \in Nat
        /\ FrameOK(d, body, [s EXCEPT !.len = LenOf[s.ptr]],
                   [mem EXCEPT ![base[1] + f.num + 1] = LenOf[s.ptr]], base[1], o)
    BY <1>1, <1>14, StoresLen
  <2>3. [mem EXCEPT ![base[1] + f.num + 1] = LenOf[s.ptr]] \in [StackWords -> Nat]
    BY <1>7, <2>2
  <2>4. \A x \in StackWords :
          base[1] - 1 <= x => [mem EXCEPT ![base[1] + f.num + 1] = LenOf[s.ptr]][x] = mem[x]
    <3>1. PICK b \in Nat, i \in Int : b = base[1] /\ i = f.num
      BY <1>1, <1>3
    <3>2. PICK y \in Int, z \in Int : y = b + i + 1 /\ z = b - 1
      BY <3>1
    <3>3. y < z
      BY <2>2, <3>1, <3>2
    <3>4. \A x \in StackWords : z <= x => [mem EXCEPT ![y] = LenOf[s.ptr]][x] = mem[x]
      BY <1>7, <3>3, StoreBelow
    <3>. QED BY <3>1, <3>2, <3>4
  <2>5. [s EXCEPT !.len = LenOf[s.ptr]] \in Assignment
    BY <1>1, <2>2 DEF Assignment
  <2>6. rbp = (IF g.ready THEN base[1] - 2 ELSE o)
    BY <1>1, <1>11, <1>14 DEF UsesFrame
  <2>7. assigned' = [assigned EXCEPT ![1] = [s EXCEPT !.len = LenOf[s.ptr]]]
    BY <2>1
  <2>. QED BY <1>7, <1>8, <2>1, <2>2, <2>3, <2>4, <2>5, <2>6, <2>7
<1>15. CASE f.does \notin {"saveBP", "ptr", "len"}
  <2>1. mem' = mem /\ assigned' = assigned
    BY <1>15 DEF moves
  <2>2. FrameOK(d, body, s, mem, base[1], o)
    BY <1>1, <1>15, PassesOn
  <2>3. rbp' \in Nat /\ rbp' = IF g.ready THEN base[1] - 2 ELSE o
    <3>1. CASE f.does = "setBP"
      <4>1. rbp' = base[1] - 2 /\ g.ready
        BY <1>6, <1>11, <3>1 DEF moves
      <4>. QED BY <1>10, <3>1, <4>1
    <3>2. CASE f.does = "restoreBP"
      <4>1. rbp' = mem[base[1] - 2] /\ ~g.ready
        BY <1>6, <1>11, <3>2 DEF moves
      <4>2. mem[base[1] - 2] = o
        BY <1>1, <3>2 DEF UsesFrame, FrameOK
      <4>. QED BY <1>7, <1>10, <3>2, <4>1, <4>2
    <3>3. CASE f.does \notin {"setBP", "restoreBP"}
      <4>1. rbp' = rbp
        BY <3>3 DEF moves
      <4>. QED BY <1>1, <1>7, <1>11, <3>3, <4>1
    <3>. QED BY <3>1, <3>2, <3>3
  <2>. QED BY <1>1, <1>7, <1>8, <1>9, <2>1, <2>2, <2>3
<1>. QED BY <1>12, <1>13, <1>14, <1>15

\* Sequences that grow and shrink at their head.
LEMMA ConsIs ==
  ASSUME NEW S, NEW s \in Seq(S), NEW x \in S
  PROVE  /\ <<x>> \o s \in Seq(S)
         /\ Len(<<x>> \o s) = Len(s) + 1
         /\ (<<x>> \o s)[1] = x
         /\ \A k \in 1..Len(s) : (<<x>> \o s)[k + 1] = s[k]
OBVIOUS

LEMMA TailIs ==
  ASSUME NEW S, NEW s \in Seq(S), s # <<>>
  PROVE  /\ Tail(s) \in Seq(S)
         /\ Len(Tail(s)) = Len(s) - 1
         /\ Head(s) = s[1]
         /\ Len(s) \in Nat \ {0}
         /\ \A k \in 1..(Len(s) - 1) : Tail(s)[k] = s[k + 1]
OBVIOUS

\* A call: what the caller knew waits behind its return address.
LEMMA CallerWaits ==
  ASSUME FramesAreGo, NEW body, Closed(body), NEW a \in Inst, Op[a] = "call",
         NEW s, NEW m, NEW b, NEW o, IsFrame(a, b, m), FrameOK(a, body, s, m, b, o),
         NEW v
  PROVE  /\ ReturnAddress(a) \in Inst
         /\ Frame[ReturnAddress(a)].cfa = Frame[a].cfa
         /\ Frame[ReturnAddress(a)].ready <=> Frame[a].ready
         /\ FrameOK(ReturnAddress(a), body, s,
                    [m EXCEPT ![b - Frame[a].cfa - 1] = v], b, o)
<1>1. PICK r \in Inst : r = ReturnAddress(a) /\ r \in GoesOn(a)
  BY CodeAssumption DEF ReturnAddress, GoesOn
<1>2. UsesFrame(a) /\ LeavesFrame(a, r) /\ UsesFrame(r)
  BY <1>1 DEF FramesAreGo
<1>3. Frame[a].does = "none"
  BY <1>2 DEF UsesFrame
<1>4. FrameOK(r, body, s, m, b, o)
  BY <1>1, <1>3, PassesOn
<1>5. Frame[r].cfa = Frame[a].cfa /\ Frame[r].does \notin {"setBP", "len"}
      /\ (Frame[r].ready <=> Frame[a].ready)
      /\ (Frame[r].ready => Frame[r].size > 0 /\ Frame[r].cfa = Frame[r].size + 1)
  BY <1>2, <1>3 DEF LeavesFrame, UsesFrame, Allocated
<1>6. PICK f \in Nat, w \in Int : f = Frame[a].cfa /\ w = b - f - 1
  BY FrameType DEF IsFrame
<1>7. ASSUME NEW z \in Int, b - f <= z, z < b
      PROVE  [m EXCEPT ![w] = v][z] = m[z]
  <2>1. z \in StackWords /\ z # w
    BY <1>6, <1>7 DEF IsFrame
  <2>. QED BY <2>1 DEF IsFrame
<1>8. Frame[r].ready => [m EXCEPT ![w] = v][b - 2] = m[b - 2]
  <2> SUFFICES ASSUME Frame[r].ready PROVE [m EXCEPT ![w] = v][b - 2] = m[b - 2]
    OBVIOUS
  <2>1. f >= 2
    BY <1>1, <1>5, <1>6, FrameType
  <2>2. b \in Nat
    BY DEF IsFrame
  <2>3. b - 2 \in Int /\ b - f <= b - 2 /\ b - 2 < b
    BY <2>1, <2>2
  <2>. QED BY <1>7, <2>3
<1>9. s.ptr # 0 =>
        /\ [m EXCEPT ![w] = v][b + Frame[r].num] = m[b + Frame[r].num]
        /\ [m EXCEPT ![w] = v][b + Frame[r].num + 1] = m[b + Frame[r].num + 1]
  <2> SUFFICES ASSUME s.ptr # 0
               PROVE  /\ [m EXCEPT ![w] = v][b + Frame[r].num] = m[b + Frame[r].num]
                      /\ [m EXCEPT ![w] = v][b + Frame[r].num + 1] = m[b + Frame[r].num + 1]
    OBVIOUS
  <2>1. -(Frame[r].size + 1) <= Frame[r].num /\ Frame[r].num <= -4
    BY <1>4 DEF FrameOK
  <2>2. f = Frame[r].size + 1
    <3>1. Frame[a].ready
      BY <1>2, <1>3 DEF FrameOK, UsesFrame
    <3>. QED BY <1>5, <1>6, <3>1
  <2>3. PICK n \in Int : n = Frame[r].num /\ -f <= n /\ n <= -4
    BY <1>1, <2>1, <2>2, FrameType
  <2>4. b \in Nat
    BY DEF IsFrame
  <2>5. /\ b + n \in Int /\ b - f <= b + n /\ b + n < b
        /\ b + n + 1 \in Int /\ b - f <= b + n + 1 /\ b + n + 1 < b
    BY <2>3, <2>4, Within
  <2>. QED BY <1>7, <2>3, <2>5
<1>10. FrameOK(r, body, s, [m EXCEPT ![w] = v], b, o)
  BY <1>4, <1>5, <1>8, <1>9 DEF FrameOK
<1>. QED BY <1>1, <1>3, <1>5, <1>6, <1>10

\* A call begins an activation.
LEMMA CallPushes ==
  ASSUME StackFits, FramesAreGo, NEW base, NEW found, NEW body, Closed(body), NEW floor, IsRoom(floor),
         Shape(base, found, body, floor),
         pc \in Inst, Op[pc] = "call", Len(stack) < MaxDepth, NEW d \in Dest[pc],
         Control' = d, stack' = <<ReturnAddress(pc)>> \o stack, pushes
  PROVE  StackInv(body, floor)'
<1>1. /\ Control = pc
      /\ base[1] \in Nat /\ base[1] = rsp + Frame[pc].cfa /\ rsp \in Nat
      /\ assigned[1] \in Assignment /\ Len(assigned) \in Nat /\ 1 \in 1..Len(assigned)
      /\ UsesFrame(pc) /\ IsFrame(pc, base[1], mem)
      /\ FrameOK(pc, body, assigned[1], mem, base[1], found[1])
      /\ rbp = IF Frame[pc].ready THEN base[1] - 2 ELSE found[1]
  BY AtInst
<1>2. PICK n \in Nat : n = Len(stack) /\ n + 1 \in 1..MaxDepth /\ n \in 0..MaxDepth
      /\ (stack = <<>> <=> n = 0)
  BY CodeAssumption DEF Shape, FrameTyped
<1>3. PICK r \in Inst : r = ReturnAddress(pc) /\ IsReturn(r)
  BY CodeAssumption DEF ReturnAddress, IsReturn
<1>4. /\ rsp' = rsp - 1 /\ mem' = [mem EXCEPT ![rsp - 1] = r]
      /\ assigned' = <<Unassigned>> \o assigned /\ rbp' = rbp
  BY <1>3 DEF pushes
<1>5. /\ Frame[r].cfa = Frame[pc].cfa
      /\ Frame[r].ready <=> Frame[pc].ready
      /\ assigned[1].ptr # 0 => Frame[r].ready
      /\ FrameOK(r, body, assigned[1], mem', base[1], found[1])
  <2>1. base[1] - Frame[pc].cfa - 1 = rsp - 1
    <3>1. PICK c \in Nat : c = Frame[pc].cfa
      BY FrameType
    <3>2. PICK b \in Nat, w \in Nat : b = base[1] /\ w = rsp /\ b = w + c
      BY <1>1, <3>1
    <3>3. b - c - 1 = w - 1
      BY <3>2
    <3>. QED BY <3>1, <3>2, <3>3
  <2>2. /\ Frame[ReturnAddress(pc)].cfa = Frame[pc].cfa
        /\ Frame[ReturnAddress(pc)].ready <=> Frame[pc].ready
        /\ assigned[1].ptr # 0 => Frame[pc].ready
        /\ FrameOK(ReturnAddress(pc), body, assigned[1],
                   [mem EXCEPT ![base[1] - Frame[pc].cfa - 1] = r], base[1],
                   found[1])
    <3>1. PICK s, m, b, o : s = assigned[1] /\ m = mem /\ b = base[1] /\ o = found[1]
      OBVIOUS
    <3>2. IsFrame(pc, b, m) /\ FrameOK(pc, body, s, m, b, o)
      BY <1>1, <3>1
    <3>3. FrameOK(ReturnAddress(pc), body, s, [m EXCEPT ![b - Frame[pc].cfa - 1] = r], b, o)
      BY <3>2, CallerWaits
    <3>4. Frame[ReturnAddress(pc)].cfa = Frame[pc].cfa
      BY <3>2, CallerWaits
    <3>5. Frame[ReturnAddress(pc)].ready <=> Frame[pc].ready
      BY <3>2, CallerWaits
    <3>6. s.ptr # 0 => Frame[pc].ready
      BY <1>1, <3>2 DEF FrameOK, UsesFrame
    <3>. QED BY <3>1, <3>3, <3>4, <3>5, <3>6
  <2>3. mem' = [mem EXCEPT ![base[1] - Frame[pc].cfa - 1] = r]
    BY <1>4, <2>1
  <2>. QED BY <1>3, <2>2, <2>3
<1>6. d \in Inst /\ Frame[d].cfa = 1 /\ ~Frame[d].ready /\ Frame[d].does \notin {"setBP", "len"}
  <2>1. d \in Inst /\ Frame[d].cfa = 1
    BY <1>1, CodeAssumption DEF UsesFrame
  <2>2. UsesFrame(d) /\ Frame[d].size \in Nat
    BY <2>1, FrameType DEF FramesAreGo
  <2>3. ~Allocated(d)
    BY <2>1, <2>2 DEF Allocated
  <2>. QED BY <2>1, <2>2, <2>3 DEF UsesFrame
<1>7. /\ stack' \in Seq(Inst) /\ Len(stack') = n + 1
      /\ stack'[1] = r /\ \A k \in 1..n : stack'[k + 1] = stack[k]
  BY <1>2, <1>3, ConsIs DEF Shape, FrameTyped
<1>8. /\ assigned' \in Seq(Assignment) /\ Len(assigned') = n + 2
      /\ assigned'[1] = Unassigned
      /\ \A k \in 1..(n + 1) : assigned'[k + 1] = assigned[k]
  <2>1. Unassigned \in Assignment
    BY DEF Unassigned, Assignment
  <2>2. assigned \in Seq(Assignment) /\ Len(assigned) = n + 1
    BY <1>2 DEF Shape, FrameTyped
  <2> HIDE DEF Assignment
  <2>3. /\ <<Unassigned>> \o assigned \in Seq(Assignment)
        /\ Len(<<Unassigned>> \o assigned) = Len(assigned) + 1
        /\ (<<Unassigned>> \o assigned)[1] = Unassigned
        /\ \A k \in 1..Len(assigned) : (<<Unassigned>> \o assigned)[k + 1] = assigned[k]
    BY <2>1, <2>2, ConsIs
  <2>. QED BY <1>4, <2>2, <2>3
<1>9. /\ \A k \in 1..(n + 1) : base[k] \in Nat /\ base[1] <= base[k] /\ base[k] <= Top
      /\ rsp <= base[1] /\ Top \in Nat /\ floor[n] <= rsp /\ floor[n] \in Nat
      /\ base[n + 1] = Top
      /\ \A i, j \in 1..(n + 1) : i <= j => base[i] <= base[j]
      /\ \A k \in 1..(n + 1) : found[k] \in Nat
      /\ found[n + 1] = 0
  BY <1>2, ShapeBounds DEF Activations, Shape, Outer
<1>10. rsp - 1 \in StackWords
  <2>1. floor[n + 1] + 1 <= floor[n] /\ floor[n + 1] \in StackWords /\ floor[n + 1] \in Nat
    <3>1. floor[n + 1] + Frame[d].cfa <= floor[n + 1 - 1] /\ n + 1 - 1 = n
      BY <1>2, <1>6 DEF IsRoom
    <3>2. floor[n + 1] \in StackWords
      BY <1>2, CodeAssumption DEF IsRoom
    <3>. QED BY <1>6, <3>1, <3>2, StackIsInterval
  <2>2. 1 \in 1..(n + 1) /\ base[1] <= Top
    BY <1>2, <1>9
  <2>3. rsp - 1 \in Int /\ floor[n + 1] <= rsp - 1 /\ rsp - 1 <= Top
    <3>1. PICK w \in Nat, f \in Nat, g \in Nat, b \in Nat, t \in Nat :
            w = rsp /\ f = floor[n] /\ g = floor[n + 1] /\ b = base[1] /\ t = Top
      BY <1>1, <1>9, <2>1
    <3>2. g + 1 <= f /\ f <= w /\ w <= b /\ b <= t
      BY <1>9, <2>1, <2>2, <3>1
    <3>3. w - 1 \in Int /\ g <= w - 1 /\ w - 1 <= t
      BY <3>2
    <3>. QED BY <3>1, <3>3
  <2>. QED BY <1>9, <2>1, <2>3, StackIsInterval
<1>11. /\ mem' \in [StackWords -> Nat] /\ mem'[rsp - 1] = r
       /\ \A x \in StackWords : rsp <= x => mem'[x] = mem[x]
  <2>1. mem \in [StackWords -> Nat] /\ r \in Nat
    BY InstNat DEF Shape, FrameTyped
  <2>2. \A x \in StackWords : rsp <= x => x # rsp - 1
    <3>1. PICK w \in Nat : w = rsp
      BY <1>1
    <3>2. \A x \in Nat : w <= x => x # w - 1
      OBVIOUS
    <3>. QED BY <3>1, <3>2, StackIsInterval
  <2>. QED BY <1>4, <1>10, <2>1, <2>2
<1>12. /\ \A k \in 1..n : mem'[base[k] - 1] = stack[k]
       /\ \A k \in 2..(n + 1) :
            /\ FrameOK(stack[k - 1], body, assigned[k], mem', base[k], found[k])
            /\ assigned[k].ptr # 0 => Frame[stack[k - 1]].ready
  <2>1. PICK m : m = mem'
    OBVIOUS
  <2>2. KeepsOuter(m, base)
    BY <1>11, <2>1 DEF KeepsOuter
  <2>3. /\ \A k \in 1..Len(stack) : m[base[k] - 1] = stack[k]
        /\ \A k \in 2..(Len(stack) + 1) :
             FrameOK(stack[k - 1], body, assigned[k], m, base[k], found[k])
    BY <2>2, OuterFrames
  <2>4. \A k \in 2..(Len(stack) + 1) : assigned[k].ptr # 0 => Frame[stack[k - 1]].ready
    BY DEF Shape, Outer
  <2>. QED BY <1>2, <2>1, <2>3, <2>4
<1>13. PICK w \in Nat, v \in Nat : w = rsp /\ v = rbp
  BY <1>1 DEF Shape, FrameTyped
<1>14. PICK base2, found2 :
         /\ base2 = [k \in 1..(n + 2) |-> IF k = 1 THEN w ELSE base[k - 1]]
         /\ found2 = [k \in 1..(n + 2) |-> IF k = 1 THEN v ELSE found[k - 1]]
  OBVIOUS
<1>15. /\ base2 \in [1..(n + 2) -> Nat] /\ base2[1] = rsp
       /\ found2 \in [1..(n + 2) -> Nat] /\ found2[1] = rbp
       /\ \A k \in 1..(n + 1) : base2[k + 1] = base[k] /\ found2[k + 1] = found[k]
  <2>1. \A k \in 1..(n + 1) : k + 1 \in 1..(n + 2) /\ k + 1 # 1 /\ (k + 1) - 1 = k
    BY <1>2
  <2>2. \A k \in 1..(n + 2) : k = 1 \/ k - 1 \in 1..(n + 1)
    BY <1>2
  <2>3. 1 \in 1..(n + 2)
    BY <1>2
  <2>4. \A k \in 1..(n + 2) : (IF k = 1 THEN w ELSE base[k - 1]) \in Nat
    BY <1>9, <2>2
  <2>5. \A k \in 1..(n + 2) : (IF k = 1 THEN v ELSE found[k - 1]) \in Nat
    BY <1>9, <2>2
  <2>6. base2 \in [1..(n + 2) -> Nat] /\ found2 \in [1..(n + 2) -> Nat]
    BY <1>14, <2>4, <2>5
  <2>7. base2[1] = rsp /\ found2[1] = rbp
    BY <1>13, <1>14, <2>3
  <2>8. \A k \in 1..(n + 1) : base2[k + 1] = base[k] /\ found2[k + 1] = found[k]
    BY <1>14, <2>1
  <2>. QED BY <2>6, <2>7, <2>8
<1>17. Activations' = 1..(n + 2)
  <2>1. Len(stack') + 1 = n + 2
    BY <1>2, <1>7
  <2>. QED BY <2>1 DEF Activations
<1>18. Outer(base2, found2, body, floor)'
  <2>1. base2[Len(stack') + 1] = Top /\ found2[Len(stack') + 1] = 0
    <3>1. n + 1 \in 1..(n + 1) /\ Len(stack') + 1 = (n + 1) + 1
      BY <1>2, <1>7
    <3>. QED BY <1>9, <1>15, <3>1
  <2>2. ASSUME NEW i \in 1..(n + 2), NEW j \in 1..(n + 2), i <= j
        PROVE  base2[i] <= base2[j]
    <3>1. CASE i = 1 /\ j = 1
      BY <1>1, <1>15, <3>1
    <3>2. CASE i = 1 /\ j # 1
      <4>1. PICK k \in 1..(n + 1) : j = k + 1
        <5>1. j - 1 \in 1..(n + 1) /\ j = (j - 1) + 1
          BY <1>2, <3>2
        <5>. QED BY <5>1
      <4>2. base2[j] = base[k] /\ base2[i] = rsp
        BY <1>15, <3>2, <4>1
      <4>3. rsp <= base[1] /\ base[1] <= base[k] /\ base[k] \in Nat
        BY <1>9
      <4>. QED BY <1>1, <4>2, <4>3
    <3>3. CASE i # 1
      <4>1. PICK h \in 1..(n + 1), k \in 1..(n + 1) : i = h + 1 /\ j = k + 1 /\ h <= k
        <5>1. /\ i - 1 \in 1..(n + 1) /\ i = (i - 1) + 1
              /\ j - 1 \in 1..(n + 1) /\ j = (j - 1) + 1 /\ i - 1 <= j - 1
          BY <1>2, <2>2, <3>3
        <5>. QED BY <5>1
      <4>. QED BY <1>9, <1>15, <4>1
    <3>. QED BY <3>1, <3>2, <3>3
  <2>3. ASSUME NEW k \in 1..(n + 1)
        PROVE  /\ IsReturn(stack'[k])
               /\ base2[k + 1] = base2[k] + Frame[stack'[k]].cfa
               /\ found2[k] = IF Frame[stack'[k]].ready
                              THEN base2[k + 1] - 2 ELSE found2[k + 1]
               /\ mem'[base2[k] - 1] = stack'[k]
               /\ floor[(n + 1) - k] <= base2[k]
               /\ Frame[stack'[k]].cfa = 0 <=> k = n + 1
    <3>1. CASE k = 1
      <4>1. /\ stack'[k] = r /\ base2[k] = rsp /\ base2[k + 1] = base[1]
            /\ found2[k] = rbp /\ found2[k + 1] = found[1]
        BY <1>2, <1>7, <1>15, <3>1
      <4>2. (n + 1) - k = n /\ (k = n + 1 <=> n = 0)
        BY <1>2, <3>1
      <4>3. Frame[r].cfa = 0 <=> n = 0
        BY <1>1, <1>2, <1>5 DEF Shape, Inner
      <4>4. rbp = IF Frame[r].ready THEN base[1] - 2 ELSE found[1]
        BY <1>1, <1>5
      <4>. QED BY <1>1, <1>3, <1>5, <1>9, <1>11, <4>1, <4>2, <4>3, <4>4
    <3>2. CASE k # 1
      <4>1. PICK j \in 1..n : k = j + 1
        <5>1. k - 1 \in 1..n /\ k = (k - 1) + 1
          BY <1>2, <3>2
        <5>. QED BY <5>1
      <4>2. /\ stack'[k] = stack[j] /\ base2[k] = base[j] /\ base2[k + 1] = base[j + 1]
            /\ found2[k] = found[j] /\ found2[k + 1] = found[j + 1]
        <5>1. j \in 1..(n + 1) /\ j + 1 \in 1..(n + 1)
          BY <1>2
        <5>. QED BY <1>7, <1>15, <4>1, <5>1
      <4>3. (n + 1) - k = n - j /\ (k = n + 1 <=> j = n)
        BY <1>2, <4>1
      <4>4. /\ IsReturn(stack[j])
            /\ base[j + 1] = base[j] + Frame[stack[j]].cfa
            /\ found[j] = IF Frame[stack[j]].ready THEN base[j + 1] - 2 ELSE found[j + 1]
            /\ floor[n - j] <= base[j]
            /\ Frame[stack[j]].cfa = 0 <=> j = n
        BY <1>2 DEF Shape, Outer
      <4>. QED BY <1>12, <4>2, <4>3, <4>4
    <3>. QED BY <3>1, <3>2
  <2>4. ASSUME NEW k \in 2..(n + 2)
        PROVE  /\ FrameOK(stack'[k - 1], body, assigned'[k], mem', base2[k], found2[k])
               /\ assigned'[k].ptr # 0 => Frame[stack'[k - 1]].ready
    <3>1. CASE k = 2
      <4>1. k = 1 + 1 /\ k - 1 = 1 /\ 1 \in 1..(n + 1)
        BY <1>2, <3>1
      <4>2. /\ stack'[k - 1] = r /\ assigned'[k] = assigned[1] /\ base2[k] = base[1]
            /\ found2[k] = found[1]
        BY <1>7, <1>8, <1>15, <4>1
      <4>. QED BY <1>5, <4>2
    <3>2. CASE k # 2
      <4>1. PICK j \in 2..(n + 1) : k = j + 1 /\ k - 1 = (j - 1) + 1 /\ j - 1 \in 1..n
                                    /\ j \in 1..(n + 1)
        <5>1. k - 1 \in 2..(n + 1) /\ k = (k - 1) + 1 /\ k - 1 = ((k - 1) - 1) + 1
              /\ (k - 1) - 1 \in 1..n /\ k - 1 \in 1..(n + 1)
          BY <1>2, <3>2
        <5>. QED BY <5>1
      <4>2. /\ stack'[k - 1] = stack[j - 1] /\ assigned'[k] = assigned[j]
            /\ base2[k] = base[j] /\ found2[k] = found[j]
        BY <1>7, <1>8, <1>15, <4>1
      <4>. QED BY <1>12, <4>2
    <3>. QED BY <3>1, <3>2
  <2>5. Len(stack') = n + 1 /\ Len(stack') + 1 = n + 2
    BY <1>2, <1>7
  <2>6. /\ base2 \in [Activations' -> Nat] /\ base2[Len(stack') + 1] = Top
        /\ found2 \in [Activations' -> Nat] /\ found2[Len(stack') + 1] = 0
        /\ \A i, j \in Activations' : i <= j => base2[i] <= base2[j]
    BY <1>15, <1>17, <2>1, <2>2
  <2>7. \A k \in 1..Len(stack') :
          /\ IsReturn(stack'[k])
          /\ base2[k + 1] = base2[k] + Frame[stack'[k]].cfa
          /\ found2[k] = IF Frame[stack'[k]].ready THEN base2[k + 1] - 2 ELSE found2[k + 1]
          /\ mem'[base2[k] - 1] = stack'[k]
          /\ floor[Len(stack') - k] <= base2[k]
          /\ Frame[stack'[k]].cfa = 0 <=> k = Len(stack')
    BY <2>3, <2>5
  <2>8. \A k \in 2..(Len(stack') + 1) :
          /\ FrameOK(stack'[k - 1], body, assigned'[k], mem', base2[k], found2[k])
          /\ assigned'[k].ptr # 0 => Frame[stack'[k - 1]].ready
    BY <2>4, <2>5
  <2>. QED BY <2>6, <2>7, <2>8 DEF Outer
<1>19. Inner(base2, found2, body)'
  <2>1. base2[1] = rsp' + Frame[d].cfa
    BY <1>1, <1>4, <1>6, <1>15
  <2>2. Frame[d].cfa = 0 <=> stack' = <<>>
    BY <1>2, <1>6, <1>7
  <2>3. rbp' = found2[1]
    BY <1>4, <1>15
  <2>4. FrameOK(d, body, assigned'[1], mem', base2[1], found2[1])
    <3>1. assigned'[1].ptr = 0 /\ assigned'[1].len = 0
      BY <1>8 DEF Unassigned
    <3>. QED BY <1>6, <3>1 DEF FrameOK
  <2>. QED BY <1>6, <2>1, <2>2, <2>3, <2>4 DEF Inner
<1>20. FrameTyped'
  <2>1. rsp' \in Nat /\ rbp' \in Nat
    BY <1>4, <1>10, StackIsInterval DEF Shape, FrameTyped
  <2>2. Len(assigned') = Len(stack') + 1 /\ Len(stack') <= MaxDepth
    BY <1>2, <1>7, <1>8
  <2>. QED BY <1>6, <1>7, <1>8, <1>11, <2>1, <2>2 DEF FrameTyped
<1>. QED BY <1>18, <1>19, <1>20 DEF Shape, StackInv

\* A return ends the innermost activation; the one that waited goes on.
LEMMA ReturnPops ==
  ASSUME StackFits, FramesAreGo, NEW base, NEW found, NEW body, NEW floor, IsRoom(floor),
         Shape(base, found, body, floor),
         pc \in Inst, Op[pc] = "ret", stack # <<>>,
         Control' = Head(stack), stack' = Tail(stack), pops
  PROVE  StackInv(body, floor)'
<1>1. /\ base[1] \in Nat /\ base[1] = rsp + Frame[pc].cfa /\ rsp \in Nat
      /\ UsesFrame(pc) /\ rbp = IF Frame[pc].ready THEN base[1] - 2 ELSE found[1]
  BY AtInst
<1>2. PICK n \in Nat \ {0} : n = Len(stack) /\ n <= MaxDepth
  BY TailIs DEF Shape, FrameTyped
<1>3. /\ stack' \in Seq(Inst) /\ Len(stack') = n - 1
      /\ \A k \in 1..(n - 1) : stack'[k] = stack[k + 1]
      /\ Control' = stack[1]
  BY <1>2, TailIs DEF Shape, FrameTyped
<1>4. /\ assigned' \in Seq(Assignment) /\ Len(assigned') = n
      /\ \A k \in 1..n : assigned'[k] = assigned[k + 1]
  <2>1. assigned \in Seq(Assignment) /\ Len(assigned) = n + 1 /\ assigned' = Tail(assigned)
    BY <1>2 DEF Shape, FrameTyped, pops
  <2>2. Assignment # {} /\ assigned # <<>>
    <3> HIDE DEF Assignment
    <3>1. Len(assigned) # 0
      BY <1>2, <2>1
    <3>2. assigned # <<>>
      BY <2>1, <3>1
    <3>3. assigned[1] \in Assignment
      BY <1>2, <2>1
    <3>. QED BY <3>2, <3>3
  <2> HIDE DEF Assignment
  <2>3. /\ Tail(assigned) \in Seq(Assignment)
        /\ Len(Tail(assigned)) = Len(assigned) - 1
        /\ \A k \in 1..(Len(assigned) - 1) : Tail(assigned)[k] = assigned[k + 1]
    BY <2>1, <2>2, TailIs
  <2>4. Len(assigned) - 1 = n
    BY <1>2, <2>1
  <2>. QED BY <2>1, <2>3, <2>4
<1>5. rsp' = rsp + 1 /\ rbp' = rbp /\ mem' = mem
  BY DEF pops
<1>6. PICK r \in Inst : r = stack[1] /\ IsReturn(r)
  <2>1. 1 \in 1..Len(stack)
    BY <1>2
  <2>. QED BY <2>1, ShapeBounds DEF Shape, Outer
<1>7. /\ base \in [1..(n + 1) -> Nat] /\ base[n + 1] = Top
      /\ found \in [1..(n + 1) -> Nat] /\ found[n + 1] = 0
      /\ \A i, j \in 1..(n + 1) : i <= j => base[i] <= base[j]
      /\ \A k \in 1..n :
           /\ IsReturn(stack[k])
           /\ base[k + 1] = base[k] + Frame[stack[k]].cfa
           /\ found[k] = IF Frame[stack[k]].ready THEN base[k + 1] - 2 ELSE found[k + 1]
           /\ mem[base[k] - 1] = stack[k]
           /\ floor[n - k] <= base[k]
           /\ Frame[stack[k]].cfa = 0 <=> k = n
      /\ \A k \in 2..(n + 1) :
           /\ FrameOK(stack[k - 1], body, assigned[k], mem, base[k], found[k])
           /\ assigned[k].ptr # 0 => Frame[stack[k - 1]].ready
  BY <1>2 DEF Shape, Outer, Activations
<1>8. PICK base2, found2 : /\ base2 = [k \in 1..n |-> base[k + 1]]
                           /\ found2 = [k \in 1..n |-> found[k + 1]]
  OBVIOUS
<1>9. /\ base2 \in [1..n -> Nat] /\ found2 \in [1..n -> Nat]
      /\ \A k \in 1..n : base2[k] = base[k + 1] /\ found2[k] = found[k + 1]
  <2>1. \A k \in 1..n : k + 1 \in 1..(n + 1)
    OBVIOUS
  <2>2. base \in [1..(n + 1) -> Nat] /\ found \in [1..(n + 1) -> Nat]
    BY <1>7
  <2>3. \A k \in 1..n : base[k + 1] \in Nat /\ found[k + 1] \in Nat
    BY <2>1, <2>2
  <2>. QED BY <1>8, <2>3
<1>11. Activations' = 1..n /\ Len(stack') + 1 = n
  <2>1. Len(stack') + 1 = n
    BY <1>3
  <2>. QED BY <2>1 DEF Activations
<1>12. Outer(base2, found2, body, floor)'
  <2>1. base2[n] = Top /\ found2[n] = 0
    BY <1>7, <1>9
  <2>2. \A i, j \in 1..n : i <= j => base2[i] <= base2[j]
    <3> SUFFICES ASSUME NEW i \in 1..n, NEW j \in 1..n, i <= j
                 PROVE  base2[i] <= base2[j]
      OBVIOUS
    <3>1. i + 1 \in 1..(n + 1) /\ j + 1 \in 1..(n + 1) /\ i + 1 <= j + 1
      OBVIOUS
    <3>2. base[i + 1] <= base[j + 1]
      BY <1>7, <3>1
    <3>. QED BY <1>9, <3>2
  <2>3. ASSUME NEW k \in 1..(n - 1)
        PROVE  /\ IsReturn(stack'[k])
               /\ base2[k + 1] = base2[k] + Frame[stack'[k]].cfa
               /\ found2[k] = IF Frame[stack'[k]].ready
                              THEN base2[k + 1] - 2 ELSE found2[k + 1]
               /\ mem'[base2[k] - 1] = stack'[k]
               /\ floor[(n - 1) - k] <= base2[k]
               /\ Frame[stack'[k]].cfa = 0 <=> k = n - 1
    <3>1. PICK j \in 2..n : j = k + 1 /\ j \in 1..n
      OBVIOUS
    <3>2. /\ stack'[k] = stack[j] /\ base2[k] = base[j] /\ base2[k + 1] = base[j + 1]
          /\ found2[k] = found[j] /\ found2[k + 1] = found[j + 1]
      <4>1. k + 1 \in 1..n /\ k \in 1..n /\ (k + 1) + 1 = j + 1 /\ k + 1 = j
        BY <3>1
      <4>2. /\ base2[k] = base[k + 1] /\ base2[k + 1] = base[(k + 1) + 1]
            /\ found2[k] = found[k + 1] /\ found2[k + 1] = found[(k + 1) + 1]
        BY <1>9, <4>1
      <4>3. stack'[k] = stack[k + 1]
        BY <1>3
      <4>. QED BY <4>1, <4>2, <4>3
    <3>3. (n - 1) - k = n - j /\ (k = n - 1 <=> j = n)
      BY <3>1
    <3>4. /\ IsReturn(stack[j])
          /\ base[j + 1] = base[j] + Frame[stack[j]].cfa
          /\ mem[base[j] - 1] = stack[j]
          /\ floor[n - j] <= base[j]
          /\ Frame[stack[j]].cfa = 0 <=> j = n
      BY <1>7, <3>1
    <3>6. found[j] = IF Frame[stack[j]].ready THEN base[j + 1] - 2 ELSE found[j + 1]
      <4>1. \A i \in 1..n :
              found[i] = IF Frame[stack[i]].ready THEN base[i + 1] - 2 ELSE found[i + 1]
        BY <1>7
      <4>. QED BY <3>1, <4>1
    <3>5. found2[k] = IF Frame[stack'[k]].ready THEN base2[k + 1] - 2 ELSE found2[k + 1]
      BY <3>2, <3>6
    <3>. QED BY <1>5, <3>2, <3>3, <3>4, <3>5
  <2>4. ASSUME NEW k \in 2..n
        PROVE  /\ FrameOK(stack'[k - 1], body, assigned'[k], mem', base2[k], found2[k])
               /\ assigned'[k].ptr # 0 => Frame[stack'[k - 1]].ready
    <3>1. PICK j \in 2..(n + 1) : j = k + 1 /\ j - 1 = (k - 1) + 1 /\ k - 1 \in 1..(n - 1)
                                  /\ k \in 1..n
      OBVIOUS
    <3>2. /\ stack'[k - 1] = stack[j - 1] /\ assigned'[k] = assigned[j]
          /\ base2[k] = base[j] /\ found2[k] = found[j]
      BY <1>3, <1>4, <1>9, <3>1
    <3>3. /\ FrameOK(stack[j - 1], body, assigned[j], mem, base[j], found[j])
          /\ assigned[j].ptr # 0 => Frame[stack[j - 1]].ready
      BY <1>7
    <3>. QED BY <1>5, <3>2, <3>3
  <2>5. PICK p \in Nat : p = n - 1 /\ Len(stack') = p
    BY <1>3
  <2>6. /\ base2 \in [Activations' -> Nat] /\ base2[Len(stack') + 1] = Top
        /\ found2 \in [Activations' -> Nat] /\ found2[Len(stack') + 1] = 0
        /\ \A i, j \in Activations' : i <= j => base2[i] <= base2[j]
    BY <1>9, <1>11, <2>1, <2>2
  <2>7. \A k \in 1..Len(stack') :
          /\ IsReturn(stack'[k])
          /\ base2[k + 1] = base2[k] + Frame[stack'[k]].cfa
          /\ found2[k] = IF Frame[stack'[k]].ready THEN base2[k + 1] - 2 ELSE found2[k + 1]
          /\ mem'[base2[k] - 1] = stack'[k]
          /\ floor[Len(stack') - k] <= base2[k]
          /\ Frame[stack'[k]].cfa = 0 <=> k = Len(stack')
    BY <2>3, <2>5
  <2>8. \A k \in 2..(Len(stack') + 1) :
          /\ FrameOK(stack'[k - 1], body, assigned'[k], mem', base2[k], found2[k])
          /\ assigned'[k].ptr # 0 => Frame[stack'[k - 1]].ready
    BY <1>11, <2>4
  <2>. QED BY <2>6, <2>7, <2>8 DEF Outer
<1>13. /\ Frame[pc].cfa = 1 /\ ~Frame[pc].ready /\ rsp' = base[1]
  <2>1. Frame[pc].cfa = 1 /\ Frame[pc].size \in Nat
    BY <1>1, FrameType DEF UsesFrame
  <2>2. ~Frame[pc].ready
    BY <1>1, <2>1 DEF UsesFrame, Allocated
  <2>. QED BY <1>1, <1>5, <2>1, <2>2
<1>14. /\ base2[1] = rsp' + Frame[r].cfa
       /\ Frame[r].cfa = 0 <=> n = 1
       /\ FrameOK(r, body, assigned'[1], mem', base2[1], found2[1])
  <2>1. 1 \in 1..n /\ 2 \in 2..(n + 1) /\ 1 + 1 = 2 /\ 2 - 1 = 1
    OBVIOUS
  <2>2. /\ base2[1] = base[2] /\ assigned'[1] = assigned[2]
        /\ found2[1] = found[2]
    BY <1>4, <1>9, <2>1
  <2>3. base[2] = base[1] + Frame[r].cfa /\ (Frame[r].cfa = 0 <=> n = 1)
    BY <1>6, <1>7, <2>1
  <2>4. FrameOK(r, body, assigned[2], mem, base[2], found[2])
    BY <1>6, <1>7, <2>1
  <2>. QED BY <1>5, <1>13, <2>2, <2>3, <2>4
<1>15. rbp' = IF Frame[r].ready THEN base2[1] - 2 ELSE found2[1]
  <2>1. 1 \in 1..n /\ 1 + 1 = 2
    OBVIOUS
  <2>2. found[1] = IF Frame[r].ready THEN base[2] - 2 ELSE found[2]
    BY <1>6, <1>7, <2>1
  <2>3. base2[1] = base[2] /\ found2[1] = found[2]
    BY <1>9, <2>1
  <2>. QED BY <1>1, <1>5, <1>13, <2>2, <2>3
<1>16. Control' = r /\ (n = 1 <=> stack' = <<>>)
  <2>1. Len(stack') = 0 <=> stack' = <<>>
    <3>1. PICK t \in Seq(Inst) : t = stack'
      BY <1>3
    <3>2. Len(t) = 0 <=> t = <<>>
      OBVIOUS
    <3>. QED BY <3>1, <3>2
  <2>. QED BY <1>3, <1>6, <2>1
<1>17. Inner(base2, found2, body)'
  BY <1>14, <1>15, <1>16 DEF Inner
<1>18. FrameTyped'
  <2>1. rsp' \in Nat /\ rbp' \in Nat /\ mem' \in [StackWords -> Nat]
    BY <1>1, <1>5 DEF Shape, FrameTyped
  <2>2. Len(assigned') = Len(stack') + 1 /\ Len(stack') <= MaxDepth
    BY <1>2, <1>3, <1>4, CodeAssumption
  <2>. QED BY <1>3, <1>4, <1>16, <2>1, <2>2 DEF FrameTyped
<1>. QED BY <1>12, <1>17, <1>18 DEF Shape, StackInv

\* A new process: only the root is active and nothing is assigned.
LEMMA ShapeInit ==
  ASSUME StackFits, FramesAreGo, NEW body, NEW floor, IsRoom(floor), InspectInit
  PROVE  StackInv(body, floor)
<1>1. /\ pc = Entry /\ stack = <<>> /\ rsp = Top /\ rbp = 0
      /\ mem = [w \in StackWords |-> 0] /\ assigned = <<Unassigned>>
      /\ Entry \in Inst /\ Control = Entry
  BY CodeAssumption DEF InspectInit, Init, TraceeInit, Top, Control
<1>2. PICK t \in Nat : t = Top
  BY StackIsInterval
<1>3. PICK base, found : base = [k \in 1..1 |-> t] /\ found = [k \in 1..1 |-> 0]
  OBVIOUS
<1>4. Len(stack) = 0 /\ Activations = 1..1
  BY <1>1 DEF Activations
<1>5. /\ Frame[Entry].cfa = 0 /\ ~Frame[Entry].ready /\ Frame[Entry].does \notin {"setBP", "len"}
  <2>1. Frame[Entry].cfa = 0 /\ UsesFrame(Entry) /\ Frame[Entry].size \in Nat
    BY <1>1, FrameType DEF FramesAreGo
  <2>. QED BY <2>1 DEF UsesFrame, Allocated
<1>6. FrameTyped
  <2>1. Unassigned \in Assignment
    BY DEF Unassigned, Assignment
  <2>2. assigned \in Seq(Assignment) /\ Len(assigned) = 1
    <3> HIDE DEF Assignment
    <3>. QED BY <1>1, <2>1
  <2>3. mem \in [StackWords -> Nat] /\ rsp \in Nat
    BY <1>1, <1>2
  <2>. QED BY <1>1, <1>4, <2>2, <2>3, CodeAssumption DEF FrameTyped
<1>7. Outer(base, found, body, floor)
  BY <1>2, <1>3, <1>4 DEF Outer
<1>8. Inner(base, found, body)
  <2>1. assigned[1].ptr = 0 /\ assigned[1].len = 0
    BY <1>1 DEF Unassigned
  <2>2. FrameOK(Entry, body, assigned[1], mem, base[1], found[1])
    BY <1>5, <2>1 DEF FrameOK
  <2>. QED BY <1>1, <1>2, <1>3, <1>4, <1>5, <2>2 DEF Inner
<1>. QED BY <1>6, <1>7, <1>8 DEF Shape, StackInv

\* What leaves control and the frames alone.
LEMMA ShapeKept ==
  ASSUME NEW body, NEW floor, StackInv(body, floor),
         Control' = Control, UNCHANGED <<stack, rsp, rbp, mem, assigned>>
  PROVE  StackInv(body, floor)'
<1>1. PICK base, found : Shape(base, found, body, floor)
  BY DEF StackInv
<1>2. Activations' = Activations
  BY DEF Activations
<1>3. FrameTyped' /\ Inner(base, found, body)'
  BY <1>1, <1>2 DEF Shape, FrameTyped, Inner
<1>4. Outer(base, found, body, floor)'
  BY <1>1, <1>2 DEF Shape, Outer
<1>. QED BY <1>3, <1>4 DEF Shape, StackInv

\* The program executes an instruction.
LEMMA ShapeExecutes ==
  ASSUME StackFits, FramesAreGo, NEW body, Closed(body), NEW floor, IsRoom(floor),
         StackInv(body, floor), inspectExecute
  PROVE  StackInv(body, floor)'
<1>1. PICK base, found : Shape(base, found, body, floor)
  BY DEF StackInv
<1>2. /\ pc \in Inst /\ stack \in Seq(Inst) /\ Control = pc /\ frameStep
      /\ Op[pc] \in {"op", "call", "ret", "exit"} /\ UsesFrame(pc)
  BY <1>1, CodeAssumption
  DEF inspectExecute, execute, ExecuteInst, Shape, FrameTyped, Control, FramesAreGo
<1>3. PICK o \in Outcomes(pc, stack) : pc' = o.ip /\ stack' = o.stack
  BY DEF inspectExecute, execute, ExecuteInst
<1>4. Control' = pc'
  BY <1>2, <1>3, OutcomesType DEF Control
<1>5. CASE Op[pc] = "op"
  <2>1. PICK d \in Dest[pc] : o = Outcome(d, stack, "alive")
    BY <1>5 DEF Outcomes
  <2>2. Control' = d /\ stack' = stack
    BY <1>3, <1>4, <2>1 DEF Outcome
  <2>3. d \in GoesOn(pc)
    BY <1>2, <1>5, CodeAssumption DEF GoesOn
  <2>4. moves
    BY <1>2, <1>5 DEF frameStep, pushes, pops
  <2>. QED BY <1>1, <1>2, <2>2, <2>3, <2>4, OpMoves DEF StackInv
<1>6. CASE Op[pc] = "call" /\ Len(stack) < MaxDepth
  <2>1. PICK d \in Dest[pc] : o = Outcome(d, <<ReturnAddress(pc)>> \o stack, "alive")
    BY <1>6 DEF Outcomes
  <2>2. Control' = d /\ stack' = <<ReturnAddress(pc)>> \o stack
    BY <1>3, <1>4, <2>1 DEF Outcome
  <2>3. stack' # stack
    <3>1. PICK r \in Inst : r = ReturnAddress(pc)
      BY <1>2, <1>6, CodeAssumption DEF ReturnAddress
    <3>2. Len(<<r>> \o stack) = Len(stack) + 1 /\ Len(stack) \in Nat
      BY <1>2, ConsIs
    <3>. QED BY <2>2, <3>1, <3>2
  <2>4. pushes
    BY <1>2, <1>6, <2>3 DEF frameStep, moves, pops
  <2>. QED BY <1>1, <1>2, <1>6, <2>2, <2>4, CallPushes
<1>7. CASE Op[pc] = "ret" /\ stack # <<>>
  <2>1. o = Outcome(Head(stack), Tail(stack), "alive")
    BY <1>7 DEF Outcomes
  <2>2. Control' = Head(stack) /\ stack' = Tail(stack)
    BY <1>3, <1>4, <2>1 DEF Outcome
  <2>3. stack' # stack
    <3>1. Len(Tail(stack)) = Len(stack) - 1 /\ Len(stack) \in Nat
      BY <1>2, <1>7, TailIs
    <3>. QED BY <2>2, <3>1
  <2>4. pops
    BY <1>2, <1>7, <2>3 DEF frameStep, moves, pushes
  <2>. QED BY <1>1, <1>2, <1>7, <2>2, <2>4, ReturnPops
<1>8. CASE \/ Op[pc] = "call" /\ ~(Len(stack) < MaxDepth)
           \/ Op[pc] = "ret" /\ stack = <<>>
           \/ Op[pc] = "exit"
  <2>1. Control' = Control /\ stack' = stack
    BY <1>2, <1>3, <1>4, <1>8 DEF Outcomes, Outcome
  <2>2. moves /\ Frame[pc].does = "none"
    BY <1>2, <1>8, <2>1 DEF frameStep, pushes, pops, UsesFrame
  <2>3. UNCHANGED <<rsp, rbp, mem, assigned>>
    BY <2>2 DEF moves
  <2>. QED BY <2>1, <2>3, ShapeKept
<1>. QED BY <1>2, <1>5, <1>6, <1>7, <1>8

\* Every step keeps the invariant, as long as godbg runs.
LEMMA StackStep ==
  ASSUME BreakableIsLong, StackFits, FramesAreGo,
         NEW body, Closed(body), NEW floor, IsRoom(floor),
         IInv, StackInv(body, floor), [InspectNext]_inspectVars,
         dbg \notin Ended, dbg' \notin Ended
  PROVE  StackInv(body, floor)'
<1>1. CASE inspectExecute
  BY <1>1, ShapeExecutes
<1>2. CASE inspectOther
  <2>1. ~release /\ ~printCrashes
    <3>1. stat # "loose"
      BY DEF IInv, LeftBehind
    <3>. QED
      BY <3>1, PrintCrashes DEF release, RunLoose, LooseInst, LooseInt3, LooseStray, Ended
  <2>2. Command \/ Proceed \/ threadEvent \/ environment
    BY <1>2, <2>1, ListCommandIsCommand DEF inspectOther
  <2>3. Control' = Control /\ stack' = stack
    BY <2>2, ControlKept
  <2>. QED BY <1>2, <2>3, ShapeKept DEF inspectOther, frameVars
<1>3. CASE analyse \/ UNCHANGED inspectVars
  <2>1. UNCHANGED vars /\ UNCHANGED frameVars
    BY <1>3 DEF analyse, inspectVars
  <2>2. Control' = Control /\ stack' = stack
    BY <2>1 DEF vars, traceeVars, Control
  <2>. QED BY <2>1, <2>2, ShapeKept DEF frameVars
<1>. QED BY <1>1, <1>2, <1>3 DEF InspectNext, debug

\* The invariant.
StackOK ==
  \E body, floor :
    /\ Closed(body) /\ IsRoom(floor) /\ StackInv(body, floor)
    /\ StringsAreCovered => IsCovered(body)

\* Where a process goes that godbg has left behind is nobody's concern.
UntilEnd == dbg \in Ended \/ StackOK

LEMMA StackInvariant ==
  ASSUME BreakableIsLong, StackFits, FramesAreGo
  PROVE  InspectSpec => []UntilEnd
<1>1. \E body : Closed(body) /\ (StringsAreCovered => IsCovered(body))
  <2>1. CASE StringsAreCovered
    <3>1. PICK body : IsCovered(body)
      BY <2>1 DEF StringsAreCovered
    <3>. QED BY <3>1 DEF IsCovered, Closed
  <2>2. CASE ~StringsAreCovered
    <3>1. Closed(Inst)
      BY DEF Closed, GoesOn
    <3>. QED BY <2>2, <3>1
  <2>. QED BY <2>1, <2>2
<1>2. InspectInit => UntilEnd
  BY <1>1, RoomExists, ShapeInit DEF UntilEnd, StackOK
<1>3. ASSUME UntilPanic, UntilEnd, [InspectNext]_inspectVars
      PROVE  UntilEnd'
  <2>1. [Next]_vars \/ printCrashes
    BY <1>3, InspectSteps
  <2>2. CASE dbg \in Ended
    <3>1. stat \notin Resumed
      BY <1>3, <2>2 DEF UntilPanic, LetGo, IInv, Consistent, StatOfDbg, Waiting, Ended
    <3>. QED BY <2>1, <2>2, <3>1, EndIsLast DEF UntilEnd
  <2>3. CASE dbg \notin Ended
    <3>1. IInv
      BY <1>3, <2>3 DEF UntilPanic, LetGo, Ended
    <3>2. PICK body, floor : /\ Closed(body) /\ IsRoom(floor) /\ StackInv(body, floor)
                             /\ StringsAreCovered => IsCovered(body)
      BY <1>3, <2>3 DEF UntilEnd, StackOK
    <3>3. dbg' \in Ended \/ StackInv(body, floor)'
      BY <1>3, <2>3, <3>1, <3>2, StackStep
    <3>. QED BY <3>2, <3>3 DEF UntilEnd, StackOK
  <2>. QED BY <2>2, <2>3
<1>4. UntilPanic /\ UntilEnd /\ [InspectNext]_inspectVars => UntilEnd'
  BY <1>3
<1>. QED BY <1>2, <1>4, InspectInvariant, PTL DEF InspectSpec

\* What the frame pointers lead to: in the frame of every activation that rbp has pointed to,
\* next to each other, the frame pointer it has found and its return address.
LEMMA FrameWords ==
  ASSUME StackFits, FramesAreGo, NEW base, NEW found, NEW body, NEW floor, IsRoom(floor),
         Shape(base, found, body, floor),
         NEW k \in Activations,
         Frame[Where(k)].ready
  PROVE  /\ k \in 1..Len(stack)
         /\ base[k] - 2 \in StackWords /\ (base[k] - 2) + 1 \in StackWords
         /\ mem[base[k] - 2] = found[k]
         /\ mem[(base[k] - 2) + 1] = stack[k]
<1>1. /\ Len(stack) \in Nat
      /\ \A j \in 1..Len(stack) : stack[j] \in Inst /\ IsReturn(stack[j])
      /\ \A j \in Activations : base[j] \in Nat /\ base[1] <= base[j] /\ base[j] <= Top
      /\ rsp \in Nat /\ rsp <= base[1] /\ Top \in Nat
      /\ \A z \in Int : rsp <= z /\ z <= Top => z \in StackWords
  BY ShapeBounds DEF Shape, Outer
<1>2. k \in 1..(Len(stack) + 1)
  BY DEF Activations
<1>3. PICK a \in Inst, c \in Nat :
        /\ a = Where(k) /\ c = Frame[a].cfa /\ c >= 2 /\ Frame[a].ready
        /\ base[k] >= rsp + c /\ k # Len(stack) + 1
        /\ mem[base[k] - 2] = found[k]
  <2>1. CASE k = 1
    <3>1. /\ Control \in Inst /\ Frame[Control].ready /\ base[1] = rsp + Frame[Control].cfa
          /\ Where(k) = Control
          /\ FrameOK(Control, body, assigned[1], mem, base[1], found[1])
          /\ Frame[Control].cfa = 0 <=> stack = <<>>
      BY <2>1 DEF Shape, FrameTyped, Inner, Where
    <3>2. /\ Frame[Control].cfa \in Nat /\ Frame[Control].cfa >= 2
      BY <3>1, FrameType DEF FramesAreGo, UsesFrame, Allocated
    <3>3. Len(stack) # 0
      BY <3>1, <3>2 DEF Shape, FrameTyped
    <3>4. mem[base[1] - 2] = found[1]
      BY <3>1 DEF FrameOK
    <3>. QED BY <1>1, <2>1, <3>1, <3>2, <3>3, <3>4
  <2>2. CASE k # 1
    <3>1. PICK j \in 1..Len(stack) : j = k - 1 /\ j + 1 = k /\ j \in Activations
      BY <1>1, <1>2, <2>2 DEF Activations
    <3>2. PICK r \in Inst : r = stack[j] /\ IsReturn(r) /\ Where(k) = r
      BY <1>1, <2>2, <3>1 DEF Where
    <3>3. base[k] = base[j] + Frame[r].cfa /\ (Frame[r].cfa = 0 <=> j = Len(stack))
      <4>1. /\ base[j + 1] = base[j] + Frame[stack[j]].cfa
            /\ Frame[stack[j]].cfa = 0 <=> j = Len(stack)
        BY DEF Shape, Outer
      <4>. QED BY <3>1, <3>2, <4>1
    <3>4. Frame[r].ready /\ Frame[r].cfa \in Nat /\ Frame[r].cfa >= 2
      BY <3>2, ReturnFrame, FrameType
    <3>5. FrameOK(r, body, assigned[k], mem, base[k], found[k])
      <4>1. k \in 2..(Len(stack) + 1)
        BY <1>1, <1>2, <2>2
      <4>2. r = stack[k - 1]
        BY <3>1, <3>2
      <4>. QED BY <4>1, <4>2 DEF Shape, Outer
    <3>6. mem[base[k] - 2] = found[k]
      BY <3>4, <3>5 DEF FrameOK
    <3>7. base[k] >= rsp + Frame[r].cfa
      <4>1. PICK x \in Nat, y \in Nat, w \in Nat, c \in Nat :
              x = base[j] /\ y = base[1] /\ w = rsp /\ c = Frame[r].cfa
        <5>1. 1 \in Activations
          BY <1>1 DEF Activations
        <5>. QED BY <1>1, <3>1, <3>4, <5>1
      <4>2. w <= y /\ y <= x
        BY <1>1, <3>1, <4>1
      <4>3. base[k] = x + c
        BY <3>3, <4>1
      <4>4. x + c >= w + c
        BY <4>2
      <4>. QED BY <4>1, <4>3, <4>4
    <3>8. k # Len(stack) + 1
      BY <1>1, <3>1, <3>3, <3>4
    <3>. QED BY <3>2, <3>4, <3>6, <3>7, <3>8
  <2>. QED BY <2>1, <2>2
<1>4. k \in 1..Len(stack)
  BY <1>1, <1>2, <1>3
<1>5. PICK b \in Nat, w \in Nat : b = base[k] /\ w = rsp /\ b >= w + c /\ b <= Top
  BY <1>1, <1>3
<1>6. /\ b - 2 \in Int /\ w <= b - 2 /\ b - 2 <= Top
      /\ (b - 2) + 1 \in Int /\ w <= (b - 2) + 1 /\ (b - 2) + 1 <= Top
      /\ (b - 2) + 1 = b - 1
  <2>1. PICK t \in Nat : t = Top /\ b <= t
    BY <1>1, <1>5
  <2>2. PICK x \in Nat : x = c /\ x >= 2
    BY <1>3
  <2>3. b >= w + x
    BY <1>5, <2>2
  <2>4. /\ b - 2 \in Int /\ w <= b - 2 /\ b - 2 <= t
        /\ (b - 2) + 1 \in Int /\ w <= (b - 2) + 1 /\ (b - 2) + 1 <= t
        /\ (b - 2) + 1 = b - 1
    BY <2>1, <2>2, <2>3, BelowReturn
  <2>. QED BY <2>1, <2>4
<1>7. mem[base[k] - 1] = stack[k]
  BY <1>4 DEF Shape, Outer
<1>. QED BY <1>1, <1>3, <1>4, <1>5, <1>6, <1>7

-----------------------------------------------------------------------------
(***************************************************************************)
(* Type correctness.                                                       *)
(***************************************************************************)

UnitsTyped ==
  /\ CompileUnits \in Seq(Seq(DOMAIN Functions))
  /\ analysis \in {"walk", "error", "crashed", "done"}

\* The functions are numbered within the units.
LEMMA UnitsStep ==
  ASSUME WalkInv, UnitsTyped, [InfoNext]_infoVars
  PROVE  UnitsTyped'
<1>0. PICK n \in Nat : n = Len(Functions) /\ DOMAIN Functions = 1..n
  BY InfoType DEF WalkInv
<1>1. PICK units \in Seq(Seq(1..n)) : units = CompileUnits
  BY <1>0 DEF UnitsTyped
<1>2. CASE /\ DOMAIN Functions' = DOMAIN Functions /\ CompileUnits' = CompileUnits
           /\ analysis' \in {analysis, "error", "crashed", "done"}
  BY <1>2 DEF UnitsTyped
<1>3. CASE walkFails \/ walkOther \/ walkEnds \/ UNCHANGED infoVars
  BY <1>2, <1>3 DEF walkFails, walkOther, walkEnds, infoVars
<1>4. CASE walkCompileUnit
  <2>1. /\ CompileUnits' = Append(units, <<>>) /\ Functions' = Functions
        /\ analysis' \in {analysis, "crashed"}
    BY <1>1, <1>4 DEF walkCompileUnit
  <2>2. Append(units, <<>>) \in Seq(Seq(1..n))
    OBVIOUS
  <2>. QED BY <1>0, <2>1, <2>2 DEF UnitsTyped
<1>5. CASE walkVariable
  <2>1. DOMAIN Functions' = DOMAIN Functions
    BY <1>0, <1>5 DEF walkVariable
  <2>. QED BY <1>2, <1>5, <2>1 DEF walkVariable
<1>6. CASE walkSubprogram
  <2>1. CASE CompileUnits = <<>>
    BY <1>2, <1>6, <2>1 DEF walkSubprogram
  <2>2. CASE CompileUnits # <<>>
    <3>1. PICK f : Functions' = Append(Functions, f)
      BY <1>6, <2>2 DEF walkSubprogram
    <3>2. /\ CompileUnits' = [units EXCEPT ![Len(units)] = Append(units[Len(units)], n + 1)]
          /\ analysis' = analysis
      BY <1>0, <1>1, <1>6, <2>2 DEF walkSubprogram, NewFunction
    <3>3. DOMAIN Functions' = 1..(n + 1)
      <4>1. Functions \in Seq(FunctionRecord)
        BY DEF WalkInv, WalkTypeOK
      <4> HIDE DEF FunctionRecord
      <4>. QED BY <1>0, <3>1, <4>1, AppendProperties
    <3>4. units \in Seq(Seq(1..(n + 1)))
      <4>1. \A s \in Seq(1..n) : s \in Seq(1..(n + 1))
        OBVIOUS
      <4>2. Seq(1..n) \subseteq Seq(1..(n + 1))
        BY <4>1
      <4>3. PICK A, B : A = Seq(1..n) /\ B = Seq(1..(n + 1))
        OBVIOUS
      <4>4. A \subseteq B /\ units \in Seq(A)
        BY <4>2, <4>3
      <4>5. units \in Seq(B)
        BY <4>4
      <4>. QED BY <4>3, <4>5
    <3>5. Len(units) \in 1..Len(units) /\ units[Len(units)] \in Seq(1..(n + 1))
      <4>1. PICK B : B = Seq(1..(n + 1))
        OBVIOUS
      <4>2. units \in Seq(B) /\ units # <<>>
        BY <1>1, <2>2, <3>4, <4>1
      <4>3. Len(units) \in 1..Len(units) /\ units[Len(units)] \in B
        BY <4>2
      <4>. QED BY <4>1, <4>3
    <3>6. Append(units[Len(units)], n + 1) \in Seq(1..(n + 1))
      <4>1. n + 1 \in 1..(n + 1)
        OBVIOUS
      <4>. QED BY <3>5, <4>1, AppendProperties
    <3>7. CompileUnits' \in Seq(Seq(1..(n + 1)))
      <4>1. PICK B, t : B = Seq(1..(n + 1)) /\ t = Append(units[Len(units)], n + 1)
        OBVIOUS
      <4>2. units \in Seq(B) /\ t \in B /\ CompileUnits' = [units EXCEPT ![Len(units)] = t]
        BY <3>2, <3>4, <3>6, <4>1
      <4>3. CompileUnits' \in Seq(B)
        BY <3>5, <4>2
      <4>. QED BY <4>1, <4>3
    <3>. QED BY <3>2, <3>3, <3>7 DEF UnitsTyped
  <2>. QED BY <2>1, <2>2
<1>. QED BY <1>3, <1>4, <1>5, <1>6 DEF InfoNext

LEMMA UnitsInvariant == InspectSpec => []UnitsTyped
<1>1. InspectInit => UnitsTyped
  BY DEF InspectInit, InfoInit, UnitsTyped
<1>2. WalkInv /\ UnitsTyped /\ [InspectNext]_inspectVars => UnitsTyped'
  BY UnitsStep DEF InspectNext, analyse, debug, inspectVars, infoVars
<1>. QED BY <1>1, <1>2, WalkInvariant, PTL DEF InspectSpec

\* What an activation has found is an address of the stack, or 0.
LEMMA FoundIsWord ==
  ASSUME StackFits, FramesAreGo, NEW base, NEW found, NEW body, NEW floor, IsRoom(floor),
         Shape(base, found, body, floor), NEW k \in Activations
  PROVE  found[k] \in StackWords \cup {0}
<1>1. PICK n \in Nat : n = Len(stack)
  BY ShapeBounds
<1>2. PICK W : W = StackWords \cup {0}
  OBVIOUS
<1>3. PICK T : T = {m \in Nat : m <= n => found[(n + 1) - m] \in W}
  OBVIOUS
<1>4. 0 \in T
  BY <1>1, <1>2, <1>3 DEF Shape, Outer
<1>5. ASSUME NEW m \in Nat, m \in T
      PROVE  m + 1 \in T
  <2> SUFFICES ASSUME m + 1 <= n PROVE found[(n + 1) - (m + 1)] \in W
    BY <1>3
  <2>1. PICK j \in 1..n : j = (n + 1) - (m + 1) /\ j + 1 = (n + 1) - m
    OBVIOUS
  <2>2. found[j] = IF Frame[stack[j]].ready THEN base[j + 1] - 2 ELSE found[j + 1]
    BY <1>1 DEF Shape, Outer
  <2>3. found[j + 1] \in W
    BY <1>3, <1>5, <2>1
  <2>4. Frame[stack[j]].ready => base[j + 1] - 2 \in StackWords
    <3>1. j + 1 \in Activations /\ j + 1 # 1 /\ (j + 1) - 1 = j
      BY <1>1 DEF Activations
    <3>2. Where(j + 1) = stack[j]
      BY <3>1 DEF Where
    <3>. QED BY <3>1, <3>2, FrameWords
  <2>. QED BY <1>2, <2>1, <2>2, <2>3, <2>4
<1>6. Nat \subseteq T
  BY <1>4, <1>5, Induction
<1>7. PICK m \in Nat : m <= n /\ k = (n + 1) - m
  <2>1. k \in 1..(n + 1)
    BY <1>1 DEF Activations
  <2>2. (n + 1) - k \in Nat /\ (n + 1) - k <= n /\ k = (n + 1) - ((n + 1) - k)
    BY <2>1
  <2>. QED BY <2>2
<1>. QED BY <1>2, <1>3, <1>6, <1>7

FramesTyped ==
  /\ rsp \in StackWords
  /\ rbp \in StackWords \cup {0}
  /\ mem \in [StackWords -> Nat]
  /\ assigned \in Seq(Assignment)

\* The types follow from where the activations are.
LEMMA ShapeTypes ==
  ASSUME StackFits, FramesAreGo, StackOK
  PROVE  FramesTyped
<1>0. PICK body, floor : IsRoom(floor) /\ StackInv(body, floor)
  BY DEF StackOK
<1>1. PICK base, found : Shape(base, found, body, floor)
  BY <1>0 DEF StackInv
<1>2. mem \in [StackWords -> Nat] /\ assigned \in Seq(Assignment)
  BY <1>1 DEF Shape, FrameTyped
<1>3. 1 \in Activations /\ Where(1) = Control
  BY <1>0, <1>1, ShapeBounds DEF Activations, Where
<1>4. rsp \in StackWords
  <2>1. /\ rsp \in Nat /\ rsp <= base[1] /\ base[1] \in Nat /\ base[1] <= Top /\ Top \in Nat
        /\ \A z \in Int : rsp <= z /\ z <= Top => z \in StackWords
    BY <1>0, <1>1, <1>3, ShapeBounds
  <2>. QED BY <2>1
<1>5. rbp \in StackWords \cup {0}
  <2>1. rbp = IF Frame[Control].ready THEN base[1] - 2 ELSE found[1]
    BY <1>1 DEF Shape, Inner
  <2>2. Frame[Control].ready => base[1] - 2 \in StackWords
    BY <1>0, <1>1, <1>3, FrameWords
  <2>3. found[1] \in StackWords \cup {0}
    BY <1>0, <1>1, <1>3, FoundIsWord
  <2>. QED BY <2>1, <2>2, <2>3
<1>. QED BY <1>2, <1>4, <1>5 DEF FramesTyped

\* When godbg has ended nothing is said of the frames any more.
LEMMA FramesStay ==
  ASSUME UntilPanic, [InspectNext]_inspectVars, dbg' \in Ended
  PROVE  UNCHANGED frameVars
<1>1. ~inspectExecute
  <2> SUFFICES ASSUME execute PROVE FALSE
    BY DEF inspectExecute
  <2>1. dbg' = dbg /\ stat \in Resumed
    BY DEF execute, ExecuteInst
  <2>2. dbg \in Waiting
    BY <2>1 DEF UntilPanic, LetGo, IInv, Consistent, StatOfDbg
  <2>. QED BY <2>1, <2>2 DEF Waiting, Ended
<1>. QED BY <1>1 DEF InspectNext, debug, analyse, inspectOther, inspectVars

LEMMA FramesInvariant ==
  ASSUME BreakableIsLong, StackFits, FramesAreGo
  PROVE  InspectSpec => []FramesTyped
<1> DEFINE AtEnd == dbg \in Ended => FramesTyped
<1>1. UntilEnd /\ AtEnd => FramesTyped
  BY ShapeTypes DEF UntilEnd
<1>2. InspectInit => AtEnd
  BY DEF InspectInit, Init, Ended
<1>3. UntilPanic /\ FramesTyped /\ [InspectNext]_inspectVars => AtEnd'
  BY FramesStay DEF FramesTyped, frameVars
<1> HIDE DEF AtEnd
<1>. QED BY <1>1, <1>2, <1>3, InspectInvariant, StackInvariant, PTL DEF InspectSpec

\* Every variable keeps its type: whatever the program does, its stack pointer stays within
\* the stack, and rbp, which bt and p start from, points into the stack or is 0.
THEOREM InspectTyped ==
  ASSUME BreakableIsLong, FramesAreGo, StackFits
  PROVE  InspectSpec => []InspectTypeOK
<1>1. FramesTyped /\ WalkInv /\ UnitsTyped => InspectTypeOK
  BY DEF FramesTyped, Assignment, WalkInv, WalkTypeOK, FunctionRecord, UnitsTyped, InfoTypeOK,
         InspectTypeOK
<1>. QED BY <1>1, FramesInvariant, WalkInvariant, UnitsInvariant, PTL

-----------------------------------------------------------------------------
(***************************************************************************)
(* What bt shows: the chain of frame pointers goes through the activations *)
(* that have a frame, and each return address is behind the call that      *)
(* pushed it.                                                              *)
(***************************************************************************)

\* The parts of bt.
ChainedFrame ==
  CHOOSE frame : frame = [n \in Nat |->
    IF n = 0 THEN rbp
    ELSE IF Readable(frame[n - 1]) THEN mem[frame[n - 1]] ELSE 0]

ShownCaller(n) == Place(CallSite(mem[ChainedFrame[n] + 1]))

ChainEnds(n) == ~Readable(ChainedFrame[n]) \/ ShownCaller(n).function = {}

ShownDepth ==
  Min({n \in 0..Cardinality(StackWords) : ChainEnds(n)} \cup {Cardinality(StackWords)})

\* bt in these parts.
LEMMA BtIsChain ==
  bt = <<Position(AdjustedPc)>> \o [n \in 1..ShownDepth |-> ShownCaller(n - 1)]
         \o (IF ChainedFrame[ShownDepth] = 0 THEN <<>> ELSE <<Unreadable>>)
BY DEF bt, ChainedFrame, ShownCaller, ChainEnds, ShownDepth

\* The recursion has a solution.
LEMMA ChainEquation ==
  ASSUME rbp \in Nat, mem \in [StackWords -> Nat]
  PROVE  /\ ChainedFrame[0] = rbp
         /\ \A n \in Nat :
              ChainedFrame[n + 1] =
                IF Readable(ChainedFrame[n]) THEN mem[ChainedFrame[n]] ELSE 0
<1> DEFINE m == [n \in Nat |-> n]
           first == [n \in Nat |-> rbp]
           before == [n \in Nat |-> IF n = 0 THEN 0 ELSE n - 1]
           outwards == [q \in Nat \X Nat |-> IF Readable(q[2]) THEN mem[q[2]] ELSE 0]
           E(frame) == [n \in Nat |->
                          IF n = 0 THEN rbp
                          ELSE IF Readable(frame[n - 1]) THEN mem[frame[n - 1]] ELSE 0]
<1>1. outwards \in [Nat \X Nat -> Nat]
  BY DEF Readable
<1>2. m \in [Nat -> Nat] /\ \A n \in Nat : first[n] \in Nat
  OBVIOUS
<1>3. \A n \in Nat \ {0} : before[n] \in Nat /\ before[n] = n - 1 /\ m[before[n]] < m[n]
  OBVIOUS
<1>4. PICK g \in [Nat -> Nat] : Recursive(g, Nat, {0}, first, before, outwards)
  <2> HIDE DEF m, first, before, outwards
  <2>. QED BY <1>1, <1>2, <1>3, RecursionExists
<1>5. ASSUME NEW n \in Nat
      PROVE  g[n] = E(g)[n]
  <2>1. g[n] = IF n \in {0} THEN first[n] ELSE outwards[<<n, g[before[n]]>>]
    BY <1>4 DEF Recursive
  <2>2. CASE n = 0
    BY <2>1, <2>2
  <2>3. CASE n # 0
    <3>1. before[n] = n - 1 /\ n - 1 \in Nat /\ g[n - 1] \in Nat
      BY <1>4, <2>3
    <3>2. outwards[<<n, g[n - 1]>>] = IF Readable(g[n - 1]) THEN mem[g[n - 1]] ELSE 0
      BY <3>1
    <3>. QED BY <2>1, <2>3, <3>1, <3>2
  <2>. QED BY <2>2, <2>3
<1>6. g = E(g)
  BY <1>4, <1>5
<1>7. ChainedFrame = E(ChainedFrame)
  <2>1. ChainedFrame = CHOOSE frame : frame = E(frame)
    BY DEF ChainedFrame
  <2> HIDE DEF E
  <2>. QED BY <1>6, <2>1
<1>8. PICK h : h = ChainedFrame
  OBVIOUS
<1>9. \A n \in Nat : h[n] = E(h)[n]
  BY <1>7, <1>8
<1>10. h[0] = rbp
  BY <1>9
<1>11. ASSUME NEW n \in Nat
       PROVE  h[n + 1] = IF Readable(h[n]) THEN mem[h[n]] ELSE 0
  <2>1. n + 1 \in Nat /\ n + 1 # 0 /\ (n + 1) - 1 = n
    OBVIOUS
  <2>. QED BY <1>9, <2>1
<1>. QED BY <1>8, <1>10, <1>11

\* The walk is done when the analysis is.
WalkedAll == analysis = "done" => at = Len(info)

LEMMA WalkedAllInvariant == InspectSpec => []WalkedAll
<1>1. InspectInit => WalkedAll
  BY DEF InspectInit, InfoInit, WalkedAll
<1>2. WalkedAll /\ [InspectNext]_inspectVars => WalkedAll'
  <2> SUFFICES ASSUME WalkedAll, [InspectNext]_inspectVars PROVE WalkedAll'
    OBVIOUS
  <2>1. CASE UNCHANGED infoVars
    BY <2>1 DEF WalkedAll, infoVars
  <2>2. CASE InfoNext
    BY <2>2 DEF WalkedAll, InfoNext, walkFails, walkCompileUnit, walkSubprogram, walkVariable,
                walkOther, walkEnds, Yields
  <2>. QED BY <2>1, <2>2 DEF InspectNext, analyse, debug, inspectVars, infoVars
<1>. QED BY <1>1, <1>2, PTL DEF InspectSpec

\* A function that has the address is found.
LEMMA FunctionFound ==
  ASSUME WalkInv, WalkedAll, analysis = "done", NEW a \in Nat,
         NEW e \in DOMAIN info, info[e].tag = "subprogram", info[e].lowpc <= a, a < info[e].highpc
  PROVE  findFunctionIncludePc(a) # {}
<1> DEFINE Includes(i) == /\ info[Functions[i].entry].lowpc <= a
                          /\ a < info[Functions[i].entry].highpc
<1>1. DOMAIN Functions \subseteq Nat /\ \A i \in DOMAIN Functions : 1..(i - 1) \subseteq DOMAIN Functions
  BY InfoType DEF WalkInv
<1>2. PICK T : T = {i \in DOMAIN Functions : Includes(i)}
  OBVIOUS
<1>3. T # {}
  <2>1. e \in 1..at
    BY InfoType DEF WalkInv, WalkedAll
  <2>2. PICK i \in DOMAIN Functions : Functions[i].entry = e
    BY <2>1 DEF WalkInv, FunctionsAreMet
  <2>. QED BY <1>2, <2>2
<1>4. PICK i \in T : \A j \in T : i <= j
  <2>1. T \in SUBSET Nat
    BY <1>1, <1>2
  <2>. QED BY <1>3, <2>1, LeastNumber
<1>5. i \in DOMAIN Functions /\ i \in Nat /\ Includes(i)
  BY <1>1, <1>2, <1>4
<1>6. \A j \in 1..(i - 1) : ~Includes(j)
  <2> SUFFICES ASSUME NEW j \in 1..(i - 1), Includes(j) PROVE FALSE
    OBVIOUS
  <2>1. j \in T /\ j < i /\ j \in Nat
    BY <1>1, <1>2, <1>5
  <2> HIDE DEF Includes
  <2>. QED BY <1>4, <1>5, <2>1
<1>. QED BY <1>5, <1>6 DEF findFunctionIncludePc

\* What bt looks up for a return address is what there is at the call.
LEMMA CallIsShown ==
  ASSUME CallsAreInFunctions, WalkInv, WalkedAll, analysis = "done",
         NEW r, IsReturn(r)
  PROVE  /\ Place(CallSite(r)) = Place(CallOf(r))
         /\ Place(CallSite(r)).function # {}
<1>1. PICK c \in Inst : c = CallOf(r) /\ Op[c] = "call" /\ ReturnAddress(c) = r
  BY DEF IsReturn, CallOf
<1>2. c \in Nat /\ r \in Nat /\ CallSite(r) = r - 1 /\ r - 1 \in Nat /\ c <= r - 1
  BY <1>1, InstNat DEF ReturnAddress, CallSite
<1>3. \A i \in DOMAIN Rows : Rows[i].addr \in Nat
  <2> DEFINE Row == [addr : Nat \ {0}, line : Nat \ {0}, prologueEnd : BOOLEAN]
  <2>1. Rows \in Seq(Row)
    BY RowsAssumption
  <2>2. ASSUME NEW i \in DOMAIN Rows PROVE Rows[i] \in Row
    <3> HIDE DEF Row
    <3>. QED BY <2>1
  <2>. QED BY <2>2
<1>4. \A i \in DOMAIN Rows : Rows[i].addr <= r - 1 <=> Rows[i].addr <= c
  BY <1>1, <1>2, <1>3 DEF CallsAreInFunctions
<1>5. pcTofileLine(r - 1) = pcTofileLine(c)
  <2>1. {i \in DOMAIN Rows : Rows[i].addr <= r - 1} = {i \in DOMAIN Rows : Rows[i].addr <= c}
    BY <1>4
  <2>. QED BY <2>1 DEF pcTofileLine
<1>6. /\ \E e \in DOMAIN info : /\ info[e].tag = "subprogram"
                                /\ info[e].lowpc <= c /\ c < info[e].highpc
      /\ \A e \in DOMAIN info : info[e].tag = "subprogram" =>
           (info[e].lowpc <= c /\ c < info[e].highpc
              <=> info[e].lowpc <= r - 1 /\ r - 1 < info[e].highpc)
  <2>1. info \in DebugInfos
    BY DEF WalkInv, WalkTypeOK
  <2>. QED BY <1>1, <2>1 DEF CallsAreInFunctions
<1>7. /\ \A i \in DOMAIN Functions :
           info[Functions[i].entry].lowpc <= c /\ c < info[Functions[i].entry].highpc
              <=> /\ info[Functions[i].entry].lowpc <= r - 1
                  /\ r - 1 < info[Functions[i].entry].highpc
  BY <1>6, InfoType DEF WalkInv, FunctionsAreMet
<1>8. findFunctionIncludePc(r - 1) = findFunctionIncludePc(c)
  <2>1. \A i \in DOMAIN Functions : 1..(i - 1) \subseteq DOMAIN Functions
    BY InfoType DEF WalkInv
  <2>. QED BY <1>7, <2>1 DEF findFunctionIncludePc
<1>9. findFunctionIncludePc(c) # {}
  BY <1>2, <1>6, FunctionFound
<1>. QED BY <1>1, <1>2, <1>5, <1>8, <1>9 DEF Place

\* A chain of MaxDepth frames is not longer than bt follows one.
LEMMA ChainFits ==
  ASSUME StackFits
  PROVE  Cardinality(StackWords) \in Nat /\ MaxDepth <= Cardinality(StackWords)
<1>1. PICK bottom, top \in StackWords :
        /\ StackWords = bottom..top
        /\ \E words \in 1..top : MaxDepth * words <= top - bottom
  BY DEF StackFits
<1>2. PICK words \in 1..top : MaxDepth * words <= top - bottom
  BY <1>1
<1>3. bottom \in Nat /\ top \in Nat /\ words \in Nat \ {0} /\ MaxDepth \in Nat /\ bottom <= top
  BY <1>1, StackIsInterval, CodeAssumption
<1>4. Cardinality(StackWords) = top - bottom + 1
  BY <1>1, <1>3, FS_Interval
<1>5. MaxDepth <= MaxDepth * words
  <2>1. MaxDepth * words = MaxDepth + MaxDepth * (words - 1)
    BY <1>3
  <2>2. MaxDepth * (words - 1) \in Nat
    BY <1>3
  <2>. QED BY <1>3, <2>1, <2>2
<1>6. MaxDepth * words \in Nat
  BY <1>3
<1>. QED BY <1>2, <1>3, <1>4, <1>5, <1>6

\* Min returns the least element.
LEMMA LeastIsMin ==
  ASSUME NEW U \in SUBSET Nat, NEW d \in U, \A y \in U : d <= y
  PROVE  Min(U) = d
<1>1. PICK m : m = CHOOSE x \in U : \A y \in U : x <= y
  OBVIOUS
<1>2. m \in U /\ m <= d
  BY <1>1
<1>3. Min(U) = m
  BY <1>1 DEF Min
<1>4. m \in Nat /\ d \in Nat /\ d <= m
  BY <1>2
<1>. QED BY <1>2, <1>3, <1>4

\* What is read from a frame pointer x on.
IsChain(c, x) ==
  /\ c[0] = x
  /\ \A j \in Nat : c[j + 1] = IF Readable(c[j]) THEN mem[c[j]] ELSE 0

IsReady(k) == Frame[Where(k)].ready

\* The frame pointer of activation k.
Pointer(base, found, k) == IF IsReady(k) THEN base[k] - 2 ELSE found[k]

\* e lists the activations from k on that rbp has pointed to.
Lists(e, d, k) ==
  /\ e \in [1..d -> k..Len(stack)]
  /\ \A i, j \in 1..d : i < j => e[i] < e[j]
  /\ \A m \in k..Len(stack) : IsReady(m) <=> \E i \in 1..d : e[i] = m

\* A chain from x on goes through the frames of these activations and ends at 0.
GoesThrough(e, d, x, base) ==
  \A c : IsChain(c, x) => c[d] = 0 /\ \A j \in 1..d : c[j - 1] = base[e[j]] - 2

LEMMA ChainOfFrames ==
  ASSUME StackFits, FramesAreGo, NEW base, NEW found, NEW body, NEW floor, IsRoom(floor),
         Shape(base, found, body, floor)
  PROVE  \E d, e :
           d \in 0..Len(stack) /\ Lists(e, d, 1) /\ GoesThrough(e, d, rbp, base)
<1>1. PICK n \in Nat : n = Len(stack)
  BY ShapeBounds
<1> DEFINE Enumerated(k) ==
             \E d, e : /\ d \in 0..((n + 1) - k) /\ Lists(e, d, k)
                       /\ GoesThrough(e, d, Pointer(base, found, k), base)
<1>2. Enumerated(n + 1)
  <2>1. ~IsReady(n + 1) /\ found[n + 1] = 0
    <3>1. n + 1 \in Activations
      BY <1>1 DEF Activations
    <3>2. ~IsReady(n + 1)
      <4>1. IsReady(n + 1) => n + 1 \in 1..n
        BY <1>1, <3>1, FrameWords DEF IsReady
      <4>. QED BY <4>1
    <3>. QED BY <1>1, <3>2 DEF Shape, Outer
  <2>2. PICK e : e = [i \in 1..0 |-> 0]
    OBVIOUS
  <2>3. Lists(e, 0, n + 1)
    BY <1>1, <2>2 DEF Lists
  <2>4. GoesThrough(e, 0, Pointer(base, found, n + 1), base)
    BY <2>1 DEF GoesThrough, IsChain, Pointer
  <2>5. 0 \in 0..((n + 1) - (n + 1))
    OBVIOUS
  <2>. QED BY <2>3, <2>4, <2>5
<1>3. ASSUME NEW k \in 1..n, Enumerated(k + 1)
      PROVE  Enumerated(k)
  <2>1. PICK d, e :
          /\ d \in 0..((n + 1) - (k + 1)) /\ Lists(e, d, k + 1)
          /\ GoesThrough(e, d, Pointer(base, found, k + 1), base)
    BY <1>3
  <2>2. d \in Nat /\ d + 1 \in 0..((n + 1) - k) /\ d \in 0..((n + 1) - k)
    BY <2>1
  <2>3. found[k] = Pointer(base, found, k + 1)
    <3>1. k + 1 # 1 /\ (k + 1) - 1 = k
      OBVIOUS
    <3>2. Where(k + 1) = stack[k]
      BY <3>1 DEF Where
    <3>3. found[k] = IF Frame[stack[k]].ready THEN base[k + 1] - 2 ELSE found[k + 1]
      BY <1>1 DEF Shape, Outer
    <3>. QED BY <3>2, <3>3 DEF Pointer, IsReady
  <2>4. k..n = {k} \cup ((k + 1)..n)
    OBVIOUS
  <2>5. CASE ~IsReady(k)
    <3>1. Lists(e, d, k)
      BY <1>1, <2>1, <2>4, <2>5 DEF Lists
    <3>2. Pointer(base, found, k) = Pointer(base, found, k + 1)
      BY <2>3, <2>5 DEF Pointer
    <3>. QED BY <2>1, <2>2, <3>1, <3>2
  <2>6. CASE IsReady(k)
    <3>1. PICK g : g = [i \in 1..(d + 1) |-> IF i = 1 THEN k ELSE e[i - 1]]
      OBVIOUS
    <3>2. g[1] = k /\ \A i \in 1..d : g[i + 1] = e[i]
      <4>1. 1 \in 1..(d + 1)
        BY <2>2
      <4>2. \A i \in 1..d : i + 1 \in 1..(d + 1) /\ i + 1 # 1 /\ (i + 1) - 1 = i
        BY <2>2
      <4>. QED BY <3>1, <4>1, <4>2
    <3>3. \A i \in 1..(d + 1) : i = 1 \/ \E h \in 1..d : i = h + 1
      <4> SUFFICES ASSUME NEW i \in 1..(d + 1), i # 1
                   PROVE  \E h \in 1..d : i = h + 1
        OBVIOUS
      <4>1. i - 1 \in 1..d /\ i = (i - 1) + 1
        BY <2>2
      <4>. QED BY <4>1
    <3>4. \A i \in 1..d : e[i] \in (k + 1)..n
      BY <1>1, <2>1 DEF Lists
    <3>5. Lists(g, d + 1, k)
      <4>1. g \in [1..(d + 1) -> k..n]
        <5>1. \A i \in 1..(d + 1) : (IF i = 1 THEN k ELSE e[i - 1]) \in k..n
          <6> SUFFICES ASSUME NEW i \in 1..(d + 1)
                       PROVE  (IF i = 1 THEN k ELSE e[i - 1]) \in k..n
            OBVIOUS
          <6>1. i = 1 \/ i - 1 \in 1..d
            BY <2>2
          <6>. QED BY <2>4, <3>4, <6>1
        <5>. QED BY <3>1, <5>1
      <4>2. ASSUME NEW i \in 1..(d + 1), NEW j \in 1..(d + 1), i < j
            PROVE  g[i] < g[j]
        <5>1. PICK q \in 1..d : j = q + 1
          BY <3>3, <4>2
        <5>2. CASE i = 1
          BY <3>2, <3>4, <5>1, <5>2
        <5>3. CASE i # 1
          <6>1. PICK h \in 1..d : i = h + 1
            BY <3>3, <5>3
          <6>2. h < q
            BY <4>2, <5>1, <6>1
          <6>. QED BY <2>1, <3>2, <5>1, <6>1, <6>2 DEF Lists
        <5>. QED BY <5>2, <5>3
      <4>3. ASSUME NEW m \in k..n
            PROVE  IsReady(m) <=> \E i \in 1..(d + 1) : g[i] = m
        <5>1. CASE m = k
          <6>1. 1 \in 1..(d + 1)
            BY <2>2
          <6>. QED BY <2>6, <3>2, <5>1, <6>1
        <5>2. CASE m # k
          <6>1. m \in (k + 1)..n
            BY <2>4, <5>2
          <6>2. IsReady(m) <=> \E i \in 1..d : e[i] = m
            BY <1>1, <2>1, <6>1 DEF Lists
          <6>3. (\E i \in 1..d : e[i] = m) => \E i \in 1..(d + 1) : g[i] = m
            <7>1. \A i \in 1..d : i + 1 \in 1..(d + 1)
              BY <2>2
            <7>. QED BY <3>2, <7>1
          <6>4. (\E i \in 1..(d + 1) : g[i] = m) => \E i \in 1..d : e[i] = m
            BY <3>2, <3>3, <5>2
          <6>. QED BY <6>2, <6>3, <6>4
        <5>. QED BY <5>1, <5>2
      <4>. QED BY <1>1, <4>1, <4>2, <4>3 DEF Lists
    <3>6. ASSUME NEW c, IsChain(c, Pointer(base, found, k))
          PROVE  c[d + 1] = 0 /\ \A j \in 1..(d + 1) : c[j - 1] = base[g[j]] - 2
      <4>1. c[0] = base[k] - 2
        BY <2>6, <3>6 DEF IsChain, Pointer
      <4>2. Readable(c[0]) /\ mem[c[0]] = found[k]
        <5>1. k \in Activations
          BY <1>1 DEF Activations
        <5>2. /\ base[k] - 2 \in StackWords /\ (base[k] - 2) + 1 \in StackWords
              /\ mem[base[k] - 2] = found[k]
          BY <2>6, <5>1, FrameWords DEF IsReady
        <5>. QED BY <4>1, <5>2 DEF Readable
      <4>3. PICK s : s = [j \in Nat |-> c[j + 1]]
        OBVIOUS
      <4>4. \A j \in Nat : s[j] = c[j + 1] /\ s[j + 1] = c[(j + 1) + 1]
        <5>1. \A j \in Nat : j + 1 \in Nat
          OBVIOUS
        <5>. QED BY <4>3, <5>1
      <4>5. IsChain(s, found[k])
        <5>1. c[0 + 1] = found[k] /\ s[0] = c[0 + 1]
          BY <3>6, <4>2, <4>4 DEF IsChain
        <5>2. ASSUME NEW j \in Nat
              PROVE  s[j + 1] = IF Readable(s[j]) THEN mem[s[j]] ELSE 0
          <6>1. c[(j + 1) + 1] = IF Readable(c[j + 1]) THEN mem[c[j + 1]] ELSE 0
            <7>1. j + 1 \in Nat
              OBVIOUS
            <7>. QED BY <3>6, <7>1 DEF IsChain
          <6>. QED BY <4>4, <6>1
        <5>. QED BY <5>1, <5>2 DEF IsChain
      <4>6. s[d] = 0 /\ \A j \in 1..d : s[j - 1] = base[e[j]] - 2
        BY <2>1, <2>3, <4>5 DEF GoesThrough
      <4>7. c[d + 1] = 0
        BY <2>2, <4>4, <4>6
      <4>8. ASSUME NEW j \in 1..(d + 1)
            PROVE  c[j - 1] = base[g[j]] - 2
        <5>1. CASE j = 1
          BY <3>2, <4>1, <5>1
        <5>2. CASE j # 1
          <6>1. PICK h \in 1..d : j = h + 1
            BY <3>3, <5>2
          <6>2. j - 1 = (h - 1) + 1 /\ h - 1 \in Nat
            BY <6>1
          <6>3. c[j - 1] = s[h - 1] /\ g[j] = e[h]
            BY <3>2, <4>4, <6>1, <6>2
          <6>. QED BY <4>6, <6>3
        <5>. QED BY <5>1, <5>2
      <4>. QED BY <4>7, <4>8
    <3>7. GoesThrough(g, d + 1, Pointer(base, found, k), base)
      BY <3>6 DEF GoesThrough
    <3>. QED BY <2>2, <3>5, <3>7
  <2>. QED BY <2>5, <2>6
<1>4. Enumerated(1)
  <2>1. PICK T : T = {m \in Nat : m <= n => Enumerated((n + 1) - m)}
    OBVIOUS
  <2> HIDE DEF Enumerated
  <2>2. 0 \in T
    <3>1. (n + 1) - 0 = n + 1
      OBVIOUS
    <3>. QED BY <1>2, <2>1, <3>1
  <2>3. ASSUME NEW m \in Nat, m \in T
        PROVE  m + 1 \in T
    <3> SUFFICES ASSUME m + 1 <= n PROVE Enumerated((n + 1) - (m + 1))
      BY <2>1
    <3>1. PICK k \in 1..n : k = (n + 1) - (m + 1) /\ k + 1 = (n + 1) - m
      OBVIOUS
    <3>2. Enumerated(k + 1)
      BY <2>1, <2>3, <3>1
    <3>. QED BY <1>3, <3>1, <3>2
  <2>4. Nat \subseteq T
    BY <2>2, <2>3, Induction
  <2>5. (n + 1) - n = 1
    OBVIOUS
  <2>. QED BY <2>1, <2>4, <2>5
<1>5. rbp = Pointer(base, found, 1)
  BY DEF Shape, Inner, Pointer, IsReady, Where
<1>6. (n + 1) - 1 = Len(stack)
  BY <1>1
<1>. QED BY <1>4, <1>5, <1>6

\* What bt shows when it can: the calls of the activations that rbp has pointed to.
LEMMA BtIsCallers ==
  ASSUME StackFits, FramesAreGo, CallsAreInFunctions,
         NEW base, NEW found, NEW body, NEW floor, IsRoom(floor), Shape(base, found, body, floor),
         WalkInv, WalkedAll, analysis = "done", AdjustedPc = Control
  PROVE  \E d, e :
           /\ d \in Nat
           /\ Lists(e, d, 1)
           /\ Len(bt) = d + 1 /\ bt[1] = Position(Control)
           /\ \A i \in 1..d : bt[i + 1] = Place(CallOf(stack[e[i]]))
<1>1. PICK n \in Nat : n = Len(stack) /\ n <= MaxDepth
  BY ShapeBounds, CodeAssumption
<1>2. PICK d, e : d \in 0..n /\ Lists(e, d, 1) /\ GoesThrough(e, d, rbp, base)
  BY <1>1, ChainOfFrames
<1>3. d \in Nat /\ d <= n
  BY <1>2
<1>4. ChainedFrame[d] = 0 /\ \A j \in 1..d : ChainedFrame[j - 1] = base[e[j]] - 2
  <2>1. rbp \in Nat /\ mem \in [StackWords -> Nat]
    BY DEF Shape, FrameTyped
  <2>2. PICK c : c = ChainedFrame
    OBVIOUS
  <2>3. IsChain(c, rbp)
    BY <2>1, <2>2, ChainEquation DEF IsChain
  <2>. QED BY <1>2, <2>2, <2>3 DEF GoesThrough
<1>5. ASSUME NEW i \in 1..d
      PROVE  /\ ShownCaller(i - 1) = Place(CallOf(stack[e[i]]))
             /\ ~ChainEnds(i - 1)
  <2>1. PICK k \in 1..n : k = e[i] /\ IsReady(k)
    <3>1. e[i] \in 1..n
      BY <1>1, <1>2 DEF Lists
    <3>. QED BY <1>1, <1>2, <3>1 DEF Lists
  <2>2. k \in Activations
    BY <1>1 DEF Activations
  <2>3. /\ base[k] - 2 \in StackWords /\ (base[k] - 2) + 1 \in StackWords
        /\ mem[(base[k] - 2) + 1] = stack[k]
    BY <2>1, <2>2, FrameWords DEF IsReady
  <2>4. ChainedFrame[i - 1] = base[k] - 2
    BY <1>4, <2>1
  <2>5. Readable(ChainedFrame[i - 1]) /\ mem[ChainedFrame[i - 1] + 1] = stack[k]
    BY <2>3, <2>4 DEF Readable
  <2>6. PICK r : r = stack[k] /\ IsReturn(r)
    BY <1>1 DEF Shape, Outer
  <2>7. Place(CallSite(r)) = Place(CallOf(r)) /\ Place(CallSite(r)).function # {}
    BY <2>6, CallIsShown
  <2>. QED BY <2>1, <2>5, <2>6, <2>7 DEF ShownCaller, ChainEnds
<1>6. ShownDepth = d
  <2>1. PICK w \in Nat : w = Cardinality(StackWords) /\ d <= w
    <3>1. MaxDepth \in Nat
      BY CodeAssumption
    <3>. QED BY <1>1, <1>3, <3>1, ChainFits
  <2>2. PICK U : U = {j \in 0..w : ChainEnds(j)} \cup {w}
    OBVIOUS
  <2>3. d \in U /\ \A y \in U : y \in Nat /\ d <= y
    <3>1. ChainEnds(d)
      <4>1. ~Readable(0)
        BY StackIsInterval DEF Readable
      <4>. QED BY <1>4, <4>1 DEF ChainEnds
    <3>2. ASSUME NEW y \in U PROVE y \in Nat /\ d <= y
      <4>1. y \in Nat
        BY <2>2
      <4>2. CASE y = w
        BY <2>1, <4>1, <4>2
      <4>3. CASE ChainEnds(y)
        <5>1. ASSUME y < d PROVE FALSE
          <6>1. y + 1 \in 1..d /\ (y + 1) - 1 = y
            BY <1>3, <4>1, <5>1
          <6>. QED BY <1>5, <4>3, <6>1
        <5>. QED BY <1>3, <4>1, <5>1
      <4>. QED BY <2>2, <4>1, <4>2, <4>3
    <3>. QED BY <1>3, <2>1, <2>2, <3>1, <3>2
  <2>4. Min(U) = d
    <3>1. U \in SUBSET Nat
      BY <2>3
    <3>. QED BY <2>3, <3>1, LeastIsMin
  <2>. QED BY <2>1, <2>2, <2>4 DEF ShownDepth
<1>7. PICK p, callers : /\ p = Position(Control)
                        /\ callers = [i \in 1..d |-> ShownCaller(i - 1)]
  OBVIOUS
<1>8. PICK S : callers \in Seq(S) /\ p \in S /\ Len(callers) = d
  <2>1. PICK S : S = {ShownCaller(i - 1) : i \in 1..d} \cup {p}
    OBVIOUS
  <2>2. \A i \in 1..d : ShownCaller(i - 1) \in S
    BY <2>1
  <2>3. callers \in [1..d -> S] /\ p \in S
    BY <1>7, <2>1, <2>2
  <2>. QED BY <1>3, <2>3
<1>9. bt = <<p>> \o callers
  <2>1. bt = (<<p>> \o callers) \o <<>>
    BY <1>4, <1>6, <1>7, BtIsChain
  <2>2. <<p>> \o callers \in Seq(S)
    BY <1>8, ConsIs
  <2>. QED BY <2>1, <2>2, ConcatEmptySeq
<1>10. /\ Len(bt) = d + 1 /\ bt[1] = p
       /\ \A i \in 1..d : bt[i + 1] = callers[i]
  BY <1>8, <1>9, ConsIs
<1>. QED BY <1>2, <1>3, <1>5, <1>7, <1>10

\* At the prompt of a running debugger all of the invariants hold.
LEMMA AtInspection ==
  ASSUME BreakableIsLong, UntilPanic, UntilEnd, Inspects
  PROVE  /\ StackOK /\ analysis = "done"
         /\ AdjustedPc = Control
<1>1. Prompt /\ dbg \notin Ended /\ analysis = "done"
  BY DEF Inspects, Prompt, Ended
<1>2. IInv
  BY <1>1, InvAtPrompt
<1>. QED BY <1>1, <1>2, TrappedIsHit DEF UntilEnd, AdjustedPc, Control

\* Wherever the process stops, bt shows calls that active functions were called by, in their
\* order, and leaves out none of an activation whose rbp points to its frame.  Frames that
\* other activations made, recursive ones, those of prologues' calls and those without a
\* frame among them, are not written to, and the address before a return address lies in
\* the call, with its line and its function (the handler of bt, prompt.go:142).
THEOREM CallersShown ==
  ASSUME BreakableIsLong, FramesAreGo, StackFits, CallsAreInFunctions
  PROVE  InspectSpec => []BtShowsCallers
<1>1. ASSUME UntilPanic, WalkInv, WalkedAll, UntilEnd
      PROVE  BtShowsCallers
  <2> SUFFICES ASSUME Inspects
               PROVE  /\ bt[1] = Position(Control)
                      /\ \E shown \in [1..(Len(bt) - 1) -> DOMAIN stack] :
                           /\ \A i, j \in DOMAIN shown : i < j => shown[i] < shown[j]
                           /\ \A i \in DOMAIN shown : bt[i + 1] = Place(CallOf(stack[shown[i]]))
                           /\ \A k \in DOMAIN stack :
                                Frame[Where(k)].ready => \E i \in DOMAIN shown : shown[i] = k
    BY DEF BtShowsCallers
  <2>1. StackOK /\ analysis = "done" /\ AdjustedPc = Control
    BY <1>1, AtInspection
  <2>2. PICK body, floor : IsRoom(floor) /\ StackInv(body, floor)
    BY <2>1 DEF StackOK
  <2>3. PICK base, found : Shape(base, found, body, floor)
    BY <2>2 DEF StackInv
  <2>4. PICK d, e :
          /\ d \in Nat
          /\ Lists(e, d, 1)
          /\ Len(bt) = d + 1 /\ bt[1] = Position(Control)
          /\ \A i \in 1..d : bt[i + 1] = Place(CallOf(stack[e[i]]))
    BY <1>1, <2>1, <2>2, <2>3, BtIsCallers
  <2>5. Len(bt) - 1 = d
    BY <2>4
  <2>6. DOMAIN stack = 1..Len(stack)
    BY <2>2, <2>3, ShapeBounds
  <2>7. e \in [1..(Len(bt) - 1) -> DOMAIN stack] /\ DOMAIN e = 1..d
    BY <2>4, <2>5, <2>6 DEF Lists
  <2>. QED BY <2>4, <2>6, <2>7 DEF Lists, IsReady
<1>2. UntilPanic /\ WalkInv /\ WalkedAll /\ UntilEnd => BtShowsCallers
  BY <1>1
<1>. QED BY <1>2, InspectInvariant, WalkInvariant, WalkedAllInvariant, StackInvariant, PTL

-----------------------------------------------------------------------------
(***************************************************************************)
(* What p shows: the header of the string of the innermost activation.     *)
(***************************************************************************)

\* Where the header is, and that it can be read.
LEMMA OwnHeader ==
  ASSUME StackFits, FramesAreGo, NEW base, NEW found, NEW body, NEW floor, IsRoom(floor),
         Shape(base, found, body, floor), assigned[1].len # 0,
         NEW address, address = rsp + Frame[Control].cfa + Frame[Control].num
  PROVE  /\ Control \in body
         /\ Readable(address)
         /\ assigned[1].ptr \in Strings /\ assigned[1].len = LenOf[assigned[1].ptr]
         /\ mem[address] = assigned[1].ptr
         /\ mem[address + 1] = assigned[1].len
<1>1. PICK c \in Nat, size \in Nat, num \in Int :
        c = Frame[Control].cfa /\ size = Frame[Control].size /\ num = Frame[Control].num
  BY FrameType DEF Shape, FrameTyped
<1>2. PICK b \in Nat, t \in Nat : b = base[1] /\ t = Top /\ b <= t /\ b = rsp + c /\ rsp \in Nat
  <2>1. 1 \in Activations
    BY ShapeBounds DEF Activations
  <2>. QED BY <1>1, <2>1, ShapeBounds DEF Shape, Inner
<1>3. FrameOK(Control, body, assigned[1], mem, b, found[1]) /\ Control \in Inst
  BY <1>2 DEF Shape, Inner, FrameTyped
<1>4. /\ assigned[1].ptr \in Strings /\ Control \in body /\ c # 0
      /\ -(size + 1) <= num /\ num <= -4
      /\ mem[b + num] = assigned[1].ptr
      /\ assigned[1].len = LenOf[assigned[1].ptr] /\ mem[b + num + 1] = assigned[1].len
  BY <1>1, <1>3 DEF FrameOK
<1>5. address = b + num /\ address + 1 = b + num + 1
  BY <1>1, <1>2
<1>6. PICK n \in Nat : n = Len(stack) /\ n \in 1..MaxDepth
  <2>1. stack # <<>>
    BY <1>1, <1>4 DEF Shape, Inner
  <2>2. Len(stack) # 0
    BY <2>1 DEF Shape, FrameTyped
  <2>. QED BY <2>2, ShapeBounds, CodeAssumption
<1>7. PICK low \in Nat, high \in Nat :
        low = floor[n] /\ low \in StackWords /\ high = floor[n - 1] /\ low + size < high
        /\ high <= b
  <2>1. n \in 0..MaxDepth /\ n - 1 \in 0..MaxDepth /\ 1 \in 1..Len(stack)
    BY <1>6, CodeAssumption
  <2>2. floor[n] \in StackWords /\ floor[n - 1] \in StackWords
    BY <2>1 DEF IsRoom
  <2>3. floor[n] + size < floor[n - 1]
    BY <1>1, <1>3, <1>6 DEF IsRoom
  <2>4. floor[n - 1] <= base[1]
    BY <1>6, <2>1 DEF Shape, Outer
  <2>. QED BY <1>2, <2>2, <2>3, <2>4, StackIsInterval
<1>8. /\ b + num \in Int /\ low <= b + num /\ b + num <= t
      /\ b + num + 1 \in Int /\ low <= b + num + 1 /\ b + num + 1 <= t
  BY <1>2, <1>4, <1>7
<1>9. b + num \in StackWords /\ b + num + 1 \in StackWords
  BY <1>2, <1>7, <1>8, StackIsInterval
<1>. QED BY <1>4, <1>5, <1>9 DEF Readable

\* At most one function is found for an address.
LEMMA OneFunction ==
  ASSUME WalkInv, NEW a, NEW f \in findFunctionIncludePc(a), NEW g \in findFunctionIncludePc(a)
  PROVE  f = g
<1>1. DOMAIN Functions = 1..Len(Functions) /\ Len(Functions) \in Nat
  BY InfoType DEF WalkInv
<1>2. ~(f < g) /\ ~(g < f) /\ f \in Nat /\ g \in Nat
  BY <1>1 DEF findFunctionIncludePc
<1>. QED BY <1>2

\* Of a function's variables with the name of one in the frame, those not elsewhere are it.
LEMMA NameDecides ==
  ASSUME StringsAreLocal, WalkInv, WalkedAll, analysis = "done",
         NEW v \in 1..Len(info), info[v].tag = "variable", info[v].location = "fbreg",
         NEW f \in DOMAIN Functions, Functions[f].entry = info[v].owner
  PROVE  LET held == Functions[f].variables
             met == {k \in DOMAIN held : /\ info[held[k]].name = info[v].name
                                          /\ info[held[k]].location # "other"}
         IN  met # {} /\ held[Min(met)] = v
<1> PICK variables : variables = Functions[f].variables
  OBVIOUS
<1> PICK hits : hits = {k \in DOMAIN variables :
                          /\ info[variables[k]].name = info[v].name
                          /\ info[variables[k]].location # "other"}
  OBVIOUS
<1>1. /\ info \in DebugInfos /\ DOMAIN info = 1..Len(info) /\ at = Len(info)
      /\ variables \in Seq(DOMAIN info) /\ DOMAIN variables \subseteq Nat
  <2>1. info \in DebugInfos /\ DOMAIN info = 1..Len(info) /\ at = Len(info)
    BY InfoType DEF WalkInv, WalkTypeOK, WalkedAll
  <2>2. Functions[f].variables \in Seq(DOMAIN info)
    BY InfoType DEF WalkInv
  <2>3. PICK D : D = DOMAIN info /\ variables \in Seq(D)
    BY <2>2
  <2>4. DOMAIN variables = 1..Len(variables)
    BY <2>3
  <2>. QED BY <2>1, <2>2, <2>4
<1>2. \A w \in DOMAIN info : info[w].tag = "variable" /\ info[w].location # "other" =>
        info[w].owner # 0
  BY <1>1 DEF StringsAreLocal
<1>3. ASSUME NEW w \in DOMAIN info, info[w].tag = "variable", info[w].location # "other",
             info[w].owner = info[v].owner, info[w].name = info[v].name
      PROVE  w = v
  <2> DEFINE S == {x \in DOMAIN info : info[x].tag = "variable" /\ info[x].location # "other"}
  <2>1. \A x \in S : info[x].location = "fbreg" =>
          \A y \in S : info[y].owner = info[x].owner /\ info[y].name = info[x].name => y = x
    BY <1>1 DEF StringsAreLocal
  <2>2. v \in S /\ w \in S
    BY <1>1, <1>3
  <2> HIDE DEF S
  <2>. QED BY <1>3, <2>1, <2>2
<1>4. ASSUME NEW w \in DOMAIN info, info[w].tag = "variable", info[w].owner # 0
      PROVE  (\E k \in DOMAIN variables : variables[k] = w) <=> info[v].owner = info[w].owner
  <2>1. w \in 1..at
    BY <1>1
  <2>2. (\E k \in DOMAIN Functions[f].variables : Functions[f].variables[k] = w)
           <=> Functions[f].entry = info[w].owner
    BY <1>4, <2>1 DEF WalkInv, VariablesAreOwn
  <2>. QED BY <2>2
<1>5. PICK k \in DOMAIN variables : variables[k] = v
  <2>1. v \in DOMAIN info /\ info[v].owner # 0
    BY <1>1, <1>2
  <2>. QED BY <1>4, <2>1
<1>6. k \in hits
  BY <1>5
<1>7. ASSUME NEW j \in hits
      PROVE  variables[j] = v
  <2>1. PICK w : w = variables[j]
    OBVIOUS
  <2>2. j \in DOMAIN variables /\ w \in DOMAIN info /\ info[w].name = info[v].name
        /\ info[w].location # "other"
    BY <1>1, <2>1
  <2>3. info[w].tag = "variable"
    BY <2>1, <2>2 DEF WalkInv, VariablesAreMet
  <2>4. info[v].owner = info[w].owner
    BY <1>2, <1>4, <2>1, <2>2, <2>3
  <2>. QED BY <1>3, <2>1, <2>2, <2>3, <2>4
<1>8. Min(hits) \in hits
  <2>1. hits \in SUBSET Nat
    BY <1>1
  <2>2. PICK least \in hits : \A y \in hits : least <= y
    BY <1>6, <2>1, LeastNumber
  <2>3. Min(hits) = least
    BY <2>1, <2>2, LeastIsMin
  <2>. QED BY <2>3
<1>. QED BY <1>6, <1>7, <1>8

\* What p shows: the innermost activation's string.
LEMMA PrintsIt ==
  ASSUME StackFits, FramesAreGo, StringsAreLocal, StringsAreShort,
         NEW base, NEW found, NEW body, NEW floor, IsRoom(floor), Shape(base, found, body, floor),
         IsCovered(body), WalkInv, WalkedAll, analysis = "done", AdjustedPc = Control,
         assigned[1].len # 0,
         NEW v \in 1..Len(info), info[v].tag = "variable", info[v].location = "fbreg",
         NEW f \in findFunctionIncludePc(Control), Functions[f].entry = info[v].owner
  PROVE  print(info[v].name) =
           [outcome |-> "string", addr |-> assigned[1].ptr, len |-> assigned[1].len]
<1>1. Control \in Inst
  BY DEF Shape, FrameTyped
<1>2. PICK fs : fs = findFunctionIncludePc(Control) /\ fs # {}
                /\ (CHOOSE g \in fs : TRUE) = f
  <2>1. (CHOOSE g \in findFunctionIncludePc(Control) : TRUE) \in findFunctionIncludePc(Control)
    OBVIOUS
  <2>. QED BY <2>1, OneFunction
<1>3. f \in DOMAIN Functions
  BY DEF findFunctionIncludePc
<1>4. PICK variables : variables = Functions[f].variables
  OBVIOUS
<1>5. PICK hits : hits = {k \in DOMAIN variables :
                            /\ info[variables[k]].name = info[v].name
                            /\ info[variables[k]].location # "other"}
  OBVIOUS
<1>6. hits # {} /\ variables[Min(hits)] = v
  <2>1. LET held == Functions[f].variables
            met == {k \in DOMAIN held : /\ info[held[k]].name = info[v].name
                                         /\ info[held[k]].location # "other"}
        IN  met # {} /\ held[Min(met)] = v
    BY <1>3, NameDecides
  <2>. QED BY <1>4, <1>5, <2>1
<1>7. info[v].num = Frame[Control].num
  <2>1. info \in DebugInfos /\ DOMAIN info = 1..Len(info)
    BY InfoType DEF WalkInv, WalkTypeOK
  <2>2. LET e == info[info[v].owner] IN e.lowpc <= Control /\ Control < e.highpc
    BY DEF findFunctionIncludePc
  <2>. QED BY <1>1, <2>1, <2>2 DEF StringsAreLocal
<1>8. PICK address : address = rsp + Frame[Control].cfa + Frame[Control].num
  OBVIOUS
<1>9. /\ Control \in body
      /\ Readable(address)
      /\ assigned[1].ptr \in Strings /\ assigned[1].len = LenOf[assigned[1].ptr]
      /\ mem[address] = assigned[1].ptr
      /\ mem[address + 1] = assigned[1].len
  BY <1>8, OwnHeader
<1>10. Cardinality(Covering(Control)) = 1
  BY <1>9 DEF IsCovered
<1>11. readString(address) =
         [outcome |-> "string", addr |-> assigned[1].ptr, len |-> assigned[1].len]
  <2>1. PICK ptr \in Nat \ {0}, len \in Nat \ {0} :
          /\ ptr = assigned[1].ptr /\ len = assigned[1].len
          /\ ptr \in Strings /\ len <= MaxAlloc /\ len < SignBit
    BY <1>9, InspectAssumption DEF StringsAreShort
  <2>2. mem[address] = ptr /\ mem[address + 1] = len
    BY <1>9, <2>1
  <2>3. ~(len > MaxAlloc) /\ ~(len >= SignBit) /\ ptr # 0 /\ ptr \in Mapped
    BY <2>1, InspectAssumption DEF Mapped
  <2>. QED BY <1>9, <2>1, <2>2, <2>3 DEF readString
<1>12. FrameBase(Control) + info[v].num = address
  BY <1>7, <1>8 DEF FrameBase
<1>13. print(info[v].name) = readString(FrameBase(Control) + info[v].num)
  <2>1. info[v].location # "none"
    OBVIOUS
  <2> DEFINE vs == Functions[CHOOSE g \in findFunctionIncludePc(Control) : TRUE].variables
             H == {k \in DOMAIN vs : /\ info[vs[k]].name = info[v].name
                                     /\ info[vs[k]].location # "other"}
             decides == info[vs[Min(H)]]
  <2>2. print(info[v].name) =
          IF Cardinality(Covering(Control)) # 1 \/ findFunctionIncludePc(Control) = {}
          THEN Result("refused")
          ELSE CASE H = {}                                    -> Result("nothing")
                 [] H # {} /\ decides.location = "none"       -> Result("crash")
                 [] H # {} /\ decides.location # "none"       ->
                      readString(FrameBase(Control) + decides.num)
    BY DEF print
  <2>3. vs = variables
    BY <1>2, <1>4
  <2>4. H = hits
    BY <1>5, <2>3
  <2>5. H # {} /\ decides = info[v]
    BY <1>6, <2>3, <2>4
  <2>6. findFunctionIncludePc(Control) # {}
    BY <1>2
  <2> HIDE DEF H, decides
  <2>. QED BY <1>10, <2>1, <2>2, <2>5, <2>6
<1>. QED BY <1>11, <1>12, <1>13

\* Once a function has assigned its string p shows that string and no other: the CFA of the
\* row at the instruction before an INT3, the offset of the variable met under this
\* function, and the two words in their order; other activations of the function, callers
\* or callees, do not change what is found there (findFrameInformation, parseLoc and print).
THEOREM StringPrinted ==
  ASSUME BreakableIsLong, FramesAreGo, StackFits,
         StringsAreLocal, StringsAreCovered, StringsAreShort
  PROVE  InspectSpec => []PrintsOwnString
<1>1. ASSUME UntilPanic, WalkInv, WalkedAll, UntilEnd
      PROVE  PrintsOwnString
  <2> SUFFICES ASSUME Inspects PROVE PrintsOwnString
    BY DEF PrintsOwnString
  <2>1. StackOK /\ analysis = "done" /\ AdjustedPc = Control
    BY <1>1, AtInspection
  <2>2. PICK body, floor : IsRoom(floor) /\ StackInv(body, floor) /\ IsCovered(body)
    BY <2>1 DEF StackOK
  <2>3. PICK base, found : Shape(base, found, body, floor)
    BY <2>2 DEF StackInv
  <2>4. ASSUME assigned[1].len # 0,
               NEW v \in 1..Len(info), info[v].tag = "variable", info[v].location = "fbreg",
               \E f \in findFunctionIncludePc(Control) : Functions[f].entry = info[v].owner
        PROVE  print(info[v].name) =
                 [outcome |-> "string", addr |-> assigned[1].ptr, len |-> assigned[1].len]
    BY <1>1, <2>1, <2>2, <2>3, <2>4, PrintsIt
  <2>. QED BY <2>4 DEF PrintsOwnString
<1>2. UntilPanic /\ WalkInv /\ WalkedAll /\ UntilEnd => PrintsOwnString
  BY <1>1
<1>. QED BY <1>2, InspectInvariant, WalkInvariant, WalkedAllInvariant, StackInvariant, PTL
=============================================================================
