--------------------------- MODULE InspectProofs ---------------------------
(***************************************************************************)
(* For every executable: the walk over its entries gives each variable to  *)
(* its own function, disass decodes the program's bytes and no INT3, and   *)
(* bl numbers every breakpoint once, whatever the commands before have     *)
(* done.                                                                   *)
(***************************************************************************)
EXTENDS Inspect, ExecutorProofs, SequenceTheorems, DataInduction

-----------------------------------------------------------------------------
(***************************************************************************)
(* The walk.                                                               *)
(***************************************************************************)

FunctionRecord == [entry : DOMAIN info, variables : Seq(DOMAIN info)]

WalkTypeOK ==
  /\ info \in DebugInfos
  /\ at \in 0..Len(info)
  /\ Functions \in Seq(FunctionRecord)

\* The functions met, in the order of their entries, and no others.
FunctionsAreMet ==
  /\ \A i \in DOMAIN Functions :
       Functions[i].entry <= at /\ info[Functions[i].entry].tag = "subprogram"
  /\ \A i, j \in DOMAIN Functions : i < j => Functions[i].entry < Functions[j].entry
  /\ \A e \in 1..at : info[e].tag = "subprogram" => \E i \in DOMAIN Functions : Functions[i].entry = e

Holds(i, v) == \E k \in DOMAIN Functions[i].variables : Functions[i].variables[k] = v

\* The variables held have been met.
VariablesAreMet ==
  \A i \in DOMAIN Functions : \A k \in DOMAIN Functions[i].variables :
    /\ Functions[i].variables[k] <= at
    /\ info[Functions[i].variables[k]].tag = "variable"

WalkInv == WalkTypeOK /\ FunctionsAreMet /\ VariablesAreMet /\ VariablesAreOwn

\* The section is a sequence of entries.
LEMMA InfoType ==
  ASSUME WalkTypeOK
  PROVE  /\ info \in Seq(DebugEntry) /\ WellNested(info)
         /\ Len(info) \in Nat /\ DOMAIN info = 1..Len(info)
         /\ \A i \in DOMAIN info : info[i].owner \in Nat
         /\ Len(Functions) \in Nat /\ DOMAIN Functions = 1..Len(Functions)
         /\ \A i \in DOMAIN Functions :
              /\ Functions[i].entry \in DOMAIN info /\ Functions[i].entry \in Nat
              /\ Functions[i].variables \in Seq(DOMAIN info)
              /\ \A k \in DOMAIN Functions[i].variables : Functions[i].variables[k] \in Nat
<1>1. info \in Seq(DebugEntry) /\ WellNested(info)
  BY InfoAssumption DEF WalkTypeOK
<1>2. \A i \in DOMAIN info : info[i] \in DebugEntry
  <2> HIDE DEF DebugEntry
  <2>. QED BY <1>1
<1>3. \A i \in DOMAIN info : info[i].owner \in Nat
  BY <1>2 DEF DebugEntry
<1>4. \A i \in DOMAIN Functions : Functions[i] \in FunctionRecord
  BY DEF WalkTypeOK
<1>5. Len(info) \in Nat /\ DOMAIN info = 1..Len(info)
  <2> HIDE DEF DebugEntry
  <2>. QED BY <1>1
<1>6. Len(Functions) \in Nat /\ DOMAIN Functions = 1..Len(Functions)
  <2> HIDE DEF FunctionRecord
  <2>. QED BY DEF WalkTypeOK
<1>7. ASSUME NEW i \in DOMAIN Functions
      PROVE  /\ Functions[i].entry \in DOMAIN info /\ Functions[i].entry \in Nat
             /\ Functions[i].variables \in Seq(DOMAIN info)
             /\ \A k \in DOMAIN Functions[i].variables : Functions[i].variables[k] \in Nat
  <2>1. PICK D : D = DOMAIN info /\ D \subseteq Nat
    BY <1>5
  <2>2. Functions[i].entry \in D /\ Functions[i].variables \in Seq(D)
    BY <1>4, <2>1 DEF FunctionRecord
  <2>3. PICK variables \in Seq(D) : variables = Functions[i].variables
    BY <2>2
  <2>4. \A k \in DOMAIN variables : variables[k] \in D
    OBVIOUS
  <2>. QED BY <2>1, <2>2, <2>3, <2>4
<1>. QED BY <1>1, <1>3, <1>5, <1>6, <1>7

\* An owner comes before what it owns, and no function comes between the two.
LEMMA OwnerBefore ==
  ASSUME WalkTypeOK, NEW v \in 1..Len(info), info[v].owner # 0
  PROVE  /\ info[v].owner \in Nat /\ info[v].owner < v /\ v \in Nat
         /\ info[info[v].owner].tag = "subprogram"
         /\ \A j \in (info[v].owner + 1)..v : info[j].tag # "subprogram"
<1>1. v \in DOMAIN info /\ WellNested(info) /\ info[v].owner \in Nat /\ v \in Nat
  BY InfoType
<1>. QED BY <1>1 DEF WellNested

LEMMA WalkInitInv == InfoInit => WalkInv
<1> SUFFICES ASSUME InfoInit PROVE WalkInv
  OBVIOUS
<1>1. info \in Seq(DebugEntry)
  BY InfoAssumption DEF InfoInit
<1>2. Len(info) \in Nat
  <2> HIDE DEF DebugEntry
  <2>. QED BY <1>1
<1>3. Functions = <<>> /\ at = 0 /\ info \in DebugInfos
  BY DEF InfoInit
<1>. QED
  BY <1>2, <1>3 DEF WalkInv, WalkTypeOK, FunctionsAreMet, VariablesAreMet, VariablesAreOwn

\* A step that leaves the functions alone passes at most one entry, of another kind.
LEMMA WalkPasses ==
  ASSUME WalkInv, UNCHANGED <<info, Functions>>,
         \/ at' = at
         \/ /\ at' = at + 1 /\ at < Len(info)
            /\ info[at + 1].tag \notin {"subprogram", "variable"}
  PROVE  WalkInv'
<1>1. at \in Nat /\ at' \in 0..Len(info)
  BY InfoType DEF WalkInv, WalkTypeOK
<1>2. \A v \in 1..at' : info[v].tag \in {"subprogram", "variable"} => v \in 1..at
  BY <1>1
<1>3. WalkTypeOK'
  BY <1>1 DEF WalkInv, WalkTypeOK, FunctionRecord
<1>4. FunctionsAreMet' /\ VariablesAreMet'
  <2>1. /\ \A i \in DOMAIN Functions : Functions[i].entry \in Nat
        /\ \A i \in DOMAIN Functions : \A k \in DOMAIN Functions[i].variables :
             Functions[i].variables[k] \in Nat
    BY InfoType DEF WalkInv
  <2>2. \A x \in Nat : x <= at => x <= at'
    BY <1>1
  <2>3. FunctionsAreMet'
    BY <1>2, <2>1, <2>2 DEF WalkInv, FunctionsAreMet
  <2>4. VariablesAreMet'
    BY <2>1, <2>2 DEF WalkInv, VariablesAreMet
  <2>. QED BY <2>3, <2>4
<1>5. VariablesAreOwn'
  BY <1>2 DEF WalkInv, VariablesAreOwn
<1>. QED BY <1>3, <1>4, <1>5 DEF WalkInv

\* The owner property in terms of Holds.
LEMMA OwnForm ==
  VariablesAreOwn <=>
    \A v \in 1..at : info[v].tag = "variable" /\ info[v].owner # 0 =>
      \A i \in DOMAIN Functions : Holds(i, v) <=> Functions[i].entry = info[v].owner
BY DEF VariablesAreOwn, Holds

LEMMA WalkMeetsFunction ==
  ASSUME WalkInv, walkSubprogram, CompileUnits # <<>>
  PROVE  WalkInv'
<1> DEFINE f == [entry |-> at + 1, variables |-> <<>>]
           n == Len(Functions)
<1>1. /\ info' = info /\ at' = at + 1 /\ at + 1 \in 1..Len(info)
      /\ info[at + 1].tag = "subprogram" /\ Functions' = Append(Functions, f)
  BY InfoType DEF walkSubprogram, Yields, WalkInv, WalkTypeOK
<1>2. at \in Nat /\ n \in Nat /\ DOMAIN Functions = 1..n
  BY InfoType DEF WalkInv, WalkTypeOK
<1>3. f \in FunctionRecord
  BY <1>1, InfoType DEF WalkInv, FunctionRecord
<1>4. Functions' \in Seq(FunctionRecord)
  <2> HIDE DEF f, FunctionRecord
  <2>. QED BY <1>1, <1>3 DEF WalkInv, WalkTypeOK
<1>5. /\ DOMAIN Functions' = 1..(n + 1)
      /\ \A i \in 1..n : Functions'[i] = Functions[i]
      /\ Functions'[n + 1] = f
  <2> HIDE DEF f, FunctionRecord
  <2>. QED BY <1>1, <1>2 DEF WalkInv, WalkTypeOK
<1>6. WalkTypeOK'
  <2>1. FunctionRecord' = FunctionRecord
    BY <1>1 DEF FunctionRecord
  <2>. QED BY <1>1, <1>4, <2>1, InfoType DEF WalkInv, WalkTypeOK
<1>7. f.entry = at + 1 /\ DOMAIN f.variables = {}
  OBVIOUS
<1> HIDE DEF f, n
<1>8. \A i \in 1..(n + 1) : i \in 1..n \/ i = n + 1
  BY <1>2
<1>9. \A i \in 1..n : Functions[i].entry <= at /\ Functions[i].entry \in Int
  BY <1>2, InfoType DEF WalkInv, FunctionsAreMet
<1>10. FunctionsAreMet'
  <2>1. \A i \in DOMAIN Functions' :
          Functions'[i].entry <= at' /\ info'[Functions'[i].entry].tag = "subprogram"
    BY <1>1, <1>2, <1>5, <1>7, <1>8, <1>9 DEF WalkInv, FunctionsAreMet
  <2>2. ASSUME NEW i \in DOMAIN Functions', NEW j \in DOMAIN Functions', i < j
        PROVE  Functions'[i].entry < Functions'[j].entry
    <3>1. i \in 1..n /\ Functions'[i] = Functions[i]
      BY <1>2, <1>5, <2>2
    <3>2. CASE j \in 1..n
      BY <1>2, <1>5, <2>2, <3>1, <3>2 DEF WalkInv, FunctionsAreMet
    <3>3. CASE j = n + 1
      <4>1. PICK e \in Int : e = Functions[i].entry /\ e <= at
        BY <1>9, <3>1
      <4>2. e < at + 1
        BY <1>2, <4>1
      <4>. QED BY <1>5, <1>7, <3>1, <3>3, <4>1, <4>2
    <3>. QED BY <1>5, <1>8, <3>2, <3>3
  <2>3. \A e \in 1..at' : info'[e].tag = "subprogram"
          => \E i \in DOMAIN Functions' : Functions'[i].entry = e
    <3> SUFFICES ASSUME NEW e \in 1..at', info[e].tag = "subprogram"
                 PROVE  \E i \in DOMAIN Functions' : Functions'[i].entry = e
      BY <1>1
    <3>1. CASE e = at + 1
      BY <3>1, <1>2, <1>5, <1>7
    <3>2. CASE e # at + 1
      <4>1. e \in 1..at
        BY <3>2, <1>1, <1>2
      <4>2. PICK i \in 1..n : Functions[i].entry = e
        BY <4>1, <1>2 DEF WalkInv, FunctionsAreMet
      <4>. QED BY <4>2, <1>2, <1>5
    <3>. QED BY <3>1, <3>2
  <2>. QED BY <2>1, <2>2, <2>3 DEF FunctionsAreMet
<1>11. VariablesAreMet'
  <2> SUFFICES ASSUME NEW i \in DOMAIN Functions', NEW k \in DOMAIN Functions'[i].variables
               PROVE  /\ Functions'[i].variables[k] <= at'
                      /\ info'[Functions'[i].variables[k]].tag = "variable"
    BY DEF VariablesAreMet
  <2>1. i \in 1..n /\ Functions'[i] = Functions[i]
    BY <1>5, <1>7, <1>8
  <2>2. Functions[i].variables[k] \in Int
    BY <2>1, <1>2, InfoType DEF WalkInv
  <2>. QED BY <2>1, <2>2, <1>1, <1>2 DEF WalkInv, VariablesAreMet
<1>12. VariablesAreOwn'
  <2> SUFFICES ASSUME NEW v \in 1..at', info[v].tag = "variable", info[v].owner # 0,
                      NEW i \in DOMAIN Functions'
               PROVE  Holds(i, v)' <=> Functions'[i].entry = info[v].owner
    <3>1. VariablesAreOwn' <=>
            \A v \in 1..at' : info'[v].tag = "variable" /\ info'[v].owner # 0 =>
              \A i \in DOMAIN Functions' :
                Holds(i, v)' <=> Functions'[i].entry = info'[v].owner
      BY DEF VariablesAreOwn, Holds
    <3>. QED BY <1>1, <3>1
  <2>1. v \in 1..at
    BY <1>1, <1>2
  <2>2. CASE i \in 1..n
    <3>1. Holds(i, v) <=> Functions[i].entry = info[v].owner
      BY <2>1, <2>2, <1>2, OwnForm DEF WalkInv
    <3>2. Functions'[i] = Functions[i]
      BY <1>5, <2>2
    <3>3. Holds(i, v)' <=> Holds(i, v)
      BY <3>2 DEF Holds
    <3>. QED BY <3>1, <3>2, <3>3
  <2>3. CASE i = n + 1
    <3>1. info[v].owner < v
      <4>1. v \in 1..Len(info)
        BY <2>1, <1>1, <1>2, InfoType DEF WalkInv
      <4>. QED BY <4>1, OwnerBefore DEF WalkInv
    <3>2. info[v].owner # at + 1
      BY <2>1, <3>1, <1>1, <1>2, InfoType DEF WalkInv
    <3>3. ~Holds(i, v)'
      BY <2>3, <1>5, <1>7 DEF Holds
    <3>. QED BY <2>3, <3>2, <3>3, <1>5, <1>7
  <2>. QED BY <2>2, <2>3, <1>5, <1>8
<1>. QED BY <1>6, <1>10, <1>11, <1>12 DEF WalkInv

\* The function met last is the owner of a variable that has one: nothing between the two
\* in the preorder is a function.
LEMMA LastOwns ==
  ASSUME WalkInv, Yields("variable"), info[at + 1].owner # 0
  PROVE  \A i \in DOMAIN Functions :
           Functions[i].entry = info[at + 1].owner <=> i = LastFunction
<1>0. PICK o : o = info[at + 1].owner
  OBVIOUS
<1>1. PICK n \in Nat : n = Len(Functions)
  BY InfoType DEF WalkInv
<1>2. at \in Nat /\ at + 1 \in DOMAIN info /\ DOMAIN Functions = 1..n
  BY <1>1, InfoType DEF Yields, WalkInv, WalkTypeOK
<1>3. PICK e : e = [j \in 1..n |-> Functions[j].entry]
  OBVIOUS
<1>4. /\ \A j \in 1..n : e[j] = Functions[j].entry /\ e[j] \in Nat
      /\ \A j \in 1..n : e[j] <= at /\ info[e[j]].tag = "subprogram"
      /\ \A j, k \in 1..n : j < k => e[j] < e[k]
      /\ \A x \in 1..at : info[x].tag = "subprogram" => \E j \in 1..n : e[j] = x
  <2>1. \A j \in 1..n : e[j] = Functions[j].entry
    BY <1>3
  <2>2. \A j \in 1..n : e[j] \in Nat
    BY <1>2, <2>1, InfoType DEF WalkInv
  <2>3. /\ \A j \in 1..n : e[j] <= at /\ info[e[j]].tag = "subprogram"
        /\ \A j, k \in 1..n : j < k => e[j] < e[k]
        /\ \A x \in 1..at : info[x].tag = "subprogram" => \E j \in 1..n : e[j] = x
    BY <1>2, <2>1 DEF WalkInv, FunctionsAreMet
  <2>. QED BY <2>1, <2>2, <2>3
<1>5. /\ o \in Nat /\ o < at + 1 /\ info[o].tag = "subprogram"
      /\ \A j \in (o + 1)..(at + 1) : info[j].tag # "subprogram"
  <2>1. at + 1 \in 1..Len(info)
    BY <1>2, InfoType DEF WalkInv
  <2>2. PICK v \in 1..Len(info) : v = at + 1 /\ o = info[v].owner /\ o # 0
    BY <1>0, <2>1
  <2>3. /\ o \in Nat /\ o < v /\ info[o].tag = "subprogram"
        /\ \A j \in (o + 1)..v : info[j].tag # "subprogram"
    BY <2>2, OwnerBefore DEF WalkInv
  <2>. QED BY <2>2, <2>3
<1>6. PICK i \in 1..n : e[i] = o
  <2>1. o \in 1..at
    BY <1>0, <1>2, <1>5
  <2>. QED BY <1>4, <1>5, <2>1
<1>7. \A j \in 1..n : e[j] <= o
  <2> TAKE j \in 1..n
  <2>1. PICK x \in Nat : x = e[j] /\ x <= at /\ info[x].tag = "subprogram"
    BY <1>4
  <2>2. x \notin (o + 1)..(at + 1)
    BY <1>5, <2>1
  <2>3. x <= o
    BY <1>2, <1>5, <2>1, <2>2
  <2>. QED BY <2>1, <2>3
<1>8. i = n
  <2>1. n \in 1..n /\ (i < n \/ i = n)
    OBVIOUS
  <2>2. CASE i < n
    <3>1. o < e[n] /\ e[n] <= o /\ e[n] \in Nat
      BY <1>4, <1>6, <1>7, <2>1, <2>2
    <3>. QED BY <1>5, <3>1
  <2>. QED BY <2>1, <2>2
<1>9. ASSUME NEW j \in 1..n
      PROVE  e[j] = o <=> j = n
  <2>1. CASE j = n
    BY <1>6, <1>8, <2>1
  <2>2. CASE j # n
    <3>1. j < n
      BY <2>2
    <3>2. e[j] < o /\ e[j] \in Nat
      BY <1>4, <1>6, <1>8, <3>1
    <3>. QED BY <1>5, <2>2, <3>2
  <2>. QED BY <2>1, <2>2
<1>. QED BY <1>0, <1>1, <1>2, <1>4, <1>9 DEF LastFunction

LEMMA WalkMeetsVariable ==
  ASSUME WalkInv, walkVariable, Functions # <<>>
  PROVE  WalkInv'
<1>0. PICK n \in Nat : n = Len(Functions)
  BY InfoType DEF WalkInv
<1> DEFINE old == Functions[n].variables
           new == Append(old, at + 1)
<1>1. /\ info' = info /\ at' = at + 1 /\ at + 1 \in DOMAIN info
      /\ info[at + 1].tag = "variable" /\ Yields("variable")
      /\ Functions' = [Functions EXCEPT ![n].variables = new]
  BY <1>0, InfoType DEF walkVariable, Yields, WalkInv, WalkTypeOK, LastFunction
<1>2. at \in Nat /\ n \in Nat \ {0} /\ DOMAIN Functions = 1..n
  BY <1>0, InfoType DEF WalkInv, WalkTypeOK
<1>3. old \in Seq(DOMAIN info)
  BY <1>2, InfoType DEF WalkInv
<1>4. /\ new \in Seq(DOMAIN info) /\ Len(old) \in Nat
      /\ DOMAIN old = 1..Len(old) /\ DOMAIN new = 1..(Len(old) + 1)
      /\ \A k \in 1..Len(old) : new[k] = old[k]
      /\ new[Len(old) + 1] = at + 1
  BY <1>1, <1>3
<1>5. /\ DOMAIN Functions' = 1..n
      /\ \A i \in 1..n : Functions'[i].entry = Functions[i].entry
      /\ \A i \in 1..n : i # n => Functions'[i] = Functions[i]
      /\ Functions'[n].variables = new
      /\ Functions'[n] = [Functions[n] EXCEPT !.variables = new]
  <2> HIDE DEF new
  <2>1. \A i \in 1..n : Functions[i] \in FunctionRecord
    BY <1>2 DEF WalkInv, WalkTypeOK
  <2>. QED BY <1>1, <1>2, <2>1 DEF FunctionRecord
<1>6. Functions' \in Seq(FunctionRecord)
  <2>1. \A i \in 1..n : Functions'[i] \in FunctionRecord
    <3> HIDE DEF new
    <3>1. \A i \in 1..n : Functions[i] \in FunctionRecord
      BY <1>2 DEF WalkInv, WalkTypeOK
    <3>. QED BY <1>2, <1>4, <1>5, <3>1 DEF FunctionRecord
  <2> HIDE DEF FunctionRecord, new
  <2>2. Functions' = [i \in 1..n |-> Functions'[i]]
    BY <1>1, <1>2 DEF WalkInv, WalkTypeOK
  <2>. QED BY <2>1, <2>2, <1>2
<1>7. WalkTypeOK'
  <2>1. FunctionRecord' = FunctionRecord
    BY <1>1 DEF FunctionRecord
  <2>. QED BY <1>1, <1>2, <1>6, <2>1, InfoType DEF WalkInv, WalkTypeOK
<1> HIDE DEF old, new
<1>8. FunctionsAreMet'
  <2>1. \A e \in 1..at' : info[e].tag = "subprogram" => e \in 1..at
    BY <1>1, <1>2
  <2>2. \A i \in 1..n : Functions[i].entry <= at'
    BY <1>1, <1>2, InfoType DEF WalkInv, FunctionsAreMet
  <2>. QED BY <1>1, <1>2, <1>5, <2>1, <2>2 DEF WalkInv, FunctionsAreMet
<1>9. \A i \in 1..n : \A v : Holds(i, v)' <=> Holds(i, v) \/ (i = n /\ v = at + 1)
  <2>1. \A i \in 1..n : i # n => \A v : Holds(i, v)' <=> Holds(i, v)
    BY <1>5 DEF Holds
  <2>2. \A v : Holds(n, v) <=> \E k \in 1..Len(old) : old[k] = v
    BY <1>4 DEF Holds, old
  <2>3. \A v : Holds(n, v)' <=> \E k \in 1..(Len(old) + 1) : new[k] = v
    BY <1>2, <1>4, <1>5 DEF Holds
  <2>4. 1..(Len(old) + 1) = 1..Len(old) \cup {Len(old) + 1}
    BY <1>4
  <2>5. \A v : Holds(n, v)' <=> Holds(n, v) \/ v = at + 1
    BY <2>2, <2>3, <2>4, <1>4
  <2>. QED BY <2>1, <2>5
<1>10. \A i \in 1..n : \A v : Holds(i, v) => v \in Int /\ v <= at /\ info[v].tag = "variable"
  <2> TAKE i \in 1..n
  <2> TAKE v
  <2> SUFFICES ASSUME Holds(i, v)
               PROVE  v \in Int /\ v <= at /\ info[v].tag = "variable"
    OBVIOUS
  <2>1. i \in DOMAIN Functions
    BY <1>2
  <2>2. PICK k \in DOMAIN Functions[i].variables : Functions[i].variables[k] = v
    BY DEF Holds
  <2>3. v <= at /\ info[v].tag = "variable"
    BY <2>1, <2>2 DEF WalkInv, VariablesAreMet
  <2>4. Functions[i].variables \in Seq(DOMAIN info) /\ DOMAIN info = 1..Len(info)
    BY <2>1, InfoType DEF WalkInv
  <2>5. v \in Int
    BY <2>2, <2>4
  <2>. QED BY <2>3, <2>5
<1>11. VariablesAreMet'
  <2> SUFFICES ASSUME NEW i \in 1..n, NEW k \in DOMAIN Functions'[i].variables
               PROVE  /\ Functions'[i].variables[k] <= at + 1
                      /\ info[Functions'[i].variables[k]].tag = "variable"
    BY <1>1, <1>5 DEF VariablesAreMet
  <2>1. PICK v : v = Functions'[i].variables[k]
    OBVIOUS
  <2>2. Holds(i, v)'
    BY <2>1 DEF Holds
  <2>3. Holds(i, v) \/ v = at + 1
    BY <2>2, <1>9
  <2>. QED BY <2>1, <2>3, <1>1, <1>2, <1>10
<1>12. VariablesAreOwn'
  <2> SUFFICES ASSUME NEW v \in 1..at', info[v].tag = "variable", info[v].owner # 0,
                      NEW i \in 1..n
               PROVE  Holds(i, v)' <=> Functions[i].entry = info[v].owner
    BY <1>1, <1>5 DEF VariablesAreOwn, Holds
  <2>1. CASE v = at + 1
    <3>1. ~Holds(i, v)
      BY <2>1, <1>2, <1>10
    <3>2. Functions[i].entry = info[at + 1].owner <=> i = n
      BY <2>1, <1>1, <1>2, <1>0, LastOwns DEF LastFunction
    <3>. QED BY <2>1, <3>1, <3>2, <1>9
  <2>2. CASE v # at + 1
    <3>1. v \in 1..at
      BY <2>2, <1>1, <1>2
    <3>2. Holds(i, v) <=> Functions[i].entry = info[v].owner
      BY <3>1, <1>2 DEF WalkInv, VariablesAreOwn, Holds
    <3>. QED BY <2>2, <3>2, <1>9
  <2>. QED BY <2>1, <2>2
<1>. QED BY <1>7, <1>8, <1>11, <1>12 DEF WalkInv

LEMMA WalkStep ==
  ASSUME WalkInv, [InfoNext]_infoVars
  PROVE  WalkInv'
<1>1. CASE walkFails \/ walkEnds \/ UNCHANGED infoVars
  BY <1>1, WalkPasses DEF walkFails, walkEnds, infoVars
<1>2. CASE walkCompileUnit \/ walkOther
  BY <1>2, WalkPasses DEF walkCompileUnit, walkOther, Yields
<1>3. CASE walkSubprogram
  <2>1. CASE CompileUnits = <<>>
    BY <1>3, <2>1, WalkPasses DEF walkSubprogram
  <2>. QED BY <1>3, <2>1, WalkMeetsFunction
<1>4. CASE walkVariable
  <2>1. CASE Functions = <<>>
    BY <1>4, <2>1, WalkPasses DEF walkVariable
  <2>. QED BY <1>4, <2>1, WalkMeetsVariable
<1>. QED BY <1>1, <1>2, <1>3, <1>4 DEF InfoNext

LEMMA WalkInvariant == InspectSpec => []WalkInv
<1>1. InspectInit => WalkInv
  BY WalkInitInv DEF InspectInit
<1>2. WalkInv /\ [InspectNext]_inspectVars => WalkInv'
  BY WalkStep DEF InspectNext, analyse, debug, inspectVars, infoVars
<1>. QED BY <1>1, <1>2, PTL DEF InspectSpec

\* The walk gives every variable of a function to that function and to no other, for every
\* section that is nested as the compiler nests it (ParseLineAndInfoSection), also while
\* bt, p and disass rely on it.
THEOREM VariablesFound == InspectSpec => []VariablesAreOwn
<1>1. WalkInv => VariablesAreOwn
  BY DEF WalkInv
<1>. QED BY WalkInvariant, <1>1, PTL

-----------------------------------------------------------------------------
(***************************************************************************)
(* What the commands before it have left for disass.                       *)
(***************************************************************************)

\* The panic of p lets the process go where it is.
LEMMA PrintCrashes ==
  ASSUME printCrashes
  PROVE  dbg' = "crashed" /\ stat' = "loose" /\ UNCHANGED P!progVars
BY DEF printCrashes, Released, CanPtrace, Deaths, Alive, Control, P!progVars

\* What b and bc do to the slice does not change what they are.
LEMMA ListCommandIsCommand == ListCommand => Command
<1>1. ASSUME NEW n \in DOMAIN order, clearNth(n) PROVE bclear
  BY <1>1 DEF clearNth, findBreakPoint, bclear
<1>. QED BY <1>1 DEF ListCommand, append, clearAll, bclear, Command

\* The analysis, bt, p and disass leave the executor alone, but for the crash of p.
LEMMA InspectSteps ==
  ASSUME [InspectNext]_inspectVars
  PROVE  [Next]_vars \/ printCrashes
BY ListCommandIsCommand
DEF InspectNext, inspectVars, analyse, debug, inspectExecute, inspectOther, Next, Thread

\* A process let go by p's panic may be inside an instruction, where the invariant of the
\* executor says nothing of it; godbg is not there any more.
LetGo == dbg = "crashed" /\ stat \notin Resumed

UntilPanic == IInv \/ LetGo

\* When godbg has ended, the process is not resumed, and no command goes on.
LEMMA EndIsLast ==
  ASSUME dbg \in Ended, stat \notin Resumed, [Next]_vars \/ printCrashes
  PROVE  /\ dbg' = dbg /\ stat' \notin Resumed
         /\ ~Command /\ ~Proceed /\ ~execute /\ ~printCrashes
<1>1. ~Command /\ ~Proceed /\ ~printCrashes
  BY DEF Ended, Command, SetFileLineBreakPoint, bclear, clear, restart, disassWithoutProcess,
         quit, refused, continue, step, next, printCrashes, Prompt, Proceed, continueStepped,
         continued, foundDead, stepEnded, stepArrived, stepOn, stepWaited, nextTrapped,
         NextTurn, nextInCall, nextCallDone, nextAtCall, nextUndecoded, nextOn, nextWaited,
         Looping
<1>2. ~execute
  BY DEF execute, ExecuteInst
<1>3. ASSUME threadEvent \/ environment
      PROVE  dbg' = dbg /\ stat' \notin Resumed
  BY <1>3
  DEF threadEvent, environment, ExecuteInt3, DeliverStop, DeliverSignal, Die, Deaths, Resumed
<1>4. ASSUME release
      PROVE  dbg' = dbg /\ stat' \notin Resumed
  <2>1. ASSUME NEW o \in Outcomes(pc, stack), pc \in Inst
        PROVE  o.fate \in {"alive", "exited", "killed"}
    <3>1. Op[pc] \in {"op", "call", "ret", "exit"}
      BY <2>1, CodeAssumption
    <3>. QED BY <2>1, <3>1 DEF Outcomes, Outcome
  <2>. QED
    BY <1>4, <2>1 DEF release, RunLoose, LooseInst, LooseInt3, LooseStray, Deaths, Resumed
<1>5. ASSUME UNCHANGED vars
      PROVE  dbg' = dbg /\ stat' \notin Resumed
  BY <1>5 DEF vars, traceeVars
<1>. QED BY <1>1, <1>2, <1>3, <1>4, <1>5 DEF Next, Thread

LEMMA InspectInvariant ==
  ASSUME BreakableIsLong
  PROVE  InspectSpec => []UntilPanic
<1>1. InspectInit => UntilPanic
  BY InitInv DEF InspectInit, UntilPanic
<1>2. UntilPanic /\ [InspectNext]_inspectVars => UntilPanic'
  <2> SUFFICES ASSUME UntilPanic, [InspectNext]_inspectVars PROVE UntilPanic'
    OBVIOUS
  <2>1. [Next]_vars \/ printCrashes
    BY InspectSteps
  <2>2. CASE IInv /\ [Next]_vars
    BY <2>2, InvStep DEF UntilPanic
  <2>3. CASE printCrashes
    BY <2>3, PrintCrashes DEF UntilPanic, LetGo, Resumed
  <2>4. CASE LetGo
    BY <2>1, <2>4, EndIsLast DEF UntilPanic, LetGo, Ended
  <2>. QED BY <2>1, <2>2, <2>3, <2>4 DEF UntilPanic
<1>. QED BY <1>1, <1>2, PTL DEF InspectSpec

LEMMA InvAtPrompt ==
  ASSUME UntilPanic, Prompt
  PROVE  IInv
BY DEF UntilPanic, LetGo, Prompt

\* The bytes disass decodes are those of the program, at every instruction and whatever
\* breakpoints are set, so that each instruction is decoded with its own length
\* (disassemble's copy of curbp.original over the INT3s).
DecodesProgram ==
  ShowsDisassembly => \A a \in Inst : ShownByte(a) = "code" /\ DecodedLen(a) = InstLen[a]

LEMMA CleanBytes ==
  ASSUME IInv
  PROVE  DecodesProgram
<1> SUFFICES ASSUME ShowsDisassembly, NEW a \in Inst PROVE ShownByte(a) = "code"
  BY DEF DecodesProgram, DecodedLen
<1>1. Alive /\ deferred = {}
  BY AtPrompt DEF ShowsDisassembly, CanPtrace, Alive, Deaths
<1>2. text[a] = "int3" <=> a \in Listed
  BY <1>1 DEF IInv, Consistent, PatchedIffListed
<1>3. text[a] \in {"code", "int3"}
  BY DEF IInv, TypeOK, TraceeTypeOK, Byte
<1>4. CASE a \in Listed
  <2>1. a \in PcsOf(findBreakPoint(a))
    BY <1>4 DEF Listed, PcsOf, findBreakPoint
  <2>2. PICK i \in findBreakPoint(a) : Original(findBreakPoint(a))[a] = i.original
    BY <2>1, OriginalOfEntry
  <2>. QED BY <1>4, <2>2 DEF ShownByte, findBreakPoint, IInv, Consistent, OriginalsAreCode
<1>5. CASE a \notin Listed
  BY <1>2, <1>3, <1>5 DEF ShownByte
<1>. QED BY <1>4, <1>5

\* disass decodes the program's bytes and no INT3 (disassemble, curbp.original).
THEOREM DisassDecodesProgram ==
  ASSUME BreakableIsLong
  PROVE  InspectSpec => []DecodesProgram
<1>1. UntilPanic => DecodesProgram
  BY InvAtPrompt, CleanBytes DEF DecodesProgram, ShowsDisassembly
<1>. QED BY InspectInvariant, <1>1, PTL

-----------------------------------------------------------------------------
(***************************************************************************)
(* What disass lists.  The recursion over the function's bytes gets to the *)
(* end and meets every instruction, because each is decoded with its own   *)
(* length.                                                                 *)
(***************************************************************************)

Line == [pc : Nat, byte : {"code", "misread"}, breakpoint : BOOLEAN]

LineAt(a) == [pc |-> a, byte |-> ShownByte(a), breakpoint |-> a \in Listed]

Misread(a) == [pc |-> a, byte |-> "misread", breakpoint |-> FALSE]

\* The lines from each address on.
Decoded(highpc) ==
  CHOOSE from : from = [a \in Nat |->
    IF a >= highpc THEN <<>>
    ELSE IF a \in Inst
    THEN <<[pc |-> a, byte |-> ShownByte(a), breakpoint |-> a \in Listed]>>
           \o from[a + DecodedLen(a)]
    ELSE <<[pc |-> a, byte |-> "misread", breakpoint |-> FALSE]>>]

LEMMA DisassembleIsDecoded ==
  ASSUME NEW lowpc, NEW highpc
  PROVE  disassemble(lowpc, highpc) = Decoded(highpc)[lowpc]
BY DEF disassemble, Decoded

\* How far an address is from the end of the function.
Rest(highpc) == [a \in Nat |-> IF a < highpc THEN highpc - a ELSE 0]

LEMMA RestType ==
  ASSUME NEW highpc \in Nat
  PROVE  /\ Rest(highpc) \in [Nat -> Nat]
         /\ \A a \in Nat, n \in Nat \ {0} :
              a < highpc => a + n \in Nat /\ Rest(highpc)[a + n] < Rest(highpc)[a]
BY DEF Rest

\* The recursion has a solution, so that what disass shows satisfies its equation.
LEMMA DecodedEquation ==
  ASSUME NEW highpc \in Nat,
         \A a \in Inst : ShownByte(a) = "code" /\ DecodedLen(a) = InstLen[a],
         NEW a \in Nat
  PROVE  Decoded(highpc)[a] =
           IF a >= highpc     THEN <<>>
           ELSE IF a \in Inst THEN <<LineAt(a)>> \o Decoded(highpc)[a + InstLen[a]]
                              ELSE <<Misread(a)>>
<1> DEFINE leaves == {b \in Nat : b >= highpc \/ b \notin Inst}
           base == [b \in Nat |-> IF b >= highpc THEN <<>> ELSE <<Misread(b)>>]
           behind == [b \in Nat |-> IF b \in Inst THEN b + InstLen[b] ELSE b]
           prefix == [q \in Nat \X Seq(Line) |->
                        IF q[1] \in Inst THEN <<LineAt(q[1])>> \o q[2] ELSE q[2]]
           E(from) == [b \in Nat |->
                         IF b >= highpc     THEN <<>>
                         ELSE IF b \in Inst THEN <<LineAt(b)>> \o from[b + DecodedLen(b)]
                                            ELSE <<Misread(b)>>]
<1>1. ASSUME NEW b \in Nat
      PROVE  /\ Misread(b) \in Line
             /\ b \in Inst => LineAt(b) \in Line
  <2>1. b \in Inst => ShownByte(b) = "code"
    OBVIOUS
  <2>. QED BY <2>1 DEF Misread, LineAt, Line
<1>2. \A b \in Nat : base[b] \in Seq(Line)
  <2>1. ASSUME NEW b \in Nat
        PROVE  <<Misread(b)>> \in Seq(Line) /\ <<>> \in Seq(Line)
    <3> HIDE DEF Line
    <3>. QED BY <1>1
  <2>. QED BY <2>1
<1>3. \A b \in Nat \ leaves : /\ behind[b] \in Nat /\ behind[b] = b + InstLen[b]
                              /\ Rest(highpc)[behind[b]] < Rest(highpc)[b]
  <2>1. ASSUME NEW b \in Nat \ leaves
        PROVE  b \in Inst /\ b < highpc /\ InstLen[b] \in Nat \ {0}
    BY InstNat
  <2>2. ASSUME NEW b \in Nat \ leaves
        PROVE  b + InstLen[b] \in Nat /\ Rest(highpc)[b + InstLen[b]] < Rest(highpc)[b]
    BY <2>1, RestType
  <2>. QED BY <2>1, <2>2
<1>4. prefix \in [Nat \X Seq(Line) -> Seq(Line)]
  <2>1. ASSUME NEW b \in Nat, NEW t \in Seq(Line)
        PROVE  (IF b \in Inst THEN <<LineAt(b)>> \o t ELSE t) \in Seq(Line)
    <3> HIDE DEF Line
    <3>. QED BY <1>1
  <2> HIDE DEF Line
  <2>. QED BY <2>1
<1>5. PICK g \in [Nat -> Seq(Line)] : Recursive(g, Nat, leaves, base, behind, prefix)
  <2> HIDE DEF leaves, base, behind, prefix
  <2>. QED BY RestType, <1>2, <1>3, <1>4, RecursionExists
<1>6. ASSUME NEW b \in Nat
      PROVE  g[b] = E(g)[b]
  <2>1. g[b] = IF b \in leaves THEN base[b] ELSE prefix[<<b, g[behind[b]]>>]
    <3> HIDE DEF leaves, base, behind, prefix
    <3>. QED BY <1>5 DEF Recursive
  <2>2. CASE b \in leaves
    <3>1. g[b] = base[b]
      <4> HIDE DEF leaves, base
      <4>. QED BY <2>1, <2>2
    <3>2. base[b] = E(g)[b]
      <4>1. b >= highpc \/ b \notin Inst
        BY <2>2
      <4>. QED BY <4>1
    <3>. QED BY <3>1, <3>2
  <2>3. CASE b \notin leaves
    <3>1. b \in Inst /\ b < highpc /\ DecodedLen(b) = InstLen[b]
      BY <2>3
    <3>2. behind[b] \in Nat /\ behind[b] = b + InstLen[b]
      BY <1>3, <2>3
    <3>3. g[behind[b]] \in Seq(Line)
      BY <1>5, <3>2
    <3>4. prefix[<<b, g[behind[b]]>>] = <<LineAt(b)>> \o g[behind[b]]
      BY <3>1, <3>3
    <3>. QED BY <2>1, <2>3, <3>1, <3>2, <3>4
  <2>. QED BY <2>2, <2>3
<1>7. g = E(g)
  BY <1>5, <1>6
<1>8. Decoded(highpc) = E(Decoded(highpc))
  <2>1. Decoded(highpc) = CHOOSE from : from = E(from)
    BY DEF Decoded, LineAt, Misread
  <2> HIDE DEF E
  <2>. QED BY <1>7, <2>1
<1>9. a \in Inst => DecodedLen(a) = InstLen[a]
  OBVIOUS
<1>10. Decoded(highpc)[a] = E(Decoded(highpc))[a]
  BY <1>8
<1>. QED BY <1>9, <1>10

\* The lines are those of the instructions from a on, in their order.
Covers(lines, a, highpc) ==
  /\ lines \in Seq(Line)
  /\ {lines[i].pc : i \in DOMAIN lines} = {b \in Inst : a <= b /\ b < highpc}
  /\ \A i \in DOMAIN lines : lines[i] = LineAt(lines[i].pc)
  /\ \A i, j \in DOMAIN lines : i < j => lines[i].pc < lines[j].pc

\* A line in front of those of the instructions behind.
LEMMA CoversOneMore ==
  ASSUME NEW highpc \in Nat, NEW a \in Inst, a < highpc, LineAt(a) \in Line,
         NEW lines, Covers(lines, a + InstLen[a], highpc)
  PROVE  Covers(<<LineAt(a)>> \o lines, a, highpc)
<1>0. /\ a \in Nat /\ InstLen[a] \in Nat \ {0}
      /\ Inst \subseteq Nat
      /\ \A b \in Inst : a < b => a + InstLen[a] <= b
  BY InstNat, CodeAssumption
<1>1. PICK x \in Line : x = LineAt(a)
  OBVIOUS
<1>2. x.pc = a
  BY <1>1 DEF LineAt
<1> DEFINE all == <<x>> \o lines
<1>3. /\ lines \in Seq(Line) /\ Len(lines) \in Nat /\ DOMAIN lines = 1..Len(lines)
      /\ all \in Seq(Line) /\ DOMAIN all = 1..(Len(lines) + 1)
      /\ all[1] = x
      /\ \A i \in 1..Len(lines) : all[i + 1] = lines[i]
  <2>1. lines \in Seq(Line)
    BY DEF Covers
  <2> HIDE DEF Line
  <2>. QED BY <2>1
<1>4. \A i \in DOMAIN all : i = 1 \/ (i - 1 \in DOMAIN lines /\ all[i] = lines[i - 1])
  <2> HIDE DEF all
  <2>. QED BY <1>3
<1>5. \A i \in DOMAIN lines : /\ lines[i].pc \in Inst /\ a + InstLen[a] <= lines[i].pc
                              /\ lines[i].pc < highpc /\ a < lines[i].pc
                              /\ lines[i] = LineAt(lines[i].pc)
  <2>1. \A i \in DOMAIN lines : /\ lines[i].pc \in Inst /\ a + InstLen[a] <= lines[i].pc
                                /\ lines[i].pc < highpc /\ lines[i] = LineAt(lines[i].pc)
    BY DEF Covers
  <2>2. ASSUME NEW b \in Inst, a + InstLen[a] <= b
        PROVE  a < b
    BY <1>0, <2>2
  <2>. QED BY <2>1, <2>2
<1>6. {all[i].pc : i \in DOMAIN all} = {b \in Inst : a <= b /\ b < highpc}
  <2>1. ASSUME NEW i \in DOMAIN all
        PROVE  all[i].pc \in {b \in Inst : a <= b /\ b < highpc}
    <3>1. CASE i = 1
      BY <1>0, <1>2, <1>3, <3>1
    <3>2. CASE i - 1 \in DOMAIN lines /\ all[i] = lines[i - 1]
      <4>1. PICK l \in Inst : l = lines[i - 1].pc /\ a < l /\ l < highpc
        BY <1>5, <3>2
      <4> HIDE DEF all
      <4>. QED BY <1>0, <3>2, <4>1
    <3>. QED BY <1>4, <3>1, <3>2
  <2>2. ASSUME NEW b \in Inst, a <= b, b < highpc
        PROVE  \E i \in DOMAIN all : all[i].pc = b
    <3>1. CASE a = b
      BY <1>2, <1>3, <3>1
    <3>2. CASE a # b
      <4>1. a + InstLen[a] <= b
        BY <1>0, <2>2, <3>2
      <4>2. PICK i \in DOMAIN lines : lines[i].pc = b
        BY <2>2, <4>1 DEF Covers
      <4>3. i + 1 \in DOMAIN all /\ all[i + 1] = lines[i]
        BY <1>3
      <4> HIDE DEF all
      <4>. QED BY <4>2, <4>3
    <3>. QED BY <3>1, <3>2
  <2> HIDE DEF all
  <2>. QED BY <2>1, <2>2
<1>7. \A i \in DOMAIN all : all[i] = LineAt(all[i].pc)
  <2> HIDE DEF all
  <2>. QED BY <1>1, <1>2, <1>3, <1>4, <1>5
<1>8. ASSUME NEW i \in DOMAIN all, NEW j \in DOMAIN all, i < j
      PROVE  all[i].pc < all[j].pc
  <2>1. j - 1 \in DOMAIN lines /\ all[j] = lines[j - 1]
    <3>1. j # 1
      BY <1>3, <1>8
    <3>. QED BY <1>4, <3>1
  <2>2. CASE i = 1
    BY <1>2, <1>3, <1>5, <2>1, <2>2
  <2>3. CASE i - 1 \in DOMAIN lines /\ all[i] = lines[i - 1]
    <3>1. i - 1 < j - 1
      BY <1>3, <1>8
    <3>. QED BY <2>1, <2>3, <3>1 DEF Covers
  <2>. QED BY <1>4, <2>2, <2>3
<1> HIDE DEF all
<1>9. Covers(all, a, highpc)
  BY <1>3, <1>6, <1>7, <1>8 DEF Covers
<1>. QED BY <1>1, <1>9 DEF all

\* disass lists the instructions of a function, whose bytes from lowpc on are code.
LEMMA DisassembleCovers ==
  ASSUME NEW lowpc \in Inst, NEW highpc \in Nat, lowpc < highpc,
         \A a \in Inst : ShownByte(a) = "code" /\ DecodedLen(a) = InstLen[a],
         \A a \in Inst : /\ lowpc <= a /\ a < highpc /\ a + InstLen[a] < highpc
                           => a + InstLen[a] \in Inst
  PROVE  Covers(disassemble(lowpc, highpc), lowpc, highpc)
<1> DEFINE D(a) == Decoded(highpc)[a]
           T == {a \in Nat : \/ a < highpc /\ (a < lowpc \/ a \notin Inst)
                             \/ Covers(D(a), a, highpc)}
<1>0. Inst \subseteq Nat /\ lowpc \in Nat
  BY InstNat
<1>1. ASSUME NEW a \in Nat, a >= highpc
      PROVE  Covers(D(a), a, highpc)
  <2>1. D(a) = <<>>
    BY <1>1, DecodedEquation
  <2>2. ASSUME NEW b \in Inst PROVE ~(a <= b /\ b < highpc)
    BY <1>0, <1>1
  <2>3. Covers(<<>>, a, highpc)
    <3>1. DOMAIN <<>> = {} /\ <<>> \in Seq(Line)
      OBVIOUS
    <3>2. {<<>>[i].pc : i \in DOMAIN <<>>} = {}
      BY <3>1
    <3>. QED BY <2>2, <3>1, <3>2 DEF Covers
  <2>. QED BY <2>1, <2>3
<1>2. ASSUME NEW a \in Nat, \A b \in Nat : Rest(highpc)[b] < Rest(highpc)[a] => b \in T
      PROVE  a \in T
  <2> SUFFICES ASSUME a < highpc, lowpc <= a, a \in Inst
               PROVE  Covers(D(a), a, highpc)
    BY <1>0, <1>1
  <2>1. InstLen[a] \in Nat \ {0}
    BY InstNat
  <2>2. PICK b \in Nat : b = a + InstLen[a] /\ Rest(highpc)[b] < Rest(highpc)[a]
    BY <2>1, RestType
  <2>3. Covers(D(b), b, highpc)
    <3>1. CASE b >= highpc
      BY <1>1, <3>1
    <3>2. CASE b < highpc
      <4>1. b \in Inst /\ lowpc <= b
        BY <1>0, <2>1, <2>2, <3>2
      <4>2. b \in T
        BY <1>2, <2>2
      <4>. QED BY <1>0, <3>2, <4>1, <4>2
    <3>. QED BY <1>0, <3>1, <3>2
  <2>4. D(a) = <<LineAt(a)>> \o D(b)
    <3>1. ~(a >= highpc)
      BY <1>0
    <3>. QED BY <2>2, <3>1, DecodedEquation
  <2>5. LineAt(a) \in Line
    BY DEF LineAt, Line
  <2> HIDE DEF D
  <2>. QED BY <2>2, <2>3, <2>4, <2>5, CoversOneMore
<1>3. Nat \subseteq T
  <2>1. PICK m \in [Nat -> Nat] : m = Rest(highpc)
    BY RestType
  <2>2. \A a \in Nat : (\A b \in Nat : m[b] < m[a] => b \in T) => a \in T
    <3> HIDE DEF T
    <3>. QED BY <1>2, <2>1
  <2> HIDE DEF T
  <2>. QED BY <2>2, MeasureInduction
<1>4. Covers(D(lowpc), lowpc, highpc)
  <2>1. lowpc \in T
    BY <1>0, <1>3
  <2> HIDE DEF D
  <2>. QED BY <1>0, <2>1
<1>. QED BY <1>4, DisassembleIsDecoded

\* What disass shows for the function control is in.
LEMMA ListingCovers ==
  ASSUME IInv, WalkInv, FunctionsAreCode, ShowsDisassembly,
         NEW f \in findFunctionIncludePc(pc), NEW lowpc, NEW highpc,
         lowpc = info[Functions[f].entry].lowpc, highpc = info[Functions[f].entry].highpc
  PROVE  /\ lowpc \in Inst /\ highpc \in Nat /\ lowpc <= pc /\ pc < highpc
         /\ Covers(listDisassembleByPtracePc(f), lowpc, highpc)
<1>1. f \in DOMAIN Functions /\ lowpc <= pc /\ pc < highpc
  BY DEF findFunctionIncludePc
<1>2. PICK i \in DOMAIN info : i = Functions[f].entry /\ info[i].tag = "subprogram"
  BY <1>1, InfoType DEF WalkInv, FunctionsAreMet
<1>3. lowpc \in Nat /\ highpc \in Nat /\ pc \in Nat
  <2>1. info[i] \in DebugEntry
    <3>1. info \in Seq(DebugEntry)
      BY InfoType DEF WalkInv
    <3> HIDE DEF DebugEntry
    <3>. QED BY <3>1
  <2>. QED BY <1>2, <2>1 DEF DebugEntry, IInv, TypeOK, TraceeTypeOK
<1>4. lowpc < highpc
  BY <1>1, <1>3
<1>5. /\ lowpc \in Inst
      /\ \A a \in Inst :
           /\ lowpc <= a /\ a < highpc
           /\ lowpc <= a + InstLen[a] /\ a + InstLen[a] < highpc
           => a + InstLen[a] \in Inst
  BY <1>2, <1>4 DEF FunctionsAreCode, WalkInv, WalkTypeOK
<1>6. ASSUME NEW a \in Inst, lowpc <= a, a < highpc, a + InstLen[a] < highpc
      PROVE  a + InstLen[a] \in Inst
  <2>1. lowpc <= a + InstLen[a]
    BY <1>3, <1>6, InstNat
  <2>. QED BY <1>5, <1>6, <2>1
<1>7. \A a \in Inst : ShownByte(a) = "code" /\ DecodedLen(a) = InstLen[a]
  BY CleanBytes DEF DecodesProgram
<1>8. Covers(disassemble(lowpc, highpc), lowpc, highpc)
  BY <1>3, <1>4, <1>5, <1>6, <1>7, DisassembleCovers
<1>. QED BY <1>1, <1>3, <1>5, <1>8 DEF listDisassembleByPtracePc

\* disass lists the whole function, each instruction as the program has it.
THEOREM DisassShowsProgram ==
  ASSUME BreakableIsLong, FunctionsAreCode
  PROVE  InspectSpec => []DisassemblyIsProgram
<1>1. ASSUME IInv, WalkInv, ShowsDisassembly, NEW f \in findFunctionIncludePc(pc),
             NEW lowpc, NEW highpc,
             lowpc = info[Functions[f].entry].lowpc,
             highpc = info[Functions[f].entry].highpc,
             NEW shown, shown = listDisassembleByPtracePc(f)
      PROVE  /\ {shown[i].pc : i \in DOMAIN shown} = {a \in Inst : lowpc <= a /\ a < highpc}
             /\ \A i \in DOMAIN shown :
                  /\ shown[i].byte = "code"
                  /\ shown[i].breakpoint = (shown[i].pc \in Listed)
                  /\ i > 1 => shown[i - 1].pc < shown[i].pc
  <2>1. Covers(shown, lowpc, highpc)
    BY <1>1, ListingCovers
  <2>2. \A a \in Inst : ShownByte(a) = "code"
    BY <1>1, CleanBytes DEF DecodesProgram
  <2>3. {shown[i].pc : i \in DOMAIN shown} = {a \in Inst : lowpc <= a /\ a < highpc}
    BY <2>1 DEF Covers
  <2>4. ASSUME NEW i \in DOMAIN shown
        PROVE  shown[i].byte = "code" /\ shown[i].breakpoint = (shown[i].pc \in Listed)
    <3>1. PICK a \in Inst : a = shown[i].pc
      BY <2>3
    <3>2. shown[i] = LineAt(a)
      BY <2>1, <3>1 DEF Covers
    <3>. QED BY <2>2, <3>1, <3>2 DEF LineAt
  <2>5. ASSUME NEW i \in DOMAIN shown, i > 1
        PROVE  shown[i - 1].pc < shown[i].pc
    <3>1. i - 1 \in DOMAIN shown /\ i - 1 < i
      <4>1. shown \in Seq(Line)
        BY <2>1 DEF Covers
      <4> HIDE DEF Line
      <4>. QED BY <2>5, <4>1
    <3>. QED BY <2>1, <3>1 DEF Covers
  <2>. QED BY <2>3, <2>4, <2>5
<1>2. UntilPanic /\ WalkInv => DisassemblyIsProgram
  BY <1>1, InvAtPrompt DEF DisassemblyIsProgram, ShowsDisassembly
<1>. QED BY InspectInvariant, WalkInvariant, <1>2, PTL

\* The arrow of disass is at the instruction executed next, where it is not the last one.
THEOREM ArrowShowsControl ==
  ASSUME BreakableIsLong, FunctionsAreCode
  PROVE  InspectSpec => []ArrowAtControl
<1>1. ASSUME IInv, WalkInv, ShowsDisassembly, NEW f \in findFunctionIncludePc(pc),
             NEW shown, shown = listDisassembleByPtracePc(f)
      PROVE  {shown[i].pc : i \in Marked(shown)} = {Control} \ {shown[Len(shown)].pc}
  <2>1. PICK lowpc \in Inst, highpc \in Nat :
          lowpc <= pc /\ pc < highpc /\ Covers(shown, lowpc, highpc)
    BY <1>1, ListingCovers
  <2>2. /\ Inst \subseteq Nat /\ pc \in Nat
        /\ Control \in Inst /\ Control <= pc /\ lowpc <= Control
        /\ \A b \in Inst : Control < b => pc < b
    <3>1. Inst \subseteq Nat /\ pc \in Nat /\ Inst \subseteq Int
      BY <1>1, InstNat DEF IInv, TypeOK, TraceeTypeOK
    <3>2. CASE pc \in Inst
      BY <2>1, <3>1, <3>2 DEF Control
    <3>3. CASE pc \notin Inst
      <4>1. Control = pc - 1 /\ pc - 1 \in Inst
        BY <1>1, <3>3, TrappedIsHit DEF Control
      <4>2. lowpc # pc
        BY <3>3
      <4>3. ASSUME NEW b \in Inst, pc - 1 < b
            PROVE  pc < b
        BY <3>1, <3>3, <4>3
      <4>. QED BY <2>1, <3>1, <4>1, <4>2, <4>3
    <3>. QED BY <3>2, <3>3
  <2>3. /\ Len(shown) \in Nat /\ DOMAIN shown = 1..Len(shown)
        /\ \A i \in DOMAIN shown : shown[i].pc \in Nat /\ shown[i].pc \in Inst
    <3>1. shown \in Seq(Line)
      BY <2>1 DEF Covers
    <3>2. Len(shown) \in Nat /\ DOMAIN shown = 1..Len(shown)
      <4> HIDE DEF Line
      <4>. QED BY <3>1
    <3>. QED BY <2>1, <2>2, <3>2 DEF Covers
  <2>4. PICK k \in DOMAIN shown : shown[k].pc = Control
    <3>1. Control \in {b \in Inst : lowpc <= b /\ b < highpc}
      BY <2>1, <2>2
    <3>. QED BY <2>1, <3>1 DEF Covers
  <2>5. \A i, j \in DOMAIN shown : i < j => shown[i].pc < shown[j].pc
    BY <2>1 DEF Covers
  <2>6. ASSUME NEW i \in Marked(shown)
        PROVE  i = k
    <3>1. /\ i \in DOMAIN shown /\ i + 1 \in DOMAIN shown
          /\ shown[i].pc <= pc /\ pc < shown[i + 1].pc
      BY <2>3 DEF Marked
    <3>2. CASE i < k
      <4>0. i \in Int /\ k \in Int
        BY <2>3, <3>1
      <4>1. i + 1 = k \/ i + 1 < k
        BY <3>2, <4>0
      <4>2. shown[i + 1].pc <= shown[k].pc
        BY <2>3, <2>5, <3>1, <4>1
      <4>. QED BY <2>2, <2>3, <2>4, <3>1, <4>2
    <3>3. CASE k < i
      <4>1. shown[k].pc < shown[i].pc
        BY <2>5, <3>1, <3>3
      <4>2. pc < shown[i].pc
        BY <2>2, <2>3, <2>4, <3>1, <4>1
      <4>. QED BY <2>2, <2>3, <3>1, <4>2
    <3>. QED BY <2>3, <3>1, <3>2, <3>3
  <2>7. CASE k = Len(shown)
    <3>1. k \notin Marked(shown)
      BY <2>3, <2>7 DEF Marked
    <3>2. Marked(shown) = {}
      BY <2>6, <3>1
    <3>. QED BY <2>4, <2>7, <3>2
  <2>8. CASE k # Len(shown)
    <3>1. k + 1 \in DOMAIN shown /\ k < k + 1 /\ Len(shown) \in DOMAIN shown /\ k < Len(shown)
      BY <2>3, <2>8
    <3>2. Control < shown[k + 1].pc
      BY <2>4, <2>5, <3>1
    <3>3. pc < shown[k + 1].pc
      BY <2>2, <2>3, <3>1, <3>2
    <3>4. k \in Marked(shown)
      BY <2>2, <2>3, <2>4, <3>1, <3>3 DEF Marked
    <3>5. Marked(shown) = {k}
      BY <2>6, <3>4
    <3>6. shown[k].pc < shown[Len(shown)].pc
      BY <2>5, <3>1
    <3>7. Control # shown[Len(shown)].pc
      BY <2>3, <2>4, <3>1, <3>6
    <3>. QED BY <2>4, <3>5, <3>7
  <2>. QED BY <2>7, <2>8
<1>2. UntilPanic /\ WalkInv => ArrowAtControl
  BY <1>1, InvAtPrompt DEF ArrowAtControl, ShowsDisassembly
<1>. QED BY InspectInvariant, WalkInvariant, <1>2, PTL

\* Reading the process for bt, p and disass does not disturb the program: until godbg panics
\* it runs as it would without a debugger, and the panic itself leaves it where it is.
THEOREM InspectingIsTransparent ==
  ASSUME BreakableIsLong
  PROVE  InspectSpec => TransparentUntilPanic
<1>1. InspectInit => P!Init
  BY CodeAssumption DEF InspectInit, Init, TraceeInit, P!Init, Control, Alive, Deaths
<1>2. UntilPanic /\ [InspectNext]_inspectVars
        => [dbg # "crashed" => P!Next \/ UNCHANGED P!progVars]_vars
  BY InspectSteps, PrintCrashes, StepRefines DEF UntilPanic, LetGo
<1>. QED
  BY InspectInvariant, <1>1, <1>2, PTL DEF InspectSpec, TransparentUntilPanic

-----------------------------------------------------------------------------
(***************************************************************************)
(* The slice and the table.                                                *)
(***************************************************************************)

\* No address has two entries.
OneEntryEach == \A i, j \in infos : i.pc = j.pc => i = j

OrderInv == order \in Seq(BreakAddrs) /\ OneEntryEach /\ ListIsTable

\* b appends an address that is not there.
LEMMA AppendKeeps ==
  ASSUME OrderInv, NEW l \in UserLines, append(l)
  PROVE  OrderInv'
<1> DEFINE a == fileLineToPcForBreakPoint(l)
           new == [pc |-> a, original |-> text[a]]
<1>1. CASE infos' = infos
  BY <1>1 DEF append, OrderInv, OneEntryEach, ListIsTable, Listed, PcsOf
<1>2. CASE infos' # infos
  <2>1. /\ a # NotFound /\ findBreakPoint(a) = {} /\ infos' = infos \cup {new}
        /\ order' = Append(order, a)
    BY <1>2 DEF append, SetFileLineBreakPoint, setPcBreakPoint
  <2>2. a \in BreakAddrs /\ new.pc = a
    BY <2>1 DEF BreakAddrs
  <2>3. /\ order' \in Seq(BreakAddrs) /\ Len(order) \in Nat
        /\ DOMAIN order = 1..Len(order) /\ DOMAIN order' = 1..(Len(order) + 1)
        /\ \A n \in 1..Len(order) : order'[n] = order[n]
        /\ order'[Len(order) + 1] = a
    BY <2>1, <2>2 DEF OrderInv
  <2>4. Listed' = Listed \cup {a} /\ a \notin Listed
    BY <2>1, <2>2 DEF Listed, PcsOf, findBreakPoint
  <2>5. {order'[n] : n \in DOMAIN order'} = Listed'
    BY <2>3, <2>4 DEF OrderInv, ListIsTable
  <2>6. \A m, n \in DOMAIN order' : order'[m] = order'[n] => m = n
    BY <2>3, <2>4 DEF OrderInv, ListIsTable
  <2>7. OneEntryEach'
    BY <2>1, <2>2 DEF OneEntryEach, OrderInv, findBreakPoint
  <2>. QED BY <2>3, <2>5, <2>6, <2>7 DEF OrderInv, ListIsTable
<1>. QED BY <1>1, <1>2

\* What is left of a sequence when its n-th element is cut out.
LEMMA CutOut ==
  ASSUME NEW S, NEW s \in Seq(S), NEW n \in 1..Len(s)
  PROVE  LET cut == SubSeq(s, 1, n - 1) \o SubSeq(s, n + 1, Len(s))
         IN  /\ cut \in Seq(S) /\ Len(cut) = Len(s) - 1
             /\ \A m \in 1..(Len(s) - 1) : cut[m] = IF m < n THEN s[m] ELSE s[m + 1]
<1> PICK t : t = SubSeq(s, 1, n - 1) \o SubSeq(s, n + 1, Len(s))
  OBVIOUS
<1> DEFINE u == SubSeq(s, 1, n - 1)
           v == SubSeq(s, n + 1, Len(s))
<1>0. Len(s) \in Nat /\ n \in Nat /\ 1 <= n /\ n <= Len(s) /\ \A i \in 1..Len(s) : s[i] \in S
  OBVIOUS
<1>1. /\ u \in Seq(S) /\ Len(u) = n - 1
      /\ \A i \in 1..(n - 1) : u[i] = s[i]
  <2>1. \A i \in 1..(n - 1) : s[i] \in S
    BY <1>0
  <2>2. /\ u \in Seq(S)
        /\ Len(u) = IF 1 <= n - 1 THEN (n - 1) - 1 + 1 ELSE 0
        /\ \A i \in 1..((n - 1) - 1 + 1) : u[i] = s[1 + i - 1]
    <3>1. 1 \in Int /\ n - 1 \in Int
      BY <1>0
    <3>. QED BY <2>1, <3>1, SubSeqProperties
  <2>. QED BY <1>0, <2>2
<1>2. /\ v \in Seq(S) /\ Len(v) = Len(s) - n
      /\ \A i \in 1..(Len(s) - n) : v[i] = s[n + i]
  <2>1. \A i \in (n + 1)..Len(s) : s[i] \in S
    BY <1>0
  <2>2. /\ v \in Seq(S)
        /\ Len(v) = IF n + 1 <= Len(s) THEN Len(s) - (n + 1) + 1 ELSE 0
        /\ \A i \in 1..(Len(s) - (n + 1) + 1) : v[i] = s[n + 1 + i - 1]
    <3>1. n + 1 \in Int /\ Len(s) \in Int
      BY <1>0
    <3>. QED BY <2>1, <3>1, SubSeqProperties
  <2>3. PICK l \in Nat : l = Len(s) /\ n <= l
    BY <1>0
  <2>4. (IF n + 1 <= l THEN l - (n + 1) + 1 ELSE 0) = l - n /\ l - (n + 1) + 1 = l - n
    BY <1>0, <2>3
  <2>5. \A i \in 1..(l - n) : n + 1 + i - 1 = n + i
    BY <1>0, <2>3
  <2>6. Len(v) = l - n /\ v \in Seq(S)
    BY <2>2, <2>3, <2>4
  <2>7. \A i \in 1..(l - n) : v[i] = s[n + 1 + i - 1]
    BY <2>2, <2>3, <2>4
  <2>8. \A i \in 1..(l - n) : v[i] = s[n + i]
    BY <2>5, <2>7
  <2>. QED BY <2>3, <2>6, <2>8
<1> HIDE DEF u, v
<1>3. /\ t \in Seq(S) /\ Len(t) = Len(u) + Len(v)
      /\ \A i \in 1..(Len(u) + Len(v)) :
            t[i] = IF i <= Len(u) THEN u[i] ELSE v[i - Len(u)]
  <2>1. t = u \o v
    BY DEF u, v
  <2>2. /\ u \o v \in Seq(S) /\ Len(u \o v) = Len(u) + Len(v)
        /\ \A i \in 1..(Len(u) + Len(v)) :
              (u \o v)[i] = IF i <= Len(u) THEN u[i] ELSE v[i - Len(u)]
    BY <1>1, <1>2, ConcatProperties
  <2>. QED BY <2>1, <2>2
<1>4. Len(u) + Len(v) = Len(s) - 1 /\ Len(u) = n - 1
  BY <1>0, <1>1, <1>2
<1>5. \A i \in 1..(Len(s) - 1) : t[i] = IF i <= n - 1 THEN u[i] ELSE v[i - (n - 1)]
  BY <1>3, <1>4
<1>6. ASSUME NEW m \in 1..(Len(s) - 1)
      PROVE  t[m] = IF m < n THEN s[m] ELSE s[m + 1]
  <2>0. m \in Nat
    BY <1>0
  <2>1. CASE m < n
    <3>1. m \in 1..(n - 1) /\ m <= n - 1
      BY <1>0, <2>0, <2>1
    <3>2. t[m] = u[m] /\ u[m] = s[m]
      BY <1>1, <1>5, <3>1
    <3>. QED BY <2>1, <3>2
  <2>2. CASE ~(m < n)
    <3>1. /\ m - (n - 1) \in 1..(Len(s) - n) /\ n + (m - (n - 1)) = m + 1
          /\ ~(m <= n - 1)
      BY <1>0, <2>0, <2>2
    <3>2. t[m] = v[m - (n - 1)]
      BY <1>5, <3>1
    <3>3. v[m - (n - 1)] = s[n + (m - (n - 1))]
      BY <1>2, <3>1
    <3>. QED BY <2>2, <3>1, <3>2, <3>3
  <2>. QED BY <2>1, <2>2
<1>7. Len(t) = Len(s) - 1
  BY <1>3, <1>4
<1>. QED BY <1>3, <1>6, <1>7

\* bc n takes the entry out of the slice and out of the table.
LEMMA ClearNthKeeps ==
  ASSUME OrderInv, NEW n \in DOMAIN order, clearNth(n)
  PROVE  OrderInv'
<1> DEFINE N == Len(order)
<1>1. PICK i \in infos : i.pc = order[n] /\ infos' = infos \ {i}
  BY DEF clearNth, findBreakPoint, clear
<1>2. order \in Seq(BreakAddrs) /\ N \in Nat /\ n \in 1..N /\ DOMAIN order = 1..N
  BY DEF OrderInv
<1>3. /\ order' \in Seq(BreakAddrs) /\ DOMAIN order' = 1..(N - 1) /\ N - 1 \in Nat
      /\ \A m \in 1..(N - 1) : order'[m] = IF m < n THEN order[m] ELSE order[m + 1]
  <2>1. order' = SubSeq(order, 1, n - 1) \o SubSeq(order, n + 1, Len(order))
    BY DEF clearNth
  <2>2. /\ order' \in Seq(BreakAddrs) /\ Len(order') = N - 1
        /\ \A m \in 1..(N - 1) : order'[m] = IF m < n THEN order[m] ELSE order[m + 1]
    <3>0. N = Len(order)
      OBVIOUS
    <3> HIDE DEF N, BreakAddrs
    <3>1. PICK B, o : B = BreakAddrs /\ o = order
      OBVIOUS
    <3>2. o \in Seq(B) /\ n \in 1..Len(o)
      BY <1>2, <3>0, <3>1
    <3>3. LET cut == SubSeq(o, 1, n - 1) \o SubSeq(o, n + 1, Len(o))
          IN  /\ cut \in Seq(B) /\ Len(cut) = Len(o) - 1
              /\ \A m \in 1..(Len(o) - 1) : cut[m] = IF m < n THEN o[m] ELSE o[m + 1]
      BY <3>2, CutOut
    <3>4. order' = SubSeq(o, 1, n - 1) \o SubSeq(o, n + 1, Len(o))
      BY <2>1, <3>1
    <3>5. PICK t : /\ t = SubSeq(o, 1, n - 1) \o SubSeq(o, n + 1, Len(o))
                   /\ t \in Seq(B) /\ Len(t) = Len(o) - 1
                   /\ \A m \in 1..(Len(o) - 1) : t[m] = IF m < n THEN o[m] ELSE o[m + 1]
      BY <3>3
    <3>6. order' = t
      BY <3>4, <3>5
    <3>7. order' \in Seq(BreakAddrs)
      BY <3>1, <3>5, <3>6
    <3>8. Len(o) = N /\ Len(order') = Len(o) - 1
      BY <3>0, <3>1, <3>5, <3>6
    <3>9. \A m \in 1..(N - 1) : order'[m] = IF m < n THEN order[m] ELSE order[m + 1]
      BY <3>1, <3>5, <3>6, <3>8
    <3>. QED BY <3>7, <3>8, <3>9
  <2> HIDE DEF N, BreakAddrs
  <2>3. DOMAIN order' = 1..(N - 1) /\ N - 1 \in Nat
    BY <1>2, <2>2
  <2>. QED BY <2>2, <2>3
<1> HIDE DEF N
<1>4. ASSUME NEW m \in 1..(N - 1)
      PROVE  \E k \in (1..N) \ {n} : order'[m] = order[k]
  <2>1. order'[m] = IF m < n THEN order[m] ELSE order[m + 1]
    BY <1>3
  <2>2. CASE m < n
    <3>1. m \in (1..N) \ {n} /\ order'[m] = order[m]
      BY <1>2, <2>1, <2>2
    <3>. QED BY <3>1
  <2>3. CASE ~(m < n)
    <3>1. m + 1 \in (1..N) \ {n} /\ order'[m] = order[m + 1]
      BY <1>2, <2>1, <2>3
    <3>. QED BY <3>1
  <2>. QED BY <2>2, <2>3
<1>5. ASSUME NEW k \in (1..N) \ {n}
      PROVE  \E m \in 1..(N - 1) : order'[m] = order[k]
  <2>1. CASE k < n
    <3>1. k \in 1..(N - 1) /\ order'[k] = order[k]
      BY <1>2, <1>3, <2>1
    <3>. QED BY <3>1
  <2>2. CASE k > n
    <3>1. k - 1 \in 1..(N - 1) /\ order'[k - 1] = order[k]
      BY <1>2, <1>3, <2>2
    <3>. QED BY <3>1
  <2>. QED BY <1>2, <2>1, <2>2
<1>6. {order'[m] : m \in 1..(N - 1)} = {order[k] : k \in (1..N) \ {n}}
  BY <1>4, <1>5
<1>7. Listed' = Listed \ {order[n]}
  BY <1>1 DEF OrderInv, OneEntryEach, Listed, PcsOf
<1>8. /\ Listed = {order[k] : k \in 1..N}
      /\ \A j, k \in 1..N : order[j] = order[k] => j = k
  BY <1>2 DEF OrderInv, ListIsTable
<1>9. {order'[m] : m \in DOMAIN order'} = Listed'
  <2>1. {order'[m] : m \in DOMAIN order'} = {order'[m] : m \in 1..(N - 1)}
    BY <1>3
  <2>2. {order[k] : k \in (1..N) \ {n}} = {order[k] : k \in 1..N} \ {order[n]}
    BY <1>2, <1>8
  <2>. QED BY <1>6, <1>7, <1>8, <2>1, <2>2
<1>10. ASSUME NEW m \in 1..(N - 1), NEW k \in 1..(N - 1), order'[m] = order'[k]
       PROVE  m = k
  <2> DEFINE From(j) == IF j < n THEN j ELSE j + 1
  <2>1. From(m) \in 1..N /\ From(k) \in 1..N
    BY <1>2
  <2>2. order'[m] = order[From(m)] /\ order'[k] = order[From(k)]
    BY <1>3
  <2>3. From(m) = From(k)
    <3> HIDE DEF From
    <3>. QED BY <1>8, <1>10, <2>1, <2>2
  <2>. QED BY <1>2, <2>3
<1>11. OneEntryEach'
  BY <1>1 DEF OrderInv, OneEntryEach
<1>. QED BY <1>3, <1>9, <1>10, <1>11 DEF OrderInv, ListIsTable

\* Whoever does not touch the table does not touch the slice.
LEMMA OthersKeepOrder ==
  ASSUME OrderInv, UNCHANGED <<infos, order>>
  PROVE  OrderInv'
BY DEF OrderInv, OneEntryEach, ListIsTable, Listed, PcsOf

LEMMA OrderStep ==
  ASSUME OrderInv, [InspectNext]_inspectVars
  PROVE  OrderInv'
<1>1. ASSUME NEW l \in UserLines, append(l) PROVE OrderInv'
  BY <1>1, AppendKeeps
<1>2. ASSUME NEW n \in DOMAIN order, clearNth(n) PROVE OrderInv'
  BY <1>2, ClearNthKeeps
<1>3. CASE clearAll
  <2>1. infos' = {} /\ order' = <<>>
    BY <1>3 DEF clearAll, clear
  <2>. QED BY <2>1 DEF OrderInv, OneEntryEach, ListIsTable, Listed, PcsOf
<1>4. CASE /\ restart \/ disassWithoutProcess \/ quit \/ continue \/ step \/ next
              \/ \E c \in {"c", "s", "n"} : refused(c)
           /\ UNCHANGED order
  <2>1. infos' = infos
    BY <1>4 DEF restart, disassWithoutProcess, quit, continue, step, next, refused, bpVars
  <2>. QED BY <1>4, <2>1, OthersKeepOrder
<1>5. CASE /\ Proceed \/ threadEvent \/ environment \/ execute \/ release \/ printCrashes
           /\ UNCHANGED order
  <2>1. infos' = infos
    BY <1>5
    DEF Proceed, continueStepped, continued, foundDead, stepEnded, stepArrived, stepOn,
        stepWaited, nextTrapped, nextInCall, nextCallDone, nextAtCall, nextUndecoded, nextOn,
        nextWaited, return, threadEvent, environment, execute, release, printCrashes, bpVars
  <2>. QED BY <1>5, <2>1, OthersKeepOrder
<1>6. CASE analyse \/ UNCHANGED inspectVars
  BY <1>6, OthersKeepOrder DEF analyse, inspectVars, vars, bpVars
<1>. QED
  BY <1>1, <1>2, <1>3, <1>4, <1>5, <1>6
  DEF InspectNext, debug, inspectExecute, inspectOther, ListCommand

\* bl shows every address with a breakpoint under one number, and bc n clears no other one
\* (the slice bp.infos as b and bc leave it).
THEOREM ListHolds == InspectSpec => []ListIsTable
<1>1. InspectInit => OrderInv
  BY DEF InspectInit, Init, BreakPointInit, ListInit, OrderInv, OneEntryEach, ListIsTable,
         Listed, PcsOf
<1>2. OrderInv /\ [InspectNext]_inspectVars => OrderInv'
  BY OrderStep
<1>3. OrderInv => ListIsTable
  BY DEF OrderInv
<1>. QED BY <1>1, <1>2, <1>3, PTL DEF InspectSpec
=============================================================================
