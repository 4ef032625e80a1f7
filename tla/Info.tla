-------------------------------- MODULE Info --------------------------------
(***************************************************************************)
(* The walk over .debug_info that fills BI.Functions and BI.CompileUnits   *)
(* (ParseLineAndInfoSection, bininfo.go), and the lookup of a function by  *)
(* address.  The reader yields the entries of the tree in preorder and     *)
(* nothing tells the walk when a subtree ends: a variable goes to the      *)
(* function met last.  BI.Sources, filled by the same walk, is             *)
(* LineTable!Rows.                                                         *)
(***************************************************************************)
EXTENDS Integers, Sequences

CONSTANT DebugInfos   \* the sections considered: entries in the order they are yielded

\* "broken": the reader returns an error for the entry, or for the line program of the
\* compile unit.
DebugEntry ==
  [tag      : {"cu", "subprogram", "variable", "other"},
   owner    : Nat,       \* the position of the closest subprogram around it, 0 for none
   name     : STRING,
   lowpc    : Nat,
   highpc   : Nat,
   location : {"fbreg", "other", "none"},
   num      : Int,       \* the operand of DW_OP_fbreg
   lines    : BOOLEAN,   \* a compile unit: it has a line table
   broken   : BOOLEAN]

\* The tree in preorder: between a subprogram and an entry it owns comes only what it owns
\* too, and no subprogram is inside another.
WellNested(info) ==
  \A i \in DOMAIN info : info[i].owner # 0 =>
    LET o == info[i].owner
    IN  /\ o < i /\ info[o].tag = "subprogram"
        /\ \A j \in (o + 1)..i : info[j].owner = o /\ info[j].tag # "subprogram"

ASSUME InfoAssumption ==
  /\ DebugInfos \subseteq Seq(DebugEntry)
  /\ \A info \in DebugInfos : WellNested(info)

VARIABLES
  info,           \* the section of the executable
  at,             \* the entries the reader has yielded
  Functions,      \* bi.Functions: records [entry, variables], both positions in info
  CompileUnits,   \* bi.CompileUnits: for each its functions, positions in Functions
  analysis        \* where the analysis is

infoVars == <<info, at, Functions, CompileUnits, analysis>>

InfoTypeOK ==
  /\ info \in DebugInfos
  /\ at \in 0..Len(info)
  /\ Functions \in Seq([entry : DOMAIN info, variables : Seq(DOMAIN info)])
  /\ CompileUnits \in Seq(Seq(DOMAIN Functions))
  /\ analysis \in {"walk", "error", "crashed", "done"}

InfoInit ==
  /\ info \in DebugInfos
  /\ at = 0
  /\ Functions = <<>>
  /\ CompileUnits = <<>>
  /\ analysis = "walk"

-----------------------------------------------------------------------------

Yields(tag) ==
  /\ analysis = "walk"
  /\ at < Len(info)
  /\ info[at + 1].tag = tag
  /\ ~info[at + 1].broken

\* An entry, or a line program, cannot be read.
walkFails ==
  /\ analysis = "walk"
  /\ at < Len(info) /\ info[at + 1].broken
  /\ analysis' = "error"
  /\ UNCHANGED <<info, at, Functions, CompileUnits>>

\* Without a line table LineReader returns neither a reader nor an error.
walkCompileUnit ==
  /\ Yields("cu")
  /\ CompileUnits' = Append(CompileUnits, <<>>)
  /\ IF info[at + 1].lines THEN at' = at + 1 /\ UNCHANGED analysis
                           ELSE analysis' = "crashed" /\ UNCHANGED at
  /\ UNCHANGED <<info, Functions>>

NewFunction_ZeroBased == Len(Functions)   \* mutant: the index before the append

\* The position of the function that is being appended.
NewFunction == Len(Functions) + 1

\* curFunction and curCompileUnit are the last elements of the slices.
walkSubprogram ==
  /\ Yields("subprogram")
  /\ IF CompileUnits = <<>>
     THEN analysis' = "crashed" /\ UNCHANGED <<at, Functions, CompileUnits>>
     ELSE /\ Functions' = Append(Functions, [entry |-> at + 1, variables |-> <<>>])
          /\ CompileUnits' =
               [CompileUnits EXCEPT ![Len(CompileUnits)] = Append(@, NewFunction)]
          /\ at' = at + 1
          /\ UNCHANGED analysis
  /\ UNCHANGED info

LastFunction_First == 1   \* mutant: curFunction is never moved on

LastFunction == Len(Functions)

\* Before the first function curFunction is nil.
walkVariable ==
  /\ Yields("variable")
  /\ IF Functions = <<>>
     THEN analysis' = "crashed" /\ UNCHANGED <<at, Functions>>
     ELSE /\ Functions' =
               [Functions EXCEPT ![LastFunction].variables = Append(@, at + 1)]
          /\ at' = at + 1
          /\ UNCHANGED analysis
  /\ UNCHANGED <<info, CompileUnits>>

walkOther ==
  /\ Yields("other")
  /\ at' = at + 1
  /\ UNCHANGED <<info, Functions, CompileUnits, analysis>>

walkEnds ==
  /\ analysis = "walk"
  /\ at = Len(info)
  /\ analysis' = "done"
  /\ UNCHANGED <<info, at, Functions, CompileUnits>>

InfoNext ==
  \/ walkFails
  \/ walkCompileUnit
  \/ walkSubprogram
  \/ walkVariable
  \/ walkOther
  \/ walkEnds

InfoSpec == InfoInit /\ [][InfoNext]_infoVars

\* The positions of the first function that includes a: a set of one or none.
findFunctionIncludePc(a) ==
  LET Includes(i) == LET e == info[Functions[i].entry] IN e.lowpc <= a /\ a < e.highpc
  IN  {i \in DOMAIN Functions : Includes(i) /\ \A j \in 1..(i - 1) : ~Includes(j)}

-----------------------------------------------------------------------------
\* Every variable of a function, those of its nested blocks included, is found under that
\* function and under no other; what is not of any function may be anywhere
\* (ParseLineAndInfoSection, whose curFunction survives the end of the function and of the
\* compile unit).
VariablesAreOwn ==
  \A v \in 1..at : info[v].tag = "variable" /\ info[v].owner # 0 =>
    \A i \in DOMAIN Functions :
      (\E k \in DOMAIN Functions[i].variables : Functions[i].variables[k] = v)
        <=> Functions[i].entry = info[v].owner
=============================================================================
