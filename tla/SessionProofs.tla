--------------------------- MODULE SessionProofs ---------------------------
(***************************************************************************)
(* For every set of runs and every way their source files are named: a run *)
(* that meets no other one works on its own build, and a run that main     *)
(* leaves takes its build away.                                            *)
(***************************************************************************)
EXTENDS Session, TLAPS

\* Two runs that may both use one path have met.
MeetingsAreSeen ==
  \A s, t \in Sessions :
    s # t /\ Base[s] = Base[t] /\ Active(s) /\ Active(t) => met[s]

\* A run's build is only ever put at the path of its own source file, when its removal has
\* been deferred.
BuildsAreTheirs ==
  \A s \in Sessions :
    /\ execFile[s] => stage[s] \notin {"args", "absolute", "build"}
    /\ disk[Base[s]] = s => execFile[s]
    /\ stage[s] \in {"analyze", "runexec", "prompt"} => execFile[s]

SessionInv ==
  /\ SessionTypeOK
  /\ MeetingsAreSeen
  /\ BuildsAreTheirs
  /\ RunsOwnBuild
  /\ ReturnRemovesBuild

LEMMA SessionInitInv == SessionInit => SessionInv
<1> SUFFICES ASSUME SessionInit PROVE SessionInv
  OBVIOUS
<1>1. \A s \in Sessions : disk[Base[s]] = None /\ s # None
  BY SessionAssumption DEF SessionInit, Bases
<1>2. SessionTypeOK
  BY DEF SessionInit, SessionTypeOK, Preparing
<1>. QED
  BY <1>1, <1>2 DEF SessionInit, SessionInv, MeetingsAreSeen, BuildsAreTheirs, RunsOwnBuild,
                    ReturnRemovesBuild, Active, Leaving

\* GoesTo moves one run.
LEMMA StageMoves ==
  ASSUME SessionTypeOK, NEW s \in Sessions, NEW n, GoesTo(s, n)
  PROVE  stage'[s] = n /\ \A t \in Sessions : t # s => stage'[t] = stage[t]
BY DEF GoesTo, SessionTypeOK

\* A step that goes on to the next argument check, leaves main, or ends, and touches nothing.
LEMMA QuietStep ==
  ASSUME SessionInv, NEW s \in Sessions, UNCHANGED <<disk, execFile, bi, started, met>>,
         NEW n, GoesTo(s, n), stage[s] \notin Over,
         \/ n = "absolute" /\ stage[s] = "args"
         \/ n \in Leaving /\ stage[s] \notin Leaving
         \/ n \in {"exited", "killed"}
  PROVE  SessionInv'
<1>1. stage'[s] = n /\ \A t \in Sessions : t # s => stage'[t] = stage[t]
  BY StageMoves DEF SessionInv
<1>2. SessionTypeOK'
  BY DEF SessionInv, SessionTypeOK, GoesTo, Preparing, Leaving, Over
<1>3. \A t \in Sessions : Active(t)' => Active(t)
  <2>1. Active(s)' => Active(s)
    BY <1>1 DEF SessionInv, SessionTypeOK, BuildsAreTheirs, Active, Preparing, Leaving, Over
  <2>2. \A t \in Sessions : t # s => (Active(t)' <=> Active(t))
    BY <1>1 DEF Active
  <2>. QED BY <2>1, <2>2
<1>4. MeetingsAreSeen'
  BY <1>3 DEF SessionInv, MeetingsAreSeen
<1>5. BuildsAreTheirs' /\ RunsOwnBuild' /\ ReturnRemovesBuild'
  BY <1>1 DEF SessionInv, BuildsAreTheirs, RunsOwnBuild, ReturnRemovesBuild, Leaving
<1>. QED BY <1>2, <1>4, <1>5 DEF SessionInv

LEMMA BeginStep ==
  ASSUME SessionInv, NEW s \in Sessions, absoluteFilename(s), GoesTo(s, "build"),
         met' = [t \in Sessions |->
                   IF t \in Rivals(s) \/ (t = s /\ Rivals(s) # {}) THEN TRUE ELSE met[t]],
         UNCHANGED <<disk, execFile, bi, started>>
  PROVE  SessionInv'
<1>1. /\ stage[s] = "absolute" /\ stage'[s] = "build"
      /\ \A t \in Sessions : t # s => stage'[t] = stage[t]
  BY StageMoves DEF SessionInv, absoluteFilename
<1>2. SessionTypeOK'
  <2>1. met' \in [Sessions -> BOOLEAN]
    BY DEF SessionInv, SessionTypeOK
  <2>. QED BY <2>1 DEF SessionInv, SessionTypeOK, GoesTo, Preparing
<1>3. \A t \in Sessions : t # s => (Active(t)' <=> Active(t))
  BY <1>1 DEF Active
<1>4. \A t \in Sessions :
        met'[t] = IF t \in Rivals(s) \/ (t = s /\ Rivals(s) # {}) THEN TRUE ELSE met[t]
  OBVIOUS
<1>5. MeetingsAreSeen'
  <2> SUFFICES ASSUME NEW t \in Sessions, NEW u \in Sessions, t # u, Base[t] = Base[u],
                      Active(t)', Active(u)'
               PROVE  met'[t]
    BY DEF MeetingsAreSeen
  <2>1. CASE t # s /\ u # s
    BY <2>1, <1>3, <1>4 DEF SessionInv, MeetingsAreSeen
  <2>2. CASE t = s
    <3>1. u \in Rivals(s)
      BY <2>2, <1>3 DEF Rivals
    <3>. QED BY <2>2, <3>1, <1>4
  <2>3. CASE u = s
    <3>1. t \in Rivals(s)
      BY <2>3, <1>3 DEF Rivals
    <3>. QED BY <3>1, <1>4
  <2>. QED BY <2>1, <2>2, <2>3
<1>6. BuildsAreTheirs' /\ ReturnRemovesBuild'
  BY <1>1 DEF SessionInv, BuildsAreTheirs, ReturnRemovesBuild
<1>7. RunsOwnBuild'
  BY <1>1, <1>4 DEF SessionInv, RunsOwnBuild
<1>. QED BY <1>2, <1>5, <1>6, <1>7 DEF SessionInv

\* A run that changes a path leaves the paths of the runs that have met no one alone.
LEMMA RivalHasMet ==
  ASSUME SessionInv, NEW s \in Sessions, Active(s),
         NEW t \in Sessions, t # s, Base[t] = Base[s],
         stage[t] \in {"analyze", "runexec", "prompt"}
  PROVE  met[t]
BY DEF SessionInv, MeetingsAreSeen, Active

LEMMA BuildStep ==
  ASSUME SessionInv, NEW s \in Sessions, stage[s] = "build",
         disk' = [disk EXCEPT ![Base[s]] = s],
         execFile' = [execFile EXCEPT ![s] = TRUE],
         GoesTo(s, "analyze"), UNCHANGED <<bi, started, met>>
  PROVE  SessionInv'
<1>1. /\ stage'[s] = "analyze"
      /\ \A t \in Sessions : t # s => stage'[t] = stage[t]
  BY StageMoves DEF SessionInv
<1>2. SessionTypeOK'
  BY DEF SessionInv, SessionTypeOK, GoesTo, Preparing, Bases
<1>3. \A t \in Sessions :
        /\ execFile'[t] = IF t = s THEN TRUE ELSE execFile[t]
        /\ disk'[Base[t]] = IF Base[t] = Base[s] THEN s ELSE disk[Base[t]]
  BY DEF SessionInv, SessionTypeOK, Bases
<1>4. \A t \in Sessions : Active(t)' <=> Active(t)
  BY <1>1, <1>3 DEF Active, Leaving
<1>5. MeetingsAreSeen'
  BY <1>4 DEF SessionInv, MeetingsAreSeen
<1>6. BuildsAreTheirs' /\ ReturnRemovesBuild'
  <2> SUFFICES ASSUME NEW t \in Sessions
               PROVE  /\ execFile'[t] => stage'[t] \notin {"args", "absolute", "build"}
                      /\ disk'[Base[t]] = t => execFile'[t]
                      /\ stage'[t] \in {"analyze", "runexec", "prompt"} => execFile'[t]
                      /\ stage'[t] \in {"returned", "crashed"} => disk'[Base[t]] # t
    BY DEF BuildsAreTheirs, ReturnRemovesBuild
  <2>1. CASE t = s
    BY <2>1, <1>1, <1>3
  <2>2. CASE t # s
    <3>1. execFile'[t] = execFile[t] /\ stage'[t] = stage[t]
      BY <2>2, <1>1, <1>3
    <3>2. disk'[Base[t]] = t => disk[Base[t]] = t
      BY <2>2, <1>3
    <3>. QED BY <3>1, <3>2 DEF SessionInv, BuildsAreTheirs, ReturnRemovesBuild
  <2>. QED BY <2>1, <2>2
<1>7. RunsOwnBuild'
  <2>1. Active(s)
    BY DEF Active
  <2>2. ASSUME NEW t \in Sessions,
               stage'[t] \in {"analyze", "runexec", "prompt"}, ~met[t]
        PROVE  disk'[Base[t]] = t
    <3>1. CASE t = s
      BY <3>1, <1>3
    <3>2. CASE t # s
      <4>1. stage[t] \in {"analyze", "runexec", "prompt"}
        BY <1>1, <2>2, <3>2
      <4>2. Base[t] # Base[s]
        BY <2>1, <2>2, <3>2, <4>1, RivalHasMet
      <4>3. disk[Base[t]] = t
        BY <2>2, <4>1 DEF SessionInv, RunsOwnBuild
      <4>. QED BY <1>3, <4>2, <4>3
    <3>. QED BY <3>1, <3>2
  <2>. QED BY <2>2 DEF SessionInv, RunsOwnBuild
<1>. QED BY <1>2, <1>5, <1>6, <1>7 DEF SessionInv

\* analyze and runexec succeed, r starts a process: what is at the path is read or started.
LEMMA OpenStep ==
  ASSUME SessionInv, NEW s \in Sessions, NEW n, GoesTo(s, n),
         \/ stage[s] = "analyze" /\ n = "runexec"
         \/ stage[s] = "runexec" /\ n \in {"prompt", "returning"}
         \/ stage[s] = "prompt" /\ n = "prompt",
         disk[Base[s]] # None,
         \/ bi' = [bi EXCEPT ![s] = disk[Base[s]]] /\ UNCHANGED started
         \/ started' = [started EXCEPT ![s] = @ \cup {disk[Base[s]]}] /\ UNCHANGED bi,
         UNCHANGED <<disk, execFile, met>>
  PROVE  SessionInv'
<1>1. stage'[s] = n /\ \A t \in Sessions : t # s => stage'[t] = stage[t]
  BY StageMoves DEF SessionInv
<1>2. disk[Base[s]] \in Sessions
  BY DEF SessionInv, SessionTypeOK, Bases
<1>3. SessionTypeOK'
  BY <1>2 DEF SessionInv, SessionTypeOK, GoesTo, Preparing, Leaving
<1>4. \A t \in Sessions : Active(t)' => Active(t)
  BY <1>1 DEF Active, Leaving
<1>5. MeetingsAreSeen'
  BY <1>4 DEF SessionInv, MeetingsAreSeen
<1>6. BuildsAreTheirs' /\ ReturnRemovesBuild'
  BY <1>1 DEF SessionInv, BuildsAreTheirs, ReturnRemovesBuild
<1>7. ~met[s] => disk[Base[s]] = s
  BY DEF SessionInv, RunsOwnBuild
<1>8. \A t \in Sessions :
        /\ \/ bi'[t] = bi[t]
           \/ t = s /\ bi'[t] = disk[Base[s]]
        /\ \/ started'[t] = started[t]
           \/ t = s /\ started'[t] = started[t] \cup {disk[Base[s]]}
  <2>1. CASE bi' = [bi EXCEPT ![s] = disk[Base[s]]] /\ UNCHANGED started
    BY <2>1 DEF SessionInv, SessionTypeOK
  <2>2. CASE started' = [started EXCEPT ![s] = @ \cup {disk[Base[s]]}] /\ UNCHANGED bi
    BY <2>2 DEF SessionInv, SessionTypeOK
  <2>. QED BY <2>1, <2>2
<1>9. RunsOwnBuild'
  BY <1>1, <1>7, <1>8 DEF SessionInv, RunsOwnBuild
<1>. QED BY <1>3, <1>5, <1>6, <1>9 DEF SessionInv

LEMMA LeaveStep ==
  ASSUME SessionInv, NEW s \in Sessions, leave(s)
  PROVE  SessionInv'
<1>1. /\ stage[s] \in Leaving
      /\ stage'[s] \in {"returned", "crashed"}
      /\ \A t \in Sessions : t # s => stage'[t] = stage[t]
      /\ UNCHANGED <<execFile, bi, started, met>>
  <2>1. PICK n \in {"returned", "crashed"} : GoesTo(s, n)
    BY DEF leave
  <2>. QED BY <2>1, StageMoves DEF SessionInv, leave
<1>2. SessionTypeOK'
  BY DEF SessionInv, SessionTypeOK, leave, GoesTo, Over, Bases
<1>3. \A t \in Sessions :
        disk'[Base[t]] = IF execFile[s] /\ Base[t] = Base[s] THEN None ELSE disk[Base[t]]
  BY DEF SessionInv, SessionTypeOK, leave, Bases
<1>4. \A t \in Sessions : None # t
  BY SessionAssumption
<1>5. \A t \in Sessions : Active(t)' => Active(t)
  BY <1>1 DEF Active, Leaving
<1>6. MeetingsAreSeen'
  BY <1>1, <1>5 DEF SessionInv, MeetingsAreSeen
<1>7. BuildsAreTheirs' /\ ReturnRemovesBuild'
  BY <1>1, <1>3, <1>4 DEF SessionInv, BuildsAreTheirs, ReturnRemovesBuild, Leaving
<1>8. RunsOwnBuild'
  <2>1. execFile[s] => Active(s)
    BY <1>1 DEF Active
  <2>2. ASSUME NEW t \in Sessions,
               stage'[t] \in {"analyze", "runexec", "prompt"}, ~met[t]
        PROVE  disk'[Base[t]] = t
    <3>1. CASE t = s
      BY <3>1, <2>2, <1>1
    <3>2. CASE t # s
      <4>1. stage[t] \in {"analyze", "runexec", "prompt"}
        BY <1>1, <2>2, <3>2
      <4>2. Base[t] # Base[s] \/ ~execFile[s]
        BY <2>1, <2>2, <3>2, <4>1, RivalHasMet
      <4>3. disk[Base[t]] = t
        BY <2>2, <4>1 DEF SessionInv, RunsOwnBuild
      <4>. QED BY <1>1, <1>3, <4>2, <4>3
    <3>. QED BY <3>1, <3>2
  <2>. QED BY <1>1, <2>2 DEF SessionInv, RunsOwnBuild
<1>. QED BY <1>2, <1>6, <1>7, <1>8 DEF SessionInv

LEMMA SessionStepInv ==
  ASSUME SessionInv, SessionNext
  PROVE  SessionInv'
<1>0. PICK s \in Sessions :
        \/ checkArgs(s) \/ absoluteFilename(s) \/ build(s) \/ analyze(s) \/ runexec(s)
        \/ restart(s) \/ quit(s) \/ promptEnds(s) \/ leave(s) \/ kill(s)
  BY DEF SessionNext
<1>1. CASE checkArgs(s)
  <2>1. PICK n \in {"absolute", "returning"} : GoesTo(s, n)
    BY <1>1 DEF checkArgs
  <2>. QED BY <1>1, <2>1, QuietStep DEF checkArgs, Leaving, Over
<1>2. CASE absoluteFilename(s)
  <2>1. CASE GoesTo(s, "returning") /\ UNCHANGED met
    BY <1>2, <2>1, QuietStep DEF absoluteFilename, Leaving, Over
  <2>. QED BY <1>2, <2>1, BeginStep DEF absoluteFilename
<1>3. CASE build(s)
  <2>1. CASE UNCHANGED <<disk, execFile>> /\ GoesTo(s, "returning")
    BY <1>3, <2>1, QuietStep DEF build, Leaving, Over
  <2>. QED BY <1>3, <2>1, BuildStep DEF build
<1>4. CASE analyze(s)
  <2>1. CASE UNCHANGED bi /\ (GoesTo(s, "returning") \/ GoesTo(s, "panicking"))
    BY <1>4, <2>1, QuietStep DEF analyze, Leaving, Over
  <2>. QED BY <1>4, <2>1, OpenStep DEF analyze
<1>5. CASE runexec(s)
  <2>1. CASE UNCHANGED started /\ GoesTo(s, "returning")
    BY <1>5, <2>1, QuietStep DEF runexec, Leaving, Over
  <2>. QED BY <1>5, <2>1, OpenStep DEF runexec, Starts
<1>6. CASE restart(s)
  <2>1. GoesTo(s, "prompt")
    BY <1>6 DEF restart, GoesTo, SessionInv, SessionTypeOK
  <2>. QED BY <1>6, <2>1, OpenStep DEF restart, Starts
<1>7. CASE quit(s)
  BY <1>7, QuietStep DEF quit, Leaving, Over
<1>8. CASE promptEnds(s)
  <2>1. PICK n \in Leaving : GoesTo(s, n)
    BY <1>8 DEF promptEnds, Leaving
  <2>. QED BY <1>8, <2>1, QuietStep DEF promptEnds, Leaving, Over
<1>9. CASE leave(s)
  BY <1>9, LeaveStep
<1>10. CASE kill(s)
  BY <1>10, QuietStep DEF kill
<1>. QED BY <1>0, <1>1, <1>2, <1>3, <1>4, <1>5, <1>6, <1>7, <1>8, <1>9, <1>10

LEMMA SessionStutterInv ==
  ASSUME SessionInv, UNCHANGED sessionVars
  PROVE  SessionInv'
BY DEF sessionVars, SessionInv, SessionTypeOK, MeetingsAreSeen, BuildsAreTheirs, RunsOwnBuild,
       ReturnRemovesBuild, Active

LEMMA SessionInvariant == SessionSpec => []SessionInv
<1>1. SessionInv /\ [SessionNext]_sessionVars => SessionInv'
  BY SessionStepInv, SessionStutterInv
<1>. QED BY SessionInitInv, <1>1, PTL DEF SessionSpec

\* No run reads or starts an executable that is not there (analyze, runexec, r).
THEOREM SessionTyped == SessionSpec => []SessionTypeOK
<1>1. SessionInv => SessionTypeOK
  BY DEF SessionInv
<1>. QED BY SessionInvariant, <1>1, PTL

\* A run that has met no other one for its base name analyses, starts and restarts its own
\* build, whatever is left at its path and whoever else runs (build, analyze, runexec, r).
THEOREM OwnBuild == SessionSpec => []RunsOwnBuild
<1>1. SessionInv => RunsOwnBuild
  BY DEF SessionInv
<1>. QED BY SessionInvariant, <1>1, PTL

\* A run that main leaves, by return or by panic, takes its build away (the deferred
\* os.Remove of main).
THEOREM BuildRemoved == SessionSpec => []ReturnRemovesBuild
<1>1. SessionInv => ReturnRemovesBuild
  BY DEF SessionInv
<1>. QED BY SessionInvariant, <1>1, PTL
=============================================================================
