------------------------------ MODULE Session ------------------------------
(***************************************************************************)
(* A run of godbg from its arguments to its end (main.go, preparations.go, *)
(* analyze of bininfo.go), and the other runs on the same machine.  Each   *)
(* builds its source file to an executable in the temporary directory,     *)
(* reads the executable, starts it and removes it when main returns.  The  *)
(* executable's path depends on the base name of the source file only, so  *)
(* runs may meet at it.                                                    *)
(*                                                                         *)
(* At the prompt, the commands that open the executable or end the run are *)
(* steps here; Executor has the others.                                    *)
(***************************************************************************)
CONSTANTS
  Sessions,   \* runs of godbg, each for a source file of its own
  Base,       \* Base[s]: the base name of the source file of s
  None,       \* no run
  GodbgTest   \* the environment variable GODBG_TEST is set: q does not exit

ASSUME SessionAssumption ==
  /\ Base = [s \in Sessions |-> Base[s]]
  /\ None \notin Sessions
  /\ GodbgTest \in BOOLEAN

VARIABLES
  stage,      \* stage[s]: how far s has come
  disk,       \* disk[b]: the run whose build the path for b holds, or None
  execFile,   \* execFile[s]: target.execFile is set, and its removal deferred
  bi,         \* bi[s]: the run whose build target.bi describes, or None
  started,    \* started[s]: the runs whose builds s has started as processes
  met         \* met[s]: history, s has overlapped with a run for the same base name

sessionVars == <<stage, disk, execFile, bi, started, met>>

Bases == {Base[s] : s \in Sessions}

Preparing == {"args", "absolute", "build", "analyze", "runexec"}
Leaving   == {"returning", "panicking"}
Over      == {"returned", "crashed", "exited", "killed"}
\* s may still use the path, or remove what is there.
Active(s) ==
  \/ stage[s] \in {"build", "analyze", "runexec", "prompt"}
  \/ stage[s] \in Leaving /\ execFile[s]

SessionTypeOK ==
  /\ stage \in [Sessions -> Preparing \cup {"prompt"} \cup Leaving \cup Over]
  /\ disk \in [Bases -> Sessions \cup {None}]
  /\ execFile \in [Sessions -> BOOLEAN]
  /\ bi \in [Sessions -> Sessions \cup {None}]
  /\ started \in [Sessions -> SUBSET Sessions]
  /\ met \in [Sessions -> BOOLEAN]

SessionInit ==
  /\ stage = [s \in Sessions |-> "args"]
  /\ disk = [b \in Bases |-> None]
  /\ execFile = [s \in Sessions |-> FALSE]
  /\ bi = [s \in Sessions |-> None]
  /\ started = [s \in Sessions |-> {}]
  /\ met = [s \in Sessions |-> FALSE]

GoesTo(s, next) == stage' = [stage EXCEPT ![s] = next]

-----------------------------------------------------------------------------
checkArgs(s) ==
  /\ stage[s] = "args"
  /\ GoesTo(s, "absolute") \/ GoesTo(s, "returning")
  /\ UNCHANGED <<disk, execFile, bi, started, met>>

Rivals(s) == {t \in Sessions \ {s} : Base[t] = Base[s] /\ Active(t)}

absoluteFilename(s) ==
  /\ stage[s] = "absolute"
  /\ \/ /\ GoesTo(s, "build")
        /\ met' = [t \in Sessions |->
                     IF t \in Rivals(s) \/ (t = s /\ Rivals(s) # {}) THEN TRUE ELSE met[t]]
     \/ GoesTo(s, "returning") /\ UNCHANGED met
  /\ UNCHANGED <<disk, execFile, bi, started>>

\* Mutants of build: the removal is deferred by the successful analysis instead, and an
\* executable that is there already is taken as it is.
build_NotDeferred(s) ==
  /\ stage[s] = "build"
  /\ \/ disk' = [disk EXCEPT ![Base[s]] = s] /\ GoesTo(s, "analyze")
     \/ UNCHANGED disk /\ GoesTo(s, "returning")
  /\ UNCHANGED <<execFile, bi, started, met>>
build_Cached(s) ==
  /\ stage[s] = "build"
  /\ disk' = [disk EXCEPT ![Base[s]] = IF @ = None THEN s ELSE @]
  /\ execFile' = [execFile EXCEPT ![s] = TRUE]
  /\ GoesTo(s, "analyze")
  /\ UNCHANGED <<bi, started, met>>

\* go build puts the new executable at the path, over another run's, or leaves the path
\* alone.  Only then main defers the removal.
build(s) ==
  /\ stage[s] = "build"
  /\ \/ /\ disk' = [disk EXCEPT ![Base[s]] = s]
        /\ execFile' = [execFile EXCEPT ![s] = TRUE]
        /\ GoesTo(s, "analyze")
     \/ UNCHANGED <<disk, execFile>> /\ GoesTo(s, "returning")
  /\ UNCHANGED <<bi, started, met>>

\* Opens the path and reads the sections: a missing or damaged section is an error, or a
\* panic when it is the frame section that is missing.
analyze(s) ==
  /\ stage[s] = "analyze"
  /\ \/ /\ disk[Base[s]] # None
        /\ bi' = [bi EXCEPT ![s] = disk[Base[s]]]
        /\ GoesTo(s, "runexec")
     \/ UNCHANGED bi /\ GoesTo(s, "returning")
     \/ /\ disk[Base[s]] # None
        /\ UNCHANGED bi /\ GoesTo(s, "panicking")
  /\ UNCHANGED <<disk, execFile, started, met>>

\* Mutant of Starts: a missing executable is no error.
Starts_Unchecked(s) == started' = [started EXCEPT ![s] = @ \cup {disk[Base[s]]}]

\* The process is started from the path.
Starts(s) ==
  /\ disk[Base[s]] # None
  /\ started' = [started EXCEPT ![s] = @ \cup {disk[Base[s]]}]

runexec(s) ==
  /\ stage[s] = "runexec"
  /\ \/ Starts(s) /\ (GoesTo(s, "prompt") \/ GoesTo(s, "returning"))   \* Wait may fail
     \/ UNCHANGED started /\ GoesTo(s, "returning")
  /\ UNCHANGED <<disk, execFile, bi, met>>

\* r: the path is opened again.  An error is printed.
restart(s) ==
  /\ stage[s] = "prompt"
  /\ Starts(s)
  /\ UNCHANGED <<stage, disk, execFile, bi, met>>

\* q: os.Exit runs no deferred call.
quit(s) ==
  /\ stage[s] = "prompt"
  /\ ~GodbgTest
  /\ GoesTo(s, "exited")
  /\ UNCHANGED <<disk, execFile, bi, started, met>>

\* The input ends and Run returns, or a command panics.
promptEnds(s) ==
  /\ stage[s] = "prompt"
  /\ GoesTo(s, "returning") \/ GoesTo(s, "panicking")
  /\ UNCHANGED <<disk, execFile, bi, started, met>>

\* main is left, by return or by panic: the deferred call removes what is at the path.
leave(s) ==
  /\ stage[s] \in Leaving
  /\ GoesTo(s, IF stage[s] = "returning" THEN "returned" ELSE "crashed")
  /\ disk' = IF execFile[s] THEN [disk EXCEPT ![Base[s]] = None] ELSE disk
  /\ UNCHANGED <<execFile, bi, started, met>>

\* A signal or the end of memory ends the run at any time.
kill(s) ==
  /\ stage[s] \notin Over
  /\ GoesTo(s, "killed")
  /\ UNCHANGED <<disk, execFile, bi, started, met>>

SessionNext ==
  \E s \in Sessions :
    \/ checkArgs(s) \/ absoluteFilename(s) \/ build(s) \/ analyze(s) \/ runexec(s)
    \/ restart(s) \/ quit(s) \/ promptEnds(s) \/ leave(s) \/ kill(s)

SessionSpec == SessionInit /\ [][SessionNext]_sessionVars

-----------------------------------------------------------------------------
\* A run that has met no other one for the same base name analyses, starts and restarts
\* its own build, which stays at the path while it may be needed, whatever runs that were
\* killed or left with q have left there before (build, analyze, runexec, r).
RunsOwnBuild ==
  \A s \in Sessions :
    ~met[s] =>
      /\ bi[s] \in {s, None}
      /\ started[s] \subseteq {s}
      /\ stage[s] \in {"analyze", "runexec", "prompt"} => disk[Base[s]] = s

\* When main has returned or panicked the executable it built is gone (the deferred
\* os.Remove), even if another run's has taken the path.
ReturnRemovesBuild ==
  \A s \in Sessions : stage[s] \in {"returned", "crashed"} => disk[Base[s]] # s
=============================================================================
