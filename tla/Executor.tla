------------------------------- MODULE Executor -------------------------------
(***************************************************************************)
(* The life of a tool call: the handlers of tools/tools.go around          *)
(* ExecuteScript of executor/docker.go.  A call resolves its input, waits  *)
(* for a worker slot, looks at the image, makes a temporary and an output  *)
(* directory, creates and starts a container, waits for it or for the      *)
(* timeout, collects logs and outputs, and unwinds its defers: container,  *)
(* then temporary directory, then slot.                                    *)
(*                                                                         *)
(* The worker pool is the abstract semaphore that WorkerPool implements;   *)
(* the image is prepared by DockerImage at the same time.                  *)
(***************************************************************************)
EXTENDS Integers, FiniteSets, DockerImage

CONSTANTS Jobs,         \* tool calls
          MaxWorkers,   \* MAX_WORKERS
          Managed,      \* whether there is an OutputManager (OUTPUT_DIR set)
          Faults,       \* whether the daemon and the file system may fail
          MaxCrashes    \* bound on the number of restarts

ASSUME ExecutorAssumption ==
  /\ IsFiniteSet(Jobs)
  /\ MaxWorkers \in Nat \ {0}
  /\ Managed \in BOOLEAN
  /\ Faults \in BOOLEAN
  /\ MaxCrashes \in Nat

VARIABLES pc,          \* where each call is
          slots,       \* calls that hold a worker slot
          ctxDone,     \* calls whose context is done: cancelled or timed out
          inputGone,   \* calls whose input file is not on disk any more
          temp,        \* calls whose temporary directory exists
          outdir,      \* each call's output directory
          ctr,         \* each call's container, as the daemon has it
          status,      \* exit status of each call's container
          timedOut,    \* calls that found their time was up
          exitCode,    \* the exit code each result states
          result,      \* what each call returns
          abandoned,   \* ghost: calls whose container nobody will remove
          crashes      \* ghost: restarts so far

dirs       == <<inputGone, temp, outdir>>
containers == <<ctr, status>>
outcome    == <<timedOut, exitCode>>
ghosts     == <<abandoned, crashes>>
jobVars == <<pc, slots, ctxDone, dirs, containers, outcome, result, ghosts>>
vars == <<jobVars, imageVars>>

\* waiting    in Acquire                admitted   slot taken
\* imaged     IsImageReady was true     staged     script.sh written
\* outmade    output directory made, its metadata not written
\* mounting   about to create the container
\* created, running, stopping, waited, logged   what was done last
\* removing, cleaning, releasing   the deferred calls, next to run
\* done       returned                  dead       lost in a crash
PC == {"idle", "waiting", "admitted", "imaged", "staged", "outmade", "mounting",
       "created", "running", "stopping", "waited", "logged", "removing",
       "cleaning", "releasing", "done", "dead"}

InSlot == PC \ {"idle", "waiting", "done", "dead"}
Preparing == {"idle", "waiting", "admitted", "imaged", "staged", "outmade",
              "mounting"}
Ended  == {"done", "dead"}

NoStatus == -1

TypeOK ==
  /\ pc \in [Jobs -> PC]
  /\ slots \subseteq Jobs
  /\ ctxDone \subseteq Jobs
  /\ inputGone \subseteq Jobs
  /\ temp \subseteq Jobs
  /\ outdir \in [Jobs -> {"none", "bare", "ready"}]
  /\ ctr \in [Jobs -> {"none", "created", "running", "exited"}]
  /\ status \in [Jobs -> {NoStatus, 0, 1}]
  /\ timedOut \subseteq Jobs
  /\ exitCode \in [Jobs -> {0, 1}]
  /\ result \in [Jobs -> {"none", "error", "result"}]
  /\ abandoned \subseteq Jobs
  /\ crashes \in 0 .. MaxCrashes
  /\ ImageTypeOK

Init ==
  /\ pc = [j \in Jobs |-> "idle"]
  /\ slots = {}
  /\ ctxDone = {}
  /\ inputGone = {}
  /\ temp = {}
  /\ outdir = [j \in Jobs |-> "none"]
  /\ ctr = [j \in Jobs |-> "none"]
  /\ status = [j \in Jobs |-> NoStatus]
  /\ timedOut = {}
  /\ exitCode = [j \in Jobs |-> 0]
  /\ result = [j \in Jobs |-> "none"]
  /\ abandoned = {}
  /\ crashes = 0
  /\ ImageInit

-----------------------------------------------------------------------------
(* Helpers *)

Pool == INSTANCE Semaphore WITH Callers <- Jobs, holders <- slots

Goto(j, label) == pc' = [pc EXCEPT ![j] = label] /\ UNCHANGED result

\* Return an error: the deferred calls pushed so far are run from label on.
Fail(j, label) ==
  /\ pc' = [pc EXCEPT ![j] = label]
  /\ result' = [result EXCEPT ![j] = "error"]

\* The sources of the three bind mounts exist.
MountsThere(j) == j \in temp /\ outdir[j] # "none" /\ j \notin inputGone

-----------------------------------------------------------------------------
(* The handler up to the slot *)

\* ResolveUploadURI: an upload that is gone is refused here; any other path
\* is passed on as it is and not looked at.
Resolve(j) ==
  /\ pc[j] = "idle"
  /\ \/ Goto(j, "waiting")
     \/ j \in inputGone /\ Fail(j, "done")
  /\ UNCHANGED <<slots, ctxDone, dirs, containers, outcome, ghosts, imageVars>>

\* pool.Acquire succeeds; Release is deferred.
Acquire(j) ==
  /\ pc[j] = "waiting"
  /\ Pool!Take(j)
  /\ Goto(j, "admitted")
  /\ UNCHANGED <<ctxDone, dirs, containers, outcome, ghosts, imageVars>>

\* pool.Acquire fails: no slot in time, or the request was cancelled.
\* Mutant: its error is not looked at.
BusyGoesOn(j) ==
  /\ pc[j] = "waiting"
  /\ Cardinality(slots) = MaxWorkers \/ j \in ctxDone
  /\ Goto(j, "admitted")
  /\ UNCHANGED <<slots, ctxDone, dirs, containers, outcome, ghosts, imageVars>>

Busy(j) ==
  /\ pc[j] = "waiting"
  /\ Cardinality(slots) = MaxWorkers \/ j \in ctxDone
  /\ Fail(j, "done")
  /\ UNCHANGED <<slots, ctxDone, dirs, containers, outcome, ghosts, imageVars>>

-----------------------------------------------------------------------------
(* ExecuteScript up to the container *)

\* Mutant: a call that finds no image returns without its deferred Release.
CheckImageNoRelease(j) ==
  /\ pc[j] = "admitted"
  /\ IF imageReady /\ ~imageErr THEN Goto(j, "imaged") ELSE Fail(j, "done")
  /\ UNCHANGED <<slots, ctxDone, dirs, containers, outcome, ghosts, imageVars>>

CheckImage(j) ==
  /\ pc[j] = "admitted"
  /\ IF imageReady /\ ~imageErr THEN Goto(j, "imaged") ELSE Fail(j, "releasing")
  /\ UNCHANGED <<slots, ctxDone, dirs, containers, outcome, ghosts, imageVars>>

\* createAccessibleTempDir and script.sh; the removal is deferred in between.
MakeTemp(j) ==
  /\ pc[j] = "imaged"
  /\ \/ Goto(j, "staged") /\ temp' = temp \cup {j}
     \/ Faults /\ Fail(j, "cleaning") /\ temp' = temp \cup {j}
     \/ Faults /\ Fail(j, "releasing") /\ UNCHANGED temp
  /\ UNCHANGED <<slots, ctxDone, inputGone, outdir, containers, outcome,
                 ghosts, imageVars>>

\* With an OutputManager, CreateExecutionDir makes the directory and writes
\* .metadata.json later; without, it is a directory inside the temporary one.
MakeOutput(j) ==
  /\ pc[j] = "staged"
  /\ \/ /\ Managed
        /\ Goto(j, "outmade")
        /\ outdir' = [outdir EXCEPT ![j] = "bare"]
     \/ /\ ~Managed
        /\ Goto(j, "mounting")
        /\ outdir' = [outdir EXCEPT ![j] = "ready"]
     \/ /\ Faults
        /\ Fail(j, "cleaning")
        /\ UNCHANGED outdir
  /\ UNCHANGED <<slots, ctxDone, inputGone, temp, containers, outcome, ghosts,
                 imageVars>>

\* The error of WriteFile is ignored, as when the directory is gone by now.
WriteMetadata(j) ==
  /\ pc[j] = "outmade"
  /\ Goto(j, "mounting")
  /\ \/ /\ outdir[j] = "bare"
        /\ outdir' = [outdir EXCEPT ![j] = "ready"]
     \/ /\ outdir[j] = "none" \/ Faults
        /\ UNCHANGED outdir
  /\ UNCHANGED <<slots, ctxDone, inputGone, temp, containers, outcome, ghosts,
                 imageVars>>

-----------------------------------------------------------------------------
(* The container *)

\* ContainerCreate under timeoutCtx.  The daemon refuses a missing mount or
\* image.  When the context ends during the call, or its answer is lost, the
\* daemon may have created the container whose ID the caller never gets.
Create(j) ==
  /\ pc[j] = "mounting"
  /\ \/ /\ j \notin ctxDone /\ MountsThere(j) /\ imagePresent
        /\ ctr' = [ctr EXCEPT ![j] = "created"]
        /\ Goto(j, "created")
        /\ UNCHANGED abandoned
     \/ /\ j \in ctxDone \/ ~MountsThere(j) \/ ~imagePresent \/ Faults
        /\ Fail(j, "cleaning")
        /\ UNCHANGED <<ctr, abandoned>>
     \/ /\ j \in ctxDone \/ Faults
        /\ MountsThere(j) /\ imagePresent
        /\ ctr' = [ctr EXCEPT ![j] = "created"]
        /\ abandoned' = abandoned \cup {j}
        /\ Fail(j, "cleaning")
  /\ UNCHANGED <<slots, ctxDone, dirs, status, outcome, crashes, imageVars>>

\* ContainerStart under timeoutCtx; ContainerRemove is deferred by now.  A
\* start whose answer is lost may have started the container.
\* Mutant: the removal is deferred only after a successful start.
StartDefersLate(j) ==
  /\ pc[j] = "created"
  /\ \/ /\ j \notin ctxDone /\ MountsThere(j)
        /\ ctr' = [ctr EXCEPT ![j] = "running"]
        /\ Goto(j, "running")
     \/ /\ j \in ctxDone \/ ~MountsThere(j) \/ Faults
        /\ Fail(j, "cleaning")
        /\ UNCHANGED ctr
  /\ UNCHANGED <<slots, ctxDone, dirs, status, outcome, ghosts, imageVars>>

Start(j) ==
  /\ pc[j] = "created"
  /\ \/ /\ j \notin ctxDone /\ MountsThere(j)
        /\ ctr' = [ctr EXCEPT ![j] = "running"]
        /\ Goto(j, "running")
     \/ /\ j \in ctxDone \/ ~MountsThere(j) \/ Faults
        /\ Fail(j, "removing")
        /\ UNCHANGED ctr
     \/ /\ j \in ctxDone \/ Faults
        /\ MountsThere(j)
        /\ Fail(j, "removing")
        /\ ctr' = [ctr EXCEPT ![j] = "running"]
  /\ UNCHANGED <<slots, ctxDone, dirs, status, outcome, ghosts, imageVars>>

\* The select after ContainerWait: the container's status, or the context.
\* When both are there, either may win.  Mutants: the exit code is read before
\* the exit; timedOut is not set; only the exit ends the wait.
WaitStatusEarly(j) ==
  /\ pc[j] = "running"
  /\ exitCode' = [exitCode EXCEPT ![j] = status[j]]
  /\ Goto(j, "waited")
  /\ UNCHANGED <<slots, ctxDone, dirs, containers, timedOut, ghosts,
                 imageVars>>

WaitStatus(j) ==
  /\ pc[j] = "running"
  /\ ctr[j] = "exited"
  /\ exitCode' = [exitCode EXCEPT ![j] = status[j]]
  /\ Goto(j, "waited")
  /\ UNCHANGED <<slots, ctxDone, dirs, containers, timedOut, ghosts,
                 imageVars>>

WaitTimeoutUnmarked(j) ==
  /\ pc[j] = "running"
  /\ j \in ctxDone
  /\ Goto(j, "stopping")
  /\ UNCHANGED <<slots, ctxDone, dirs, containers, outcome, ghosts, imageVars>>

WaitTimeoutOnlyAfterExit(j) ==
  /\ pc[j] = "running"
  /\ j \in ctxDone /\ ctr[j] = "exited"
  /\ timedOut' = timedOut \cup {j}
  /\ Goto(j, "stopping")
  /\ UNCHANGED <<slots, ctxDone, dirs, containers, exitCode, ghosts,
                 imageVars>>

WaitTimeout(j) ==
  /\ pc[j] = "running"
  /\ j \in ctxDone
  /\ timedOut' = timedOut \cup {j}
  /\ Goto(j, "stopping")
  /\ UNCHANGED <<slots, ctxDone, dirs, containers, exitCode, ghosts,
                 imageVars>>

WaitFails(j) ==
  /\ pc[j] = "running"
  /\ Faults /\ j \notin ctxDone
  /\ Fail(j, "removing")
  /\ UNCHANGED <<slots, ctxDone, dirs, containers, outcome, ghosts, imageVars>>

\* ContainerStop, given five seconds: the container may outlive them.
Stop(j) ==
  /\ pc[j] = "stopping"
  /\ Goto(j, "waited")
  /\ \/ /\ ctr[j] = "running"
        /\ ctr' = [ctr EXCEPT ![j] = "exited"]
        /\ status' = [status EXCEPT ![j] = 1]
     \/ UNCHANGED <<containers>>
  /\ UNCHANGED <<slots, ctxDone, dirs, outcome, ghosts, imageVars>>

-----------------------------------------------------------------------------
(* Logs, outputs and the deferred calls *)

\* ContainerLogs and StdCopy.
Logs(j) ==
  /\ pc[j] = "waited"
  /\ Goto(j, "logged") \/ (Faults /\ Fail(j, "removing"))
  /\ UNCHANGED <<slots, ctxDone, dirs, containers, outcome, ghosts, imageVars>>

\* Whatever is found in the output directory is listed in the result; a
\* directory that is gone lists nothing, and its error is ignored.
ScanOutputs(j) ==
  /\ pc[j] = "logged"
  /\ pc' = [pc EXCEPT ![j] = "removing"]
  /\ result' = [result EXCEPT ![j] = "result"]
  /\ UNCHANGED <<slots, ctxDone, dirs, containers, outcome, ghosts, imageVars>>

\* ContainerRemove with Force, given ten seconds; its error is ignored.
\* Mutant: without Force, which leaves a running container alone.
RemoveNoForce(j) ==
  /\ pc[j] = "removing"
  /\ Goto(j, "cleaning")
  /\ ctr' = [ctr EXCEPT ![j] = IF ctr[j] = "running" THEN "running" ELSE "none"]
  /\ UNCHANGED <<slots, ctxDone, dirs, status, outcome, ghosts, imageVars>>

Remove(j) ==
  /\ pc[j] = "removing"
  /\ Goto(j, "cleaning")
  /\ \/ /\ ctr' = [ctr EXCEPT ![j] = "none"]
        /\ UNCHANGED abandoned
     \/ /\ Faults
        /\ abandoned' = abandoned \cup {j}
        /\ UNCHANGED ctr
  /\ UNCHANGED <<slots, ctxDone, dirs, status, outcome, crashes, imageVars>>

\* os.RemoveAll(tempDir), with the output directory when it is inside.
CleanTemp(j) ==
  /\ pc[j] = "cleaning"
  /\ Goto(j, "releasing")
  /\ \/ /\ temp' = temp \ {j}
        /\ outdir' = IF Managed THEN outdir ELSE [outdir EXCEPT ![j] = "none"]
     \/ Faults /\ UNCHANGED <<temp, outdir>>
  /\ UNCHANGED <<slots, ctxDone, inputGone, containers, outcome, ghosts,
                 imageVars>>

\* The handler returns: pool.Release, then the answer.
Release(j) ==
  /\ pc[j] = "releasing"
  /\ Pool!Give(j)
  /\ Goto(j, "done")
  /\ UNCHANGED <<ctxDone, dirs, containers, outcome, ghosts, imageVars>>

Call(j) ==
  \/ Resolve(j) \/ Acquire(j) \/ Busy(j) \/ CheckImage(j) \/ MakeTemp(j)
  \/ MakeOutput(j) \/ WriteMetadata(j) \/ Create(j) \/ Start(j)
  \/ WaitStatus(j) \/ WaitTimeout(j) \/ WaitFails(j) \/ Stop(j) \/ Logs(j)
  \/ ScanOutputs(j) \/ Remove(j) \/ CleanTemp(j) \/ Release(j)

-----------------------------------------------------------------------------
(* The environment *)

\* The script ends, well or not.
ContainerExits(j) ==
  /\ ctr[j] = "running"
  /\ ctr' = [ctr EXCEPT ![j] = "exited"]
  /\ \E s \in {0, 1} : status' = [status EXCEPT ![j] = s]
  /\ UNCHANGED <<pc, slots, ctxDone, dirs, outcome, result, ghosts, imageVars>>

\* The client cancels, or the execution timeout passes.
CtxDone(j) ==
  /\ pc[j] \notin {"idle"} \cup Ended
  /\ j \notin ctxDone
  /\ ctxDone' = ctxDone \cup {j}
  /\ UNCHANGED <<pc, slots, dirs, containers, outcome, result, ghosts,
                 imageVars>>

\* The upload store deletes the input, or whoever owns the path does.
InputRemoved(j) ==
  /\ j \notin inputGone
  /\ inputGone' = inputGone \cup {j}
  /\ UNCHANGED <<pc, slots, ctxDone, temp, outdir, containers, outcome, result,
                 ghosts, imageVars>>

\* DeleteExecution, or cleanupExpired for a directory with readable metadata.
\* Neither knows whether the execution is still running.
OutputRemoved(j) ==
  /\ Managed
  /\ outdir[j] # "none"
  /\ outdir' = [outdir EXCEPT ![j] = "none"]
  /\ UNCHANGED <<pc, slots, ctxDone, inputGone, temp, containers, outcome,
                 result, ghosts, imageVars>>

PrepareImage == ImageNext /\ UNCHANGED jobVars

\* The process dies and is started again.  Directories and containers stay.
Crash ==
  /\ crashes < MaxCrashes
  /\ crashes' = crashes + 1
  /\ pc' = [j \in Jobs |-> IF pc[j] \in {"idle", "done"} THEN pc[j] ELSE "dead"]
  /\ slots' = {}
  /\ abandoned' = abandoned \cup {j \in Jobs : ctr[j] # "none"}
  /\ ImageRestart
  /\ UNCHANGED <<ctxDone, dirs, containers, outcome, result>>

Next ==
  \/ \E j \in Jobs : Call(j)
  \/ \E j \in Jobs : ContainerExits(j)
  \/ \E j \in Jobs : CtxDone(j)
  \/ \E j \in Jobs : InputRemoved(j)
  \/ \E j \in Jobs : OutputRemoved(j)
  \/ PrepareImage
  \/ Crash

Spec == Init /\ [][Next]_vars

\* A handler goes on, the daemon answers, and a running call's timeout passes
\* in the end.  Containers need not exit, nor clients cancel before that.
Fairness ==
  \A j \in Jobs :
    /\ WF_vars(pc[j] # "idle" /\ Call(j))
    /\ WF_vars(pc[j] = "running" /\ CtxDone(j))

FairSpec == Spec /\ Fairness /\ ImageFairness

-----------------------------------------------------------------------------
(* Properties *)

\* Resources follow the container: as long as a container exists that the
\* server has not given up, its call holds a worker slot, so MAX_WORKERS bounds
\* the containers, and the directory its script is mounted from is there
\* (docker.go:224, 305-309; tools.go:271-274).
ContainerCovered ==
  \A j \in Jobs : ctr[j] # "none" /\ j \notin abandoned =>
    j \in slots /\ j \in temp

WorkersBound ==
  Cardinality({j \in Jobs : ctr[j] # "none" /\ j \notin abandoned})
    <= MaxWorkers

\* On every path through ExecuteScript, early returns included, a call that
\* has returned has given its slot back, has left no temporary directory unless
\* its removal failed, and no container that anybody could remove: unless its
\* removal failed, or the daemon's answer that it was created was lost, by a
\* fault or as the context ended, which the caller was told as an error
\* (docker.go:212-344).
NothingLeftBehind ==
  \A j \in Jobs : pc[j] = "done" =>
    /\ j \notin slots
    /\ ~Faults => j \notin temp
    /\ \/ ctr[j] = "none"
       \/ Faults /\ j \in abandoned
       \/ j \in ctxDone /\ result[j] = "error"

\* A slot is held exactly by the calls between Acquire and Release, across
\* restarts too (tools.go:271-274).
SlotsMatchCalls == slots = {j \in Jobs : pc[j] \in InSlot}

\* A result that does not say "timed out" states the exit code the container
\* really ended with: the 0 that exitCode starts from is never taken for a
\* success, whichever branch of the select wins (docker.go:317-334;
\* tools.go:585-636).
TruthfulResult ==
  \A j \in Jobs : pc[j] = "done" /\ result[j] = "result" /\ j \notin timedOut =>
    status[j] # NoStatus /\ exitCode[j] = status[j]

\* Every call that was made returns or dies with the process, whether or not
\* its container ever exits (docker.go:294-334).
CallsReturn == \A j \in Jobs : pc[j] = "waiting" ~> pc[j] \in Ended

\* A call's container: not made yet, attended to, over, or nobody's.
Container(j) ==
  IF ctr[j] = "none"
  THEN IF pc[j] \in Preparing THEN "none" ELSE "over"
  ELSE CASE j \in abandoned                           -> "stray"
         [] j \notin abandoned /\ ctr[j] = "exited"    -> "ended"
         [] j \notin abandoned /\ ctr[j] # "exited"    -> "live"

\* What the answer is going to say, once the container is dealt with.
Verdict(j) ==
  IF pc[j] \notin {"cleaning", "releasing", "done"} THEN "none"
  ELSE IF result[j] # "result" THEN result[j]
  ELSE IF j \in timedOut THEN "timeout"
  ELSE IF exitCode[j] = 0 THEN "success" ELSE "failure"

\* Seen from outside, every interleaving of calls, container exits, timeouts,
\* failing steps and restarts is a life of tool calls as they are promised:
\* one container per call at most and only in a slot, dealt with before the
\* slot is given back, and one answer that tells how it ended
\* (tools.go:271-285, 590-636; docker.go:211-345).
Calls == INSTANCE ToolCalls WITH
  holders   <- slots,
  container <- [j \in Jobs |-> Container(j)],
  exit      <- status,
  late      <- ctxDone,
  verdict   <- [j \in Jobs |-> Verdict(j)],
  answered  <- {j \in Jobs : pc[j] = "done"}

ToolCallsSpec == Calls!Spec
=============================================================================
