----------------------------- MODULE ExecutorProofs -----------------------------
(***************************************************************************)
(* Proofs about Executor, for every finite set of calls, every number of   *)
(* workers, with and without an OutputManager, faults and restarts.        *)
(*                                                                         *)
(* The argument is the order of the defers: each phase of a call says      *)
(* which of slot, temporary directory and container the call still has,    *)
(* and what it knows about the container's exit.                           *)
(***************************************************************************)
EXTENDS Executor, FiniteSetTheorems, TLAPS

\* Phases in which a call has a container to remove, or a directory to clean,
\* and those in which its answer is settled.
HasContainer == {"created", "running", "stopping", "waited", "logged",
                 "removing"}
HasTemp == HasContainer \cup {"staged", "outmade", "mounting"}
Settled == {"cleaning", "releasing", "done"}

\* What the phase of a call says of its resources: it has its container in
\* exactly those phases, and a container is given up only after them.
PhaseInv(j) ==
  /\ ctr[j] # "none" /\ j \notin abandoned <=> pc[j] \in HasContainer
  /\ pc[j] = "created" => ctr[j] = "created"
  /\ j \in abandoned => ctr[j] # "none" /\ pc[j] \in Settled \cup {"dead"}
  /\ pc[j] \in HasTemp => j \in temp

\* A call that knows an exit code knows the right one, for good; one that
\* stopped waiting is marked, and its time was up.  A container has one exit.
ExitInv(j) ==
  /\ (pc[j] \in {"waited", "logged"} \/ result[j] = "result")
     /\ j \notin timedOut
       => ctr[j] \in {"exited", "none"} /\ status[j] # NoStatus
            /\ exitCode[j] = status[j]
  /\ ctr[j] = "exited" => status[j] # NoStatus
  /\ ctr[j] \in {"created", "running"} \/ pc[j] \in Preparing
       => status[j] = NoStatus
  /\ pc[j] = "stopping" => j \in timedOut
  /\ j \in timedOut => j \in ctxDone

\* A result is only made after the wait, nothing is called after it, and every
\* call that unwinds has one.
ResultInv(j) ==
  /\ result[j] # "none" => pc[j] \in Settled \cup {"removing", "dead"}
  /\ pc[j] \in Settled \cup {"removing"} => result[j] # "none"

JobInv(j) == PhaseInv(j) /\ ExitInv(j) /\ ResultInv(j)

SlotsBound == Cardinality(slots) <= MaxWorkers

IInv ==
  /\ TypeOK
  /\ SlotsMatchCalls
  /\ SlotsBound
  /\ \A j \in Jobs : JobInv(j)

-----------------------------------------------------------------------------
(* Steps that take or give back no slot *)

\* Initially no call has anything.
LEMMA InitIInv == Init => IInv
<1>1. Init => TypeOK
  <2>1. Init => ImageTypeOK
    BY DEF Init, ImageInit, ImageTypeOK, Prep
  <2>2. Init => crashes \in 0 .. MaxCrashes
    BY ExecutorAssumption DEF Init
  <2>3. QED
    BY <2>1, <2>2 DEF Init, TypeOK, PC, NoStatus
<1>2. Init => SlotsMatchCalls
  BY DEF Init, SlotsMatchCalls, InSlot
<1>3. Init => SlotsBound
  BY ExecutorAssumption, FS_EmptySet DEF Init, SlotsBound
<1>4. Init => \A j \in Jobs : JobInv(j)
  BY DEF Init, JobInv, PhaseInv, ExitInv, ResultInv, HasTemp, HasContainer,
         Settled, Preparing
<1>5. QED
  BY <1>1, <1>2, <1>3, <1>4 DEF IInv

\* A refusal or the start of the wait.
LEMMA ResolveStep ==
  ASSUME IInv, NEW j \in Jobs, Resolve(j)
  PROVE  IInv'
<1> USE DEF IInv, Resolve, Goto, Fail, dirs, containers, outcome, ghosts
<1>1. TypeOK'
  BY DEF TypeOK, PC, NoStatus, imageVars, ImageTypeOK
<1>2. SlotsMatchCalls' /\ SlotsBound'
  BY DEF TypeOK, SlotsMatchCalls, SlotsBound, InSlot, PC
<1>3. ASSUME NEW k \in Jobs PROVE JobInv(k)'
  BY DEF TypeOK, JobInv, PhaseInv, ExitInv, ResultInv, HasTemp, HasContainer,
         Settled, Preparing
<1>4. QED
  BY <1>1, <1>2, <1>3

\* The call returns without a slot.
LEMMA BusyStep ==
  ASSUME IInv, NEW j \in Jobs, Busy(j)
  PROVE  IInv'
<1> USE DEF IInv, Busy, Goto, Fail, dirs, containers, outcome, ghosts
<1>1. TypeOK'
  BY DEF TypeOK, PC, NoStatus, imageVars, ImageTypeOK
<1>2. SlotsMatchCalls' /\ SlotsBound'
  BY DEF TypeOK, SlotsMatchCalls, SlotsBound, InSlot, PC
<1>3. ASSUME NEW k \in Jobs PROVE JobInv(k)'
  BY DEF TypeOK, JobInv, PhaseInv, ExitInv, ResultInv, HasTemp, HasContainer,
         Settled, Preparing
<1>4. QED
  BY <1>1, <1>2, <1>3

\* The image decides between going on and giving the slot back.
LEMMA CheckImageStep ==
  ASSUME IInv, NEW j \in Jobs, CheckImage(j)
  PROVE  IInv'
<1> USE DEF IInv, CheckImage, Goto, Fail, dirs, containers, outcome, ghosts
<1>1. TypeOK'
  BY DEF TypeOK, PC, NoStatus, imageVars, ImageTypeOK
<1>2. SlotsMatchCalls' /\ SlotsBound'
  BY DEF TypeOK, SlotsMatchCalls, SlotsBound, InSlot, PC
<1>3. ASSUME NEW k \in Jobs PROVE JobInv(k)'
  BY DEF TypeOK, JobInv, PhaseInv, ExitInv, ResultInv, HasTemp, HasContainer,
         Settled, Preparing
<1>4. QED
  BY <1>1, <1>2, <1>3

\* The temporary directory appears before anything needs it.
LEMMA MakeTempStep ==
  ASSUME IInv, NEW j \in Jobs, MakeTemp(j)
  PROVE  IInv'
<1> USE DEF IInv, MakeTemp, Goto, Fail, dirs, containers, outcome, ghosts
<1>1. TypeOK'
  BY DEF TypeOK, PC, NoStatus, imageVars, ImageTypeOK
<1>2. SlotsMatchCalls' /\ SlotsBound'
  BY DEF TypeOK, SlotsMatchCalls, SlotsBound, InSlot, PC
<1>3. ASSUME NEW k \in Jobs PROVE JobInv(k)'
  BY DEF TypeOK, JobInv, PhaseInv, ExitInv, ResultInv, HasTemp, HasContainer,
         Settled, Preparing
<1>4. QED
  BY <1>1, <1>2, <1>3

\* The output directory.
LEMMA MakeOutputStep ==
  ASSUME IInv, NEW j \in Jobs, MakeOutput(j)
  PROVE  IInv'
<1> USE DEF IInv, MakeOutput, Goto, Fail, dirs, containers, outcome, ghosts
<1>1. TypeOK'
  BY DEF TypeOK, PC, NoStatus, imageVars, ImageTypeOK
<1>2. SlotsMatchCalls' /\ SlotsBound'
  BY DEF TypeOK, SlotsMatchCalls, SlotsBound, InSlot, PC
<1>3. ASSUME NEW k \in Jobs PROVE JobInv(k)'
  BY DEF TypeOK, JobInv, PhaseInv, ExitInv, ResultInv, HasTemp, HasContainer,
         Settled, Preparing
<1>4. QED
  BY <1>1, <1>2, <1>3

\* The output directory.
LEMMA WriteMetadataStep ==
  ASSUME IInv, NEW j \in Jobs, WriteMetadata(j)
  PROVE  IInv'
<1> USE DEF IInv, WriteMetadata, Goto, Fail, dirs, containers, outcome, ghosts
<1>1. TypeOK'
  BY DEF TypeOK, PC, NoStatus, imageVars, ImageTypeOK
<1>2. SlotsMatchCalls' /\ SlotsBound'
  BY DEF TypeOK, SlotsMatchCalls, SlotsBound, InSlot, PC
<1>3. ASSUME NEW k \in Jobs PROVE JobInv(k)'
  BY DEF TypeOK, JobInv, PhaseInv, ExitInv, ResultInv, HasTemp, HasContainer,
         Settled, Preparing
<1>4. QED
  BY <1>1, <1>2, <1>3

\* A container appears: with its call, or abandoned.
LEMMA CreateStep ==
  ASSUME IInv, NEW j \in Jobs, Create(j)
  PROVE  IInv'
<1> USE DEF IInv, Create, Goto, Fail, dirs, containers, outcome, ghosts
<1>1. TypeOK'
  BY DEF TypeOK, PC, NoStatus, imageVars, ImageTypeOK
<1>2. SlotsMatchCalls' /\ SlotsBound'
  BY DEF TypeOK, SlotsMatchCalls, SlotsBound, InSlot, PC
<1>3. ASSUME NEW k \in Jobs PROVE JobInv(k)'
  BY DEF TypeOK, JobInv, PhaseInv, ExitInv, ResultInv, HasTemp, HasContainer,
         Settled, Preparing
<1>4. QED
  BY <1>1, <1>2, <1>3

\* The container runs, or its removal is due.
LEMMA StartStep ==
  ASSUME IInv, NEW j \in Jobs, Start(j)
  PROVE  IInv'
<1> USE DEF IInv, Start, Goto, Fail, dirs, containers, outcome, ghosts
<1>1. TypeOK'
  BY DEF TypeOK, PC, NoStatus, imageVars, ImageTypeOK
<1>2. SlotsMatchCalls' /\ SlotsBound'
  BY DEF TypeOK, SlotsMatchCalls, SlotsBound, InSlot, PC
<1>3. ASSUME NEW k \in Jobs PROVE JobInv(k)'
  <2> USE DEF TypeOK, HasTemp, HasContainer, Settled, Preparing
  <2>1. PhaseInv(k)'
    BY DEF JobInv, PhaseInv
  <2>2. ctr[j] = "created" /\ result[j] = "none" /\ ctr'[j] # "exited"
    BY DEF JobInv, PhaseInv, ExitInv, ResultInv
  <2>3. ExitInv(k)'
    <3>1. CASE k = j
      BY <2>2, <3>1 DEF JobInv, ExitInv
    <3>2. CASE k # j
      BY <3>2 DEF JobInv, ExitInv
    <3>3. QED
      BY <3>1, <3>2
  <2>4. ResultInv(k)'
    BY DEF JobInv, ResultInv
  <2>5. QED
    BY <2>1, <2>3, <2>4 DEF JobInv
<1>4. QED
  BY <1>1, <1>2, <1>3

\* The exit code is that of the container.
LEMMA WaitStatusStep ==
  ASSUME IInv, NEW j \in Jobs, WaitStatus(j)
  PROVE  IInv'
<1> USE DEF IInv, WaitStatus, Goto, Fail, dirs, containers, outcome, ghosts
<1>1. TypeOK'
  BY DEF TypeOK, PC, NoStatus, imageVars, ImageTypeOK, JobInv, ExitInv
<1>2. SlotsMatchCalls' /\ SlotsBound'
  BY DEF TypeOK, SlotsMatchCalls, SlotsBound, InSlot, PC
<1>3. ASSUME NEW k \in Jobs PROVE JobInv(k)'
  BY DEF TypeOK, JobInv, PhaseInv, ExitInv, ResultInv, HasTemp, HasContainer,
         Settled, Preparing
<1>4. QED
  BY <1>1, <1>2, <1>3

\* A call that stops waiting is marked.
LEMMA WaitTimeoutStep ==
  ASSUME IInv, NEW j \in Jobs, WaitTimeout(j)
  PROVE  IInv'
<1> USE DEF IInv, WaitTimeout, Goto, Fail, dirs, containers, outcome, ghosts
<1>1. TypeOK'
  BY DEF TypeOK, PC, NoStatus, imageVars, ImageTypeOK
<1>2. SlotsMatchCalls' /\ SlotsBound'
  BY DEF TypeOK, SlotsMatchCalls, SlotsBound, InSlot, PC
<1>3. ASSUME NEW k \in Jobs PROVE JobInv(k)'
  BY DEF TypeOK, JobInv, PhaseInv, ExitInv, ResultInv, HasTemp, HasContainer,
         Settled, Preparing
<1>4. QED
  BY <1>1, <1>2, <1>3

\* The removal is due.
LEMMA WaitFailsStep ==
  ASSUME IInv, NEW j \in Jobs, WaitFails(j)
  PROVE  IInv'
<1> USE DEF IInv, WaitFails, Goto, Fail, dirs, containers, outcome, ghosts
<1>1. TypeOK'
  BY DEF TypeOK, PC, NoStatus, imageVars, ImageTypeOK
<1>2. SlotsMatchCalls' /\ SlotsBound'
  BY DEF TypeOK, SlotsMatchCalls, SlotsBound, InSlot, PC
<1>3. ASSUME NEW k \in Jobs PROVE JobInv(k)'
  BY DEF TypeOK, JobInv, PhaseInv, ExitInv, ResultInv, HasTemp, HasContainer,
         Settled, Preparing
<1>4. QED
  BY <1>1, <1>2, <1>3

\* Only a call marked as timed out stops its container.
LEMMA StopStep ==
  ASSUME IInv, NEW j \in Jobs, Stop(j)
  PROVE  IInv'
<1> USE DEF IInv, Stop, Goto, Fail, dirs, containers, outcome, ghosts
<1>1. TypeOK'
  BY DEF TypeOK, PC, NoStatus, imageVars, ImageTypeOK
<1>2. SlotsMatchCalls' /\ SlotsBound'
  BY DEF TypeOK, SlotsMatchCalls, SlotsBound, InSlot, PC
<1>3. ASSUME NEW k \in Jobs PROVE JobInv(k)'
  BY DEF TypeOK, JobInv, PhaseInv, ExitInv, ResultInv, HasTemp, HasContainer,
         Settled, Preparing, NoStatus
<1>4. QED
  BY <1>1, <1>2, <1>3

\* On to the outputs or to the removal.
LEMMA LogsStep ==
  ASSUME IInv, NEW j \in Jobs, Logs(j)
  PROVE  IInv'
<1> USE DEF IInv, Logs, Goto, Fail, dirs, containers, outcome, ghosts
<1>1. TypeOK'
  BY DEF TypeOK, PC, NoStatus, imageVars, ImageTypeOK
<1>2. SlotsMatchCalls' /\ SlotsBound'
  BY DEF TypeOK, SlotsMatchCalls, SlotsBound, InSlot, PC
<1>3. ASSUME NEW k \in Jobs PROVE JobInv(k)'
  BY DEF TypeOK, JobInv, PhaseInv, ExitInv, ResultInv, HasTemp, HasContainer,
         Settled, Preparing
<1>4. QED
  BY <1>1, <1>2, <1>3

\* The result is made of what the wait found.
LEMMA ScanOutputsStep ==
  ASSUME IInv, NEW j \in Jobs, ScanOutputs(j)
  PROVE  IInv'
<1> USE DEF IInv, ScanOutputs, Goto, Fail, dirs, containers, outcome, ghosts
<1>1. TypeOK'
  BY DEF TypeOK, PC, NoStatus, imageVars, ImageTypeOK
<1>2. SlotsMatchCalls' /\ SlotsBound'
  BY DEF TypeOK, SlotsMatchCalls, SlotsBound, InSlot, PC
<1>3. ASSUME NEW k \in Jobs PROVE JobInv(k)'
  BY DEF TypeOK, JobInv, PhaseInv, ExitInv, ResultInv, HasTemp, HasContainer,
         Settled, Preparing
<1>4. QED
  BY <1>1, <1>2, <1>3

\* No container is left, or it is abandoned.
LEMMA RemoveStep ==
  ASSUME IInv, NEW j \in Jobs, Remove(j)
  PROVE  IInv'
<1> USE DEF IInv, Remove, Goto, Fail, dirs, containers, outcome, ghosts
<1>1. TypeOK'
  BY DEF TypeOK, PC, NoStatus, imageVars, ImageTypeOK
<1>2. SlotsMatchCalls' /\ SlotsBound'
  BY DEF TypeOK, SlotsMatchCalls, SlotsBound, InSlot, PC
<1>3. ASSUME NEW k \in Jobs PROVE JobInv(k)'
  BY DEF TypeOK, JobInv, PhaseInv, ExitInv, ResultInv, HasTemp, HasContainer,
         Settled, Preparing
<1>4. QED
  BY <1>1, <1>2, <1>3

\* No container needs the directory any more.
LEMMA CleanTempStep ==
  ASSUME IInv, NEW j \in Jobs, CleanTemp(j)
  PROVE  IInv'
<1> USE DEF IInv, CleanTemp, Goto, Fail, dirs, containers, outcome, ghosts
<1>1. TypeOK'
  BY DEF TypeOK, PC, NoStatus, imageVars, ImageTypeOK
<1>2. SlotsMatchCalls' /\ SlotsBound'
  BY DEF TypeOK, SlotsMatchCalls, SlotsBound, InSlot, PC
<1>3. ASSUME NEW k \in Jobs PROVE JobInv(k)'
  BY DEF TypeOK, JobInv, PhaseInv, ExitInv, ResultInv, HasTemp, HasContainer,
         Settled, Preparing
<1>4. QED
  BY <1>1, <1>2, <1>3

-----------------------------------------------------------------------------
(* Steps that take or give back a slot *)

\* Acquire: one more holder, and there was room for it.
LEMMA AcquireStep ==
  ASSUME IInv, NEW j \in Jobs, Acquire(j)
  PROVE  IInv'
<1> USE DEF IInv, Acquire, Goto, dirs, containers, outcome, ghosts
<1>1. /\ j \notin slots /\ slots' = slots \cup {j}
      /\ Cardinality(slots) < MaxWorkers
  BY DEF Pool!Take, Pool!Cardinality, Cardinality
<1>2. TypeOK'
  BY <1>1 DEF TypeOK, PC, NoStatus, imageVars, ImageTypeOK
<1>3. SlotsMatchCalls'
  BY <1>1 DEF TypeOK, SlotsMatchCalls, InSlot, PC
<1>4. SlotsBound'
  <2>1. IsFiniteSet(slots) /\ Cardinality(slots) \in Nat
    BY ExecutorAssumption, FS_Subset, FS_CardinalityType DEF TypeOK
  <2>2. Cardinality(slots') = Cardinality(slots) + 1
    BY <1>1, <2>1, FS_AddElement
  <2>3. QED
    BY <1>1, <2>1, <2>2, ExecutorAssumption DEF SlotsBound
<1>5. ASSUME NEW k \in Jobs PROVE JobInv(k)'
  BY DEF TypeOK, JobInv, PhaseInv, ExitInv, ResultInv, HasTemp, HasContainer,
         Settled, Preparing
<1>6. QED
  BY <1>2, <1>3, <1>4, <1>5

\* Release: one holder less.
LEMMA ReleaseStep ==
  ASSUME IInv, NEW j \in Jobs, Release(j)
  PROVE  IInv'
<1> USE DEF IInv, Release, Goto, dirs, containers, outcome, ghosts
<1>1. slots' = slots \ {j}
  BY DEF Pool!Give
<1>2. TypeOK'
  BY <1>1 DEF TypeOK, PC, NoStatus, imageVars, ImageTypeOK
<1>3. SlotsMatchCalls'
  BY <1>1 DEF TypeOK, SlotsMatchCalls, InSlot, PC
<1>4. SlotsBound'
  <2>1. IsFiniteSet(slots)
    BY ExecutorAssumption, FS_Subset DEF TypeOK
  <2>2. Cardinality(slots') <= Cardinality(slots)
        /\ Cardinality(slots) \in Nat /\ Cardinality(slots') \in Nat
    <3>1. slots' \subseteq slots
      BY <1>1
    <3>2. QED
      BY <2>1, <3>1, FS_Subset, FS_CardinalityType
  <2>3. QED
    BY <2>2, ExecutorAssumption DEF SlotsBound
<1>5. ASSUME NEW k \in Jobs PROVE JobInv(k)'
  BY DEF TypeOK, JobInv, PhaseInv, ExitInv, ResultInv, HasTemp, HasContainer,
         Settled, Preparing
<1>6. QED
  BY <1>2, <1>3, <1>4, <1>5

-----------------------------------------------------------------------------
(* The environment *)

\* A container that ends states its exit status; its call is not past the wait
\* or is marked as timed out.
LEMMA ContainerExitsStep ==
  ASSUME IInv, NEW j \in Jobs, ContainerExits(j)
  PROVE  IInv'
<1> USE DEF IInv, ContainerExits, dirs, containers, outcome,
            ghosts
<1>1. TypeOK'
  BY DEF TypeOK, NoStatus, imageVars, ImageTypeOK
<1>2. SlotsMatchCalls' /\ SlotsBound'
  BY DEF SlotsMatchCalls, SlotsBound
<1>3. ASSUME NEW k \in Jobs PROVE JobInv(k)'
  <2>1. pc[j] \notin Preparing
    BY DEF JobInv, PhaseInv, HasContainer, Settled, Preparing
  <2>2. PhaseInv(k)' /\ ResultInv(k)'
    BY DEF TypeOK, JobInv, PhaseInv, ResultInv
  <2>3. ExitInv(k)'
    BY <2>1 DEF TypeOK, JobInv, ExitInv, NoStatus
  <2>4. QED
    BY <2>2, <2>3 DEF JobInv
<1>4. QED
  BY <1>1, <1>2, <1>3

\* Contexts end and files disappear: no phase depends on them.
LEMMA OutsideStep ==
  ASSUME IInv, NEW j \in Jobs,
         CtxDone(j) \/ InputRemoved(j) \/ OutputRemoved(j)
  PROVE  IInv'
<1> USE DEF IInv, CtxDone, InputRemoved, OutputRemoved, dirs, containers, outcome,
            ghosts
<1>1. TypeOK'
  BY DEF TypeOK, imageVars, ImageTypeOK
<1>2. SlotsMatchCalls' /\ SlotsBound'
  BY DEF SlotsMatchCalls, SlotsBound
<1>3. ASSUME NEW k \in Jobs PROVE JobInv(k)'
  BY DEF JobInv, PhaseInv, ExitInv, ResultInv
<1>4. QED
  BY <1>1, <1>2, <1>3

\* The image is prepared without touching the calls.
LEMMA PrepareImageStep ==
  ASSUME IInv, PrepareImage
  PROVE  IInv'
<1> USE DEF IInv, PrepareImage, jobVars, dirs, containers, outcome, ghosts
<1>1. ImageTypeOK'
  BY DEF TypeOK, ImageTypeOK, ImageNext, Prepare, CheckOnce, Inspect,
         PrepareRefused, PrepareStreamed, Publish, Prep
<1>2. TypeOK'
  BY <1>1 DEF TypeOK
<1>3. SlotsMatchCalls' /\ SlotsBound'
  BY DEF SlotsMatchCalls, SlotsBound
<1>4. ASSUME NEW k \in Jobs PROVE JobInv(k)'
  BY DEF JobInv, PhaseInv, ExitInv, ResultInv
<1>5. QED
  BY <1>2, <1>3, <1>4

\* A crash takes all slots and abandons all containers.
LEMMA CrashStep ==
  ASSUME IInv, Crash
  PROVE  IInv'
<1> USE DEF IInv, Crash, dirs, containers, outcome,
            ghosts
<1>1. TypeOK'
  <2>1. ImageTypeOK'
    BY DEF TypeOK, ImageTypeOK, ImageRestart, Prep
  <2>2. crashes' \in 0 .. MaxCrashes
    BY ExecutorAssumption DEF TypeOK
  <2>3. QED
    BY <2>1, <2>2 DEF TypeOK, PC
<1>2. SlotsMatchCalls'
  BY DEF TypeOK, SlotsMatchCalls, InSlot
<1>3. SlotsBound'
  BY ExecutorAssumption, FS_EmptySet DEF SlotsBound
<1>4. ASSUME NEW k \in Jobs PROVE JobInv(k)'
  BY DEF TypeOK, JobInv, PhaseInv, ExitInv, ResultInv, HasTemp, HasContainer,
         Settled, Preparing
<1>5. QED
  BY <1>1, <1>2, <1>3, <1>4

LEMMA StutterStep ==
  ASSUME IInv, UNCHANGED vars
  PROVE  IInv'
BY DEF vars, jobVars, dirs, containers, outcome, ghosts, imageVars, IInv,
       TypeOK, ImageTypeOK, SlotsMatchCalls, SlotsBound, JobInv, PhaseInv, ExitInv, ResultInv

-----------------------------------------------------------------------------
\* The phases are inductive: every step of a call, of the environment and of
\* the image's preparation keeps what they say.
THEOREM Inductive == IInv /\ [Next]_vars => IInv'
<1>1. SUFFICES ASSUME IInv, [Next]_vars PROVE IInv'
  OBVIOUS
<1>2. ASSUME NEW j \in Jobs, Call(j) PROVE IInv'
  BY <1>1, <1>2, ResolveStep, AcquireStep, BusyStep, CheckImageStep,
     MakeTempStep, MakeOutputStep, WriteMetadataStep, CreateStep, StartStep,
     WaitStatusStep, WaitTimeoutStep, WaitFailsStep, StopStep, LogsStep,
     ScanOutputsStep, RemoveStep, CleanTempStep, ReleaseStep DEF Call
<1>3. ASSUME NEW j \in Jobs, ContainerExits(j) PROVE IInv'
  BY <1>1, <1>3, ContainerExitsStep
<1>4. ASSUME NEW j \in Jobs, CtxDone(j) \/ InputRemoved(j) \/ OutputRemoved(j)
      PROVE  IInv'
  BY <1>1, <1>4, OutsideStep
<1>5. CASE PrepareImage
  BY <1>1, <1>5, PrepareImageStep
<1>6. CASE Crash
  BY <1>1, <1>6, CrashStep
<1>7. CASE UNCHANGED vars
  BY <1>1, <1>7, StutterStep
<1>8. QED
  BY <1>1, <1>2, <1>3, <1>4, <1>5, <1>6, <1>7 DEF Next

\* The inductive invariant holds in every reachable state.
THEOREM Invariance == Spec => []IInv
BY InitIInv, Inductive, PTL DEF Spec

\* The state of the calls keeps its types.
THEOREM TypeCorrect == Spec => []TypeOK
<1>1. IInv => TypeOK
  BY DEF IInv
<1>2. QED
  BY <1>1, Invariance, PTL

\* A slot is held exactly by the calls between Acquire and Release.
THEOREM SlotsExact == Spec => []SlotsMatchCalls
<1>1. IInv => SlotsMatchCalls
  BY DEF IInv
<1>2. QED
  BY <1>1, Invariance, PTL

\* A container that is not given up has its slot and its mounted script.
LEMMA CoveredFromPhases == IInv => ContainerCovered
<1>1. ASSUME IInv, NEW j \in Jobs, ctr[j] # "none", j \notin abandoned
      PROVE  j \in slots /\ j \in temp
  <2>1. pc[j] \in HasContainer
    BY <1>1 DEF IInv, JobInv, PhaseInv
  <2>2. pc[j] \in InSlot /\ pc[j] \in HasTemp
    BY <2>1 DEF HasContainer, HasTemp, InSlot, PC
  <2>3. QED
    BY <1>1, <2>2 DEF IInv, JobInv, PhaseInv, SlotsMatchCalls
<1>2. QED
  BY <1>1 DEF ContainerCovered

\* Slot and script outlive the container on every path, faults included.
THEOREM ContainersCovered == Spec => []ContainerCovered
BY CoveredFromPhases, Invariance, PTL

\* MAX_WORKERS bounds the containers that the server has not given up.
THEOREM ContainersBounded == Spec => []WorkersBound
<1> DEFINE Live == {j \in Jobs : ctr[j] # "none" /\ j \notin abandoned}
<1>1. ASSUME IInv PROVE Cardinality(Live) <= MaxWorkers
  <2>1. Live \subseteq slots
    BY <1>1, CoveredFromPhases DEF ContainerCovered
  <2>2. IsFiniteSet(slots)
    BY <1>1, ExecutorAssumption, FS_Subset DEF IInv, TypeOK
  <2> HIDE DEF Live
  <2>3. /\ Cardinality(Live) <= Cardinality(slots)
        /\ Cardinality(Live) \in Nat /\ Cardinality(slots) \in Nat
    BY <2>1, <2>2, FS_Subset, FS_CardinalityType
  <2>4. QED
    BY <1>1, <2>3, ExecutorAssumption DEF IInv, SlotsBound
<1>2. IInv => WorkersBound
  BY <1>1 DEF WorkersBound
<1>3. QED
  BY <1>2, Invariance, PTL

\* Exit codes and output lists are true, whichever way the select went.
THEOREM ResultsTrue == Spec => []TruthfulResult
<1>1. IInv => TruthfulResult
  BY DEF IInv, JobInv, ExitInv, TruthfulResult
<1>2. QED
  BY <1>1, Invariance, PTL

-----------------------------------------------------------------------------
(* What calls leave behind *)

\* A temporary directory or a container that outlives its call was left by a
\* failed removal or by a create whose answer was lost.
LeftInv(j) ==
  /\ j \in temp => Faults \/ pc[j] \in HasTemp \cup {"cleaning", "dead"}
  /\ ctr[j] # "none" => \/ pc[j] \in HasContainer \cup {"dead"}
                        \/ Faults /\ j \in abandoned
                        \/ /\ j \in ctxDone /\ result[j] = "error"
                           /\ pc[j] \in {"cleaning", "releasing", "done"}

LEMMA LeftInvariance == Spec => [](\A j \in Jobs : LeftInv(j))
<1>1. Init => \A j \in Jobs : LeftInv(j)
  BY DEF Init, LeftInv
<1>2. IInv /\ (\A j \in Jobs : LeftInv(j)) /\ [Next]_vars
        => (\A j \in Jobs : LeftInv(j))'
  <2>1. SUFFICES ASSUME IInv, \A j \in Jobs : LeftInv(j), [Next]_vars,
                        NEW k \in Jobs
                 PROVE  LeftInv(k)'
    OBVIOUS
  <2>2. TypeOK /\ ResultInv(k) /\ PhaseInv(k) /\ LeftInv(k)
    BY <2>1 DEF IInv, JobInv
  <2> USE DEF TypeOK, LeftInv, HasTemp, HasContainer, Settled, Goto, Fail, dirs,
              containers, outcome, ghosts
  <2>3. ASSUME NEW j \in Jobs,
               \/ Resolve(j) \/ Acquire(j) \/ Busy(j) \/ CheckImage(j)
               \/ MakeTemp(j) \/ MakeOutput(j) \/ WriteMetadata(j)
        PROVE  LeftInv(k)'
    BY <2>2, <2>3 DEF Resolve, Acquire, Busy, CheckImage, MakeTemp, MakeOutput,
       WriteMetadata, ResultInv, PhaseInv
  <2>4. ASSUME NEW j \in Jobs, Create(j) \/ Start(j)
        PROVE  LeftInv(k)'
    BY <2>2, <2>4 DEF Create, Start, ResultInv, PhaseInv
  <2>5. ASSUME NEW j \in Jobs,
               \/ WaitStatus(j) \/ WaitTimeout(j) \/ WaitFails(j) \/ Stop(j)
               \/ Logs(j) \/ ScanOutputs(j)
        PROVE  LeftInv(k)'
    BY <2>2, <2>5 DEF WaitStatus, WaitTimeout, WaitFails, Stop, Logs,
       ScanOutputs, ResultInv, PhaseInv
  <2>6. ASSUME NEW j \in Jobs, Remove(j) \/ CleanTemp(j) \/ Release(j)
        PROVE  LeftInv(k)'
    BY <2>2, <2>6 DEF Remove, CleanTemp, Release, ResultInv, PhaseInv
  <2>7. ASSUME NEW j \in Jobs,
               \/ ContainerExits(j) \/ CtxDone(j) \/ InputRemoved(j)
               \/ OutputRemoved(j)
        PROVE  LeftInv(k)'
    BY <2>2, <2>7 DEF ContainerExits, CtxDone, InputRemoved, OutputRemoved, Ended
  <2>8. CASE PrepareImage \/ UNCHANGED vars
    BY <2>2, <2>8 DEF PrepareImage, jobVars, vars
  <2>9. CASE Crash
    BY <2>2, <2>9 DEF Crash
  <2>10. QED
    BY <2>1, <2>3, <2>4, <2>5, <2>6, <2>7, <2>8, <2>9 DEF Next, Call
<1>3. QED
  BY <1>1, <1>2, Invariance, PTL DEF Spec

\* No path through ExecuteScript keeps a slot, a directory or a container, but
\* for failed removals and for containers created after their caller was gone.
THEOREM NoLeftovers == Spec => []NothingLeftBehind
<1>1. IInv /\ (\A j \in Jobs : LeftInv(j)) => NothingLeftBehind
  BY DEF IInv, LeftInv, NothingLeftBehind, SlotsMatchCalls, InSlot, HasTemp,
         HasContainer
<1>2. QED
  BY <1>1, Invariance, LeftInvariance, PTL

-----------------------------------------------------------------------------
(* The image *)

\* Before the first goroutine has looked, there is nothing to be seen.
UncheckedInv ==
  ~imageChecked => /\ ~imageReady /\ ~imageErr
                   /\ \A p \in Preparers : prep[p] = "started"

\* A step of the calls or of their surroundings does not touch the image.
LEMMA ImageStep ==
  [Next]_vars => UNCHANGED imageVars \/ ImageNext \/ ImageRestart
BY DEF Next, Call, PrepareImage, Crash, vars, Resolve, Acquire, Busy,
   CheckImage, MakeTemp, MakeOutput, WriteMetadata, Create, Start,
   WaitStatus, WaitTimeout, WaitFails, Stop, Logs, ScanOutputs, Remove,
   CleanTemp, Release, ContainerExits, CtxDone, InputRemoved, OutputRemoved

\* However many goroutines prepare the image, one of them decides, once.
LEMMA ImageInvariance == Spec => [](OneVerdict /\ UncheckedInv)
<1>1. Init => OneVerdict /\ UncheckedInv
  BY DEF Init, ImageInit, OneVerdict, UncheckedInv
<1>2. ImageTypeOK /\ OneVerdict /\ UncheckedInv /\ [Next]_vars
        => OneVerdict' /\ UncheckedInv'
  <2>1. SUFFICES ASSUME ImageTypeOK, OneVerdict, UncheckedInv, [Next]_vars
                 PROVE  OneVerdict' /\ UncheckedInv'
    OBVIOUS
  <2> USE DEF ImageTypeOK, OneVerdict, UncheckedInv
  <2>2. CASE UNCHANGED imageVars
    BY <2>1, <2>2 DEF imageVars
  <2>3. CASE ImageRestart
    BY <2>1, <2>3 DEF ImageRestart
  <2>4. ASSUME NEW p \in Preparers, CheckOnce(p)
        PROVE  OneVerdict' /\ UncheckedInv'
    BY <2>1, <2>4 DEF CheckOnce, Prep
  <2>5. ASSUME NEW p \in Preparers,
               Inspect(p) \/ PrepareRefused(p) \/ PrepareStreamed(p)
        PROVE  OneVerdict' /\ UncheckedInv'
    <3>1. imageChecked /\ prep[p] \in {"inspecting", "preparing"}
      BY <2>1, <2>5 DEF Inspect, PrepareRefused, PrepareStreamed
    <3>2. /\ ~imageReady /\ ~imageErr
          /\ \A q \in Preparers \ {p} : prep[q] \in {"started", "ended"}
      BY <2>1, <3>1
    <3>3. CASE Inspect(p)
      BY <2>1, <3>1, <3>2, <3>3 DEF Inspect, Prep
    <3>4. CASE PrepareRefused(p) \/ PrepareStreamed(p)
      <4>1. /\ UNCHANGED <<imageChecked, imageReady, imageErr>>
            /\ prep' = [prep EXCEPT ![p] = "prepared"]
        BY <3>4 DEF PrepareRefused, PrepareStreamed
      <4>2. \A q \in Preparers \ {p} : prep'[q] \in {"started", "ended"}
        BY <2>1, <3>2, <4>1
      <4>3. QED
        BY <3>1, <3>2, <4>1, <4>2
    <3>5. QED
      BY <2>5, <3>3, <3>4
  <2>6. ASSUME NEW p \in Preparers, Publish(p)
        PROVE  OneVerdict' /\ UncheckedInv'
    BY <2>1, <2>6 DEF Publish, Prep
  <2>7. ImageNext => OneVerdict' /\ UncheckedInv'
    BY <2>4, <2>5, <2>6 DEF ImageNext, Prepare
  <2>8. QED
    BY <2>1, <2>2, <2>3, <2>7, ImageStep
<1>3. TypeOK => ImageTypeOK
  BY DEF TypeOK
<1>4. QED
  BY <1>1, <1>2, <1>3, TypeCorrect, PTL DEF Spec

\* So no verdict is published on top of another one.
THEOREM OnePublished == Spec => []OneVerdict
BY ImageInvariance, PTL

\* An outcome stands: the goroutines that come later find that the image was
\* looked for, and nobody is at work any more to publish another one.
THEOREM VerdictsStand == Spec => VerdictStands
<1>1. ASSUME ImageTypeOK, OneVerdict, UncheckedInv, [Next]_vars,
             imageReady \/ imageErr
      PROVE  UNCHANGED <<imageReady, imageErr>> \/ ~imageChecked'
  <2>1. imageChecked
    BY <1>1 DEF UncheckedInv, ImageTypeOK
  <2>2. \A p \in Preparers : prep[p] \in {"started", "ended"}
    BY <1>1 DEF OneVerdict, ImageTypeOK, Prep
  <2>3. ASSUME NEW p \in Preparers, Prepare(p)
        PROVE  UNCHANGED <<imageReady, imageErr>>
    BY <2>1, <2>2, <2>3
       DEF Prepare, CheckOnce, Inspect, PrepareRefused, PrepareStreamed, Publish
  <2>4. CASE ImageRestart
    BY <2>4 DEF ImageRestart
  <2>5. QED
    BY <1>1, <2>3, <2>4, ImageStep DEF ImageNext, imageVars
<1>2. ASSUME ImageTypeOK, OneVerdict, UncheckedInv, [Next]_vars
      PROVE  [imageReady \/ imageErr =>
                \/ UNCHANGED <<imageReady, imageErr>>
                \/ ~imageChecked']_imageVars
  BY <1>1, <1>2
<1>3. TypeOK => ImageTypeOK
  BY DEF TypeOK
<1>4. QED
  BY <1>2, <1>3, TypeCorrect, ImageInvariance, PTL
     DEF Spec, VerdictStands

-----------------------------------------------------------------------------
(* The calls as their clients see them *)

Containers == [j \in Jobs |-> Container(j)]
Verdicts   == [j \in Jobs |-> Verdict(j)]
Answered   == {j \in Jobs : pc[j] = "done"}

\* A step of one call, or of its container, leaves the other calls alone.
LEMMA OthersUntouched ==
  ASSUME TypeOK, NEW j \in Jobs, Call(j) \/ ContainerExits(j),
         NEW k \in Jobs, k # j
  PROVE  /\ pc'[k] = pc[k] /\ ctr'[k] = ctr[k] /\ result'[k] = result[k]
         /\ exitCode'[k] = exitCode[k]
         /\ k \in abandoned' <=> k \in abandoned
         /\ k \in timedOut' <=> k \in timedOut
<1> USE DEF TypeOK, Goto, Fail, dirs, containers, outcome, ghosts
<1>1. CASE \/ Resolve(j) \/ Acquire(j) \/ Busy(j) \/ CheckImage(j)
           \/ MakeTemp(j) \/ MakeOutput(j) \/ WriteMetadata(j)
  BY <1>1 DEF Resolve, Acquire, Busy, CheckImage, MakeTemp, MakeOutput,
     WriteMetadata
<1>2. CASE Create(j) \/ Start(j) \/ WaitStatus(j) \/ WaitTimeout(j)
           \/ WaitFails(j) \/ Stop(j)
  BY <1>2 DEF Create, Start, WaitStatus, WaitTimeout, WaitFails, Stop
<1>3. CASE Logs(j) \/ ScanOutputs(j) \/ Remove(j) \/ CleanTemp(j) \/ Release(j)
           \/ ContainerExits(j)
  BY <1>3 DEF Logs, ScanOutputs, Remove, CleanTemp, Release, ContainerExits
<1>4. QED
  BY <1>1, <1>2, <1>3 DEF Call

\* What a step of a call does to what its client sees is what it does to the
\* call's own container and verdict.
LEMMA OnlyOwn ==
  ASSUME TypeOK, NEW j \in Jobs, Call(j) \/ ContainerExits(j)
  PROVE  /\ Containers' = [Containers EXCEPT ![j] = Container(j)']
         /\ Verdicts' = [Verdicts EXCEPT ![j] = Verdict(j)']
         /\ pc'[j] = "done" => Answered' = Answered \cup {j}
         /\ pc[j] # "done" /\ pc'[j] # "done" => Answered' = Answered
<1>1. ASSUME NEW k \in Jobs, k # j
      PROVE  /\ Container(k)' = Container(k) /\ Verdict(k)' = Verdict(k)
             /\ pc'[k] = pc[k]
  BY <1>1, OthersUntouched DEF Container, Verdict
<1>2. Containers' = [Containers EXCEPT ![j] = Container(j)']
  BY <1>1 DEF Containers
<1>3. Verdicts' = [Verdicts EXCEPT ![j] = Verdict(j)']
  BY <1>1 DEF Verdicts
<1>4. QED
  BY <1>1, <1>2, <1>3 DEF Answered

\* A call that is being prepared has no container yet and no verdict.
LEMMA FreshCall ==
  ASSUME IInv, NEW j \in Jobs, pc[j] \in Preparing
  PROVE  /\ ctr[j] = "none" /\ j \notin abandoned
         /\ Container(j) = "none" /\ Verdict(j) = "none"
         /\ j \in slots <=> pc[j] \notin {"idle", "waiting"}
<1>1. ctr[j] = "none" /\ j \notin abandoned
  BY DEF IInv, JobInv, PhaseInv, Preparing, HasContainer, Settled
<1>2. Container(j) = "none" /\ Verdict(j) = "none"
  BY <1>1 DEF Container, Verdict, Preparing
<1>3. j \in slots <=> pc[j] \notin {"idle", "waiting"}
  BY DEF IInv, SlotsMatchCalls, Preparing, InSlot, PC
<1>4. QED
  BY <1>1, <1>2, <1>3

\* A call with a container to attend to has its slot and no verdict.
LEMMA AttendedCall ==
  ASSUME IInv, NEW j \in Jobs, pc[j] \in HasContainer
  PROVE  /\ ctr[j] # "none" /\ j \notin abandoned /\ j \in slots
         /\ Container(j) = IF ctr[j] = "exited" THEN "ended" ELSE "live"
         /\ Verdict(j) = "none"
<1>1. ctr[j] # "none" /\ j \notin abandoned
  BY DEF IInv, JobInv, PhaseInv
<1>2. pc[j] \in InSlot
  BY DEF HasContainer, InSlot, PC
<1>3. Verdict(j) = "none"
  BY DEF Verdict, HasContainer
<1>4. QED
  BY <1>1, <1>2, <1>3 DEF IInv, SlotsMatchCalls, Container

\* A step that shows neither in the container nor in the verdict is not seen.
LEMMA Unseen ==
  ASSUME IInv, NEW j \in Jobs, Call(j), pc[j] # "done", pc'[j] # "done",
         Container(j)' = Container(j), Verdict(j)' = Verdict(j),
         UNCHANGED <<slots, status, ctxDone>>
  PROVE  UNCHANGED Calls!vars
<1>1. /\ Containers' = [Containers EXCEPT ![j] = Container(j)']
      /\ Verdicts' = [Verdicts EXCEPT ![j] = Verdict(j)']
      /\ Answered' = Answered
  BY OnlyOwn DEF IInv
<1>2. Containers' = Containers /\ Verdicts' = Verdicts
  BY <1>1 DEF Containers, Verdicts
<1>3. QED
  BY <1>1, <1>2 DEF Calls!vars, Containers, Verdicts, Answered

\* Giving up before there is a container.
LEMMA GivesUp ==
  ASSUME IInv, NEW j \in Jobs, Call(j), pc[j] \in Preparing, j \in slots,
         pc'[j] \in {"cleaning", "releasing"}, result'[j] = "error",
         \/ Container(j)' = "over"
         \/ (j \in ctxDone \/ Faults) /\ Container(j)' = "stray",
         UNCHANGED <<slots, status, ctxDone>>
  PROVE  Calls!Withdraw(j)
<1>1. Verdict(j)' = "error"
  BY DEF Verdict
<1>2. /\ Containers' = [Containers EXCEPT ![j] = Container(j)']
      /\ Verdicts' = [Verdicts EXCEPT ![j] = "error"]
      /\ Answered' = Answered
  <2>1. pc[j] # "done" /\ pc'[j] # "done"
    BY DEF Preparing
  <2>2. QED
    BY <1>1, <2>1, OnlyOwn DEF IInv
<1>3. Containers[j] = "none"
  BY FreshCall DEF Containers
<1>4. QED
  BY <1>2, <1>3 DEF Calls!Withdraw, Calls!Becomes, Calls!Decide, Containers,
     Verdicts, Answered

\* Up to the container: on, or an error.
LEMMA PreparingImplements ==
  ASSUME IInv, NEW j \in Jobs,
         CheckImage(j) \/ MakeTemp(j) \/ MakeOutput(j) \/ WriteMetadata(j)
  PROVE  [Calls!Next]_(Calls!vars)
<1> USE DEF CheckImage, MakeTemp, MakeOutput, WriteMetadata
<1>1. /\ pc[j] \in Preparing /\ pc[j] \notin {"idle", "waiting"}
      /\ Call(j) /\ UNCHANGED <<slots, status, ctxDone, ctr, abandoned>>
  BY DEF Preparing, Call, containers, ghosts
<1>2. j \in slots /\ ctr[j] = "none"
      /\ Container(j) = "none" /\ Verdict(j) = "none"
  BY <1>1, FreshCall
<1>3. CASE pc'[j] \in Preparing
  <2>1. Container(j)' = "none" /\ Verdict(j)' = "none"
    BY <1>1, <1>2, <1>3 DEF Container, Verdict, Preparing
  <2>2. pc[j] # "done" /\ pc'[j] # "done"
    BY <1>1, <1>3 DEF Preparing
  <2>3. QED
    BY <1>1, <1>2, <2>1, <2>2, Unseen
<1>4. CASE pc'[j] \in {"cleaning", "releasing"} /\ result'[j] = "error"
  <2>1. Container(j)' = "over"
    BY <1>1, <1>2, <1>4 DEF Container, Preparing
  <2>2. Calls!Withdraw(j)
    BY <1>1, <1>2, <1>4, <2>1, GivesUp
  <2>3. QED
    BY <2>2 DEF Calls!Next
<1>5. QED
  BY <1>3, <1>4 DEF Goto, Fail, Preparing, IInv, TypeOK

\* Refused, or no slot: answered with an error at once.
LEMMA TurnedAwayImplements ==
  ASSUME IInv, NEW j \in Jobs, Resolve(j) \/ Busy(j)
  PROVE  [Calls!Next]_(Calls!vars)
<1> USE DEF Resolve, Busy
<1>1. /\ pc[j] \in {"idle", "waiting"} /\ Call(j)
      /\ UNCHANGED <<slots, status, ctxDone, ctr, abandoned>>
  BY DEF Call, containers, ghosts
<1>2. j \notin slots /\ ctr[j] = "none"
      /\ Container(j) = "none" /\ Verdict(j) = "none"
  BY <1>1, FreshCall DEF Preparing
<1>3. CASE pc'[j] = "waiting"
  <2>1. Container(j)' = "none" /\ Verdict(j)' = "none"
    BY <1>1, <1>2, <1>3 DEF Container, Verdict, Preparing
  <2>2. QED
    BY <1>1, <1>2, <1>3, <2>1, Unseen
<1>4. CASE pc'[j] = "done" /\ result'[j] = "error"
  <2>1. Container(j)' = "over" /\ Verdict(j)' = "error"
    BY <1>1, <1>2, <1>4 DEF Container, Verdict, Preparing
  <2>2. /\ Containers' = [Containers EXCEPT ![j] = "over"]
        /\ Verdicts' = [Verdicts EXCEPT ![j] = "error"]
        /\ Answered' = Answered \cup {j}
    BY <1>1, <1>4, <2>1, OnlyOwn DEF IInv
  <2>3. Containers[j] = "none"
    BY <1>2 DEF Containers
  <2>4. Calls!TurnAway(j)
    BY <1>1, <1>2, <2>2, <2>3 DEF Calls!TurnAway, Calls!Becomes, Calls!Decide,
       Containers, Verdicts, Answered
  <2>5. QED
    BY <2>4 DEF Calls!Next
<1>5. QED
  BY <1>3, <1>4 DEF Goto, Fail, IInv, TypeOK

\* The slot.
LEMMA AcquireImplements ==
  ASSUME IInv, NEW j \in Jobs, Acquire(j)
  PROVE  [Calls!Next]_(Calls!vars)
<1> USE DEF Acquire, Goto
<1>1. /\ j \notin slots /\ slots' = slots \cup {j}
      /\ Cardinality(slots) < MaxWorkers
      /\ Call(j) /\ UNCHANGED <<status, ctxDone, ctr, abandoned>>
  BY DEF Pool!Take, Pool!Cardinality, Cardinality, Call, containers, ghosts
<1>2. pc[j] = "waiting" /\ pc'[j] = "admitted"
  BY DEF IInv, TypeOK
<1>3. ctr[j] = "none" /\ Container(j) = "none" /\ Verdict(j) = "none"
  BY <1>2, FreshCall DEF Preparing
<1>4. Container(j)' = "none" /\ Verdict(j)' = "none"
  BY <1>1, <1>2, <1>3 DEF Container, Verdict, Preparing
<1>5. /\ Containers' = [Containers EXCEPT ![j] = "none"]
      /\ Verdicts' = [Verdicts EXCEPT ![j] = "none"]
      /\ Answered' = Answered
  BY <1>1, <1>2, <1>4, OnlyOwn DEF IInv
<1>6. Containers[j] = "none" /\ Containers' = Containers /\ Verdicts' = Verdicts
  BY <1>3, <1>5 DEF Containers, Verdicts
<1>7. Calls!Admit(j)
  BY <1>1, <1>5, <1>6 DEF Calls!Admit, Calls!Cardinality, Cardinality,
     Containers, Verdicts, Answered
<1>8. QED
  BY <1>7 DEF Calls!Next

\* The container is made, or not, or made for nobody.
LEMMA CreateImplements ==
  ASSUME IInv, NEW j \in Jobs, Create(j)
  PROVE  [Calls!Next]_(Calls!vars)
<1>1. /\ pc[j] = "mounting" /\ Call(j)
      /\ UNCHANGED <<slots, status, ctxDone>>
  BY DEF Create, Call, containers
<1>2. /\ j \in slots /\ ctr[j] = "none" /\ j \notin abandoned
      /\ Container(j) = "none" /\ Verdict(j) = "none"
  BY <1>1, FreshCall DEF Preparing
<1>3. CASE pc'[j] = "created" /\ ctr'[j] = "created" /\ UNCHANGED abandoned
  <2>1. Container(j)' = "live" /\ Verdict(j)' = "none"
    BY <1>2, <1>3 DEF Container, Verdict
  <2>2. /\ Containers' = [Containers EXCEPT ![j] = "live"]
        /\ Verdicts' = [Verdicts EXCEPT ![j] = "none"]
        /\ Answered' = Answered
    BY <1>1, <1>3, <2>1, OnlyOwn DEF IInv
  <2>3. Containers[j] = "none" /\ Verdicts' = Verdicts
    BY <1>2, <2>2 DEF Containers, Verdicts
  <2>4. Calls!Launch(j)
    BY <1>1, <1>2, <2>2, <2>3 DEF Calls!Launch, Calls!Becomes, Containers,
       Verdicts, Answered
  <2>5. QED
    BY <2>4 DEF Calls!Next
<1>4. CASE /\ pc'[j] = "cleaning" /\ result'[j] = "error"
           /\ \/ ctr'[j] = "none"
              \/ (j \in ctxDone \/ Faults) /\ ctr'[j] = "created" /\ j \in abandoned'
  <2>1. \/ Container(j)' = "over"
        \/ (j \in ctxDone \/ Faults) /\ Container(j)' = "stray"
    BY <1>4 DEF Container, Preparing
  <2>2. Calls!Withdraw(j)
    BY <1>1, <1>2, <1>4, <2>1, GivesUp DEF Preparing
  <2>3. QED
    BY <2>2 DEF Calls!Next
<1>5. QED
  BY <1>2, <1>3, <1>4 DEF Create, Goto, Fail, IInv, TypeOK

\* With the container there: the client sees nothing of the start, the wait,
\* the logs and the outputs.
LEMMA AttendingImplements ==
  ASSUME IInv, NEW j \in Jobs,
         \/ Start(j) \/ WaitStatus(j) \/ WaitTimeout(j) \/ WaitFails(j)
         \/ Logs(j) \/ ScanOutputs(j)
  PROVE  UNCHANGED Calls!vars
<1> USE DEF Start, WaitStatus, WaitTimeout, WaitFails, Logs, ScanOutputs,
            Goto, Fail
<1>1. /\ pc[j] \in HasContainer /\ Call(j)
      /\ UNCHANGED <<slots, status, ctxDone, abandoned>>
  BY DEF HasContainer, Call, containers, ghosts
<1>2. pc'[j] \in HasContainer
  BY DEF IInv, TypeOK, HasContainer
<1>3. /\ ctr[j] # "none" /\ j \notin abandoned /\ Verdict(j) = "none"
      /\ Container(j) = IF ctr[j] = "exited" THEN "ended" ELSE "live"
  BY <1>1, AttendedCall
<1>4. /\ ctr'[j] # "none"
      /\ ctr'[j] = "exited" <=> ctr[j] = "exited"
  <2>1. pc[j] = "created" => ctr[j] = "created"
    BY DEF IInv, JobInv, PhaseInv
  <2>2. CASE Start(j)
    BY <1>3, <2>1, <2>2 DEF IInv, TypeOK
  <2>3. CASE UNCHANGED ctr
    BY <1>3, <2>3
  <2>4. QED
    BY <2>2, <2>3 DEF containers
<1>5. Container(j)' = Container(j) /\ Verdict(j)' = Verdict(j)
  BY <1>1, <1>2, <1>3, <1>4 DEF Container, Verdict, HasContainer
<1>6. QED
  BY <1>1, <1>2, <1>5, Unseen DEF HasContainer

\* A container that ends has one exit status, which stays.
LEMMA ExitImplements ==
  ASSUME IInv, NEW j \in Jobs, Call(j) \/ ContainerExits(j),
         ctr[j] = "running", ctr' = [ctr EXCEPT ![j] = "exited"],
         NEW s \in {0, 1}, status' = [status EXCEPT ![j] = s],
         pc[j] \in PC, pc[j] # "done" => pc'[j] # "done",
         pc[j] = pc'[j] \/ {pc[j], pc'[j]} \subseteq HasContainer,
         UNCHANGED <<slots, ctxDone, result, timedOut, exitCode, abandoned>>
  PROVE  Calls!Exit(j)
<1>1. status[j] = NoStatus
  BY DEF IInv, JobInv, ExitInv
<1>2. /\ Container(j) \in {"live", "stray"}
      /\ Container(j)' = IF Container(j) = "live" THEN "ended" ELSE "stray"
  BY DEF IInv, TypeOK, Container
<1>3. Verdict(j)' = Verdict(j)
  BY DEF Verdict, HasContainer
<1>4. /\ Containers' = [Containers EXCEPT ![j] =
                          IF @ = "live" THEN "ended" ELSE @]
      /\ Verdicts' = Verdicts /\ Answered' = Answered
  <2>1. /\ Containers' = [Containers EXCEPT ![j] = Container(j)']
        /\ Verdicts' = [Verdicts EXCEPT ![j] = Verdict(j)']
        /\ Answered' = Answered
    <3>1. CASE pc[j] # "done"
      BY <3>1, OnlyOwn DEF IInv
    <3>2. CASE pc[j] = "done"
      <4>1. pc'[j] = "done" /\ j \in Answered
        BY <3>2 DEF HasContainer, Answered
      <4>2. Answered' = Answered \cup {j}
        BY <4>1, OnlyOwn DEF IInv
      <4>3. QED
        BY <4>1, <4>2, OnlyOwn DEF IInv
    <3>3. QED
      BY <3>1, <3>2
  <2>2. Containers[j] = Container(j) /\ Verdicts[j] = Verdict(j)
    BY DEF Containers, Verdicts
  <2>3. QED
    BY <1>2, <1>3, <2>1, <2>2 DEF Verdicts
<1>5. QED
  BY <1>1, <1>2, <1>4 DEF Calls!Exit, Calls!NoStatus, NoStatus, Containers,
     Verdicts, Answered

LEMMA StopImplements ==
  ASSUME IInv, NEW j \in Jobs, Stop(j)
  PROVE  [Calls!Next]_(Calls!vars)
<1>1. /\ pc[j] = "stopping" /\ pc'[j] = "waited" /\ Call(j)
      /\ UNCHANGED <<slots, ctxDone, result, timedOut, exitCode, abandoned>>
  BY DEF Stop, Goto, Call, outcome, ghosts, IInv, TypeOK
<1>2. /\ ctr[j] # "none" /\ j \notin abandoned /\ Verdict(j) = "none"
      /\ Container(j) = IF ctr[j] = "exited" THEN "ended" ELSE "live"
  BY <1>1, AttendedCall DEF HasContainer
<1>3. CASE /\ ctr[j] = "running" /\ ctr' = [ctr EXCEPT ![j] = "exited"]
           /\ status' = [status EXCEPT ![j] = 1]
  <2>1. pc[j] \in PC /\ {pc[j], pc'[j]} \subseteq HasContainer /\ 1 \in {0, 1}
    BY <1>1 DEF PC, HasContainer
  <2>2. Calls!Exit(j)
    BY <1>1, <1>3, <2>1, ExitImplements
  <2>3. QED
    BY <2>2 DEF Calls!Next
<1>4. CASE UNCHANGED <<ctr, status>>
  <2>1. Container(j)' = Container(j) /\ Verdict(j)' = Verdict(j)
    BY <1>1, <1>2, <1>4 DEF Container, Verdict
  <2>2. QED
    BY <1>1, <1>4, <2>1, Unseen
<1>5. QED
  BY <1>3, <1>4 DEF Stop, containers

LEMMA ContainerExitsImplements ==
  ASSUME IInv, NEW j \in Jobs, ContainerExits(j)
  PROVE  [Calls!Next]_(Calls!vars)
<1>1. PICK s \in {0, 1} : status' = [status EXCEPT ![j] = s]
  BY DEF ContainerExits
<1>2. /\ ctr[j] = "running" /\ ctr' = [ctr EXCEPT ![j] = "exited"]
      /\ UNCHANGED <<pc, slots, ctxDone, result, timedOut, exitCode, abandoned>>
      /\ pc[j] \in PC
  BY DEF ContainerExits, outcome, ghosts, IInv, TypeOK
<1>3. Calls!Exit(j)
  BY <1>1, <1>2, ExitImplements
<1>4. QED
  BY <1>3 DEF Calls!Next

\* The container is removed or given up: what is answered is what the wait
\* found, of a container that had ended if it is an exit code.
LEMMA RemoveImplements ==
  ASSUME IInv, NEW j \in Jobs, Remove(j)
  PROVE  [Calls!Next]_(Calls!vars)
<1>1. /\ pc[j] = "removing" /\ pc'[j] = "cleaning" /\ Call(j)
      /\ UNCHANGED <<slots, status, ctxDone, result, timedOut, exitCode>>
      /\ \/ ctr'[j] = "none"
         \/ Faults /\ ctr' = ctr /\ j \in abandoned'
  BY DEF Remove, Goto, Call, outcome, ghosts, IInv, TypeOK
<1>2. /\ ctr[j] # "none" /\ j \in slots
      /\ Container(j) = IF ctr[j] = "exited" THEN "ended" ELSE "live"
  BY <1>1, AttendedCall DEF HasContainer
<1>3. Container(j)' = "over" \/ (Faults /\ Container(j)' = "stray")
  BY <1>1, <1>2 DEF Container, Preparing
<1>4. \/ Verdict(j)' = "error"
      \/ j \in ctxDone /\ Verdict(j)' = "timeout"
      \/ Container(j) = "ended" /\ Verdict(j)' = Calls!Told(status[j])
  <2>1. result[j] \in {"error", "result"}
    BY <1>1 DEF IInv, TypeOK, JobInv, ResultInv
  <2>2. CASE result[j] = "error"
    BY <1>1, <2>2 DEF Verdict
  <2>3. CASE result[j] = "result" /\ j \in timedOut
    BY <1>1, <2>3 DEF Verdict, IInv, JobInv, ExitInv
  <2>4. CASE result[j] = "result" /\ j \notin timedOut
    <3>1. ctr[j] = "exited" /\ exitCode[j] = status[j]
      BY <1>2, <2>4 DEF IInv, JobInv, ExitInv
    <3>2. Verdict(j)' = IF exitCode[j] = 0 THEN "success" ELSE "failure"
      BY <1>1, <2>4 DEF Verdict
    <3>3. QED
      BY <1>2, <3>1, <3>2 DEF Calls!Told
  <2>5. QED
    BY <2>1, <2>2, <2>3, <2>4
<1>5. /\ Containers' = [Containers EXCEPT ![j] = Container(j)']
      /\ Verdicts' = [Verdicts EXCEPT ![j] = Verdict(j)']
      /\ Answered' = Answered
  BY <1>1, OnlyOwn DEF IInv
<1>6. Containers[j] = Container(j) /\ Container(j) \in {"live", "ended"}
  BY <1>2 DEF Containers
<1>7. Calls!Retire(j)
  BY <1>1, <1>2, <1>3, <1>4, <1>5, <1>6 DEF Calls!Retire, Calls!Becomes,
     Calls!Decide, Containers, Verdicts, Answered
<1>8. QED
  BY <1>7 DEF Calls!Next

LEMMA CleanTempImplements ==
  ASSUME IInv, NEW j \in Jobs, CleanTemp(j)
  PROVE  UNCHANGED Calls!vars
<1>1. /\ pc[j] = "cleaning" /\ pc'[j] = "releasing" /\ Call(j)
      /\ UNCHANGED <<slots, status, ctxDone, ctr, abandoned, result, timedOut,
                     exitCode>>
  BY DEF CleanTemp, Goto, Call, containers, outcome, ghosts, IInv, TypeOK
<1>2. Container(j)' = Container(j) /\ Verdict(j)' = Verdict(j)
  BY <1>1 DEF Container, Verdict, Preparing
<1>3. QED
  BY <1>1, <1>2, Unseen

\* The slot goes back and the answer out, in one step.
LEMMA ReleaseImplements ==
  ASSUME IInv, NEW j \in Jobs, Release(j)
  PROVE  [Calls!Next]_(Calls!vars)
<1>1. /\ pc[j] = "releasing" /\ pc'[j] = "done" /\ Call(j)
      /\ j \in slots /\ slots' = slots \ {j}
      /\ UNCHANGED <<status, ctxDone, ctr, abandoned, result, timedOut, exitCode>>
  BY DEF Release, Pool!Give, Goto, Call, containers, outcome, ghosts, IInv, TypeOK
<1>2. Container(j)' = Container(j) /\ Verdict(j)' = Verdict(j)
  BY <1>1 DEF Container, Verdict, Preparing
<1>3. /\ Containers' = [Containers EXCEPT ![j] = Container(j)]
      /\ Verdicts' = [Verdicts EXCEPT ![j] = Verdict(j)]
      /\ Answered' = Answered \cup {j}
  BY <1>1, <1>2, OnlyOwn DEF IInv
<1>4. Containers' = Containers /\ Verdicts' = Verdicts /\ Verdicts[j] = Verdict(j)
  BY <1>3 DEF Containers, Verdicts
<1>5. Verdict(j) # "none"
  <2>1. result[j] # "none"
    BY <1>1 DEF IInv, JobInv, ResultInv, Settled
  <2>2. QED
    BY <1>1, <2>1 DEF Verdict
<1>6. Calls!Answer(j)
  BY <1>1, <1>3, <1>4, <1>5 DEF Calls!Answer, Containers, Verdicts, Answered
<1>7. QED
  BY <1>6 DEF Calls!Next

\* Contexts end; what else goes on outside is not seen.
LEMMA OutsideImplements ==
  ASSUME IInv,
         \/ \E j \in Jobs : CtxDone(j) \/ InputRemoved(j) \/ OutputRemoved(j)
         \/ PrepareImage
  PROVE  [Calls!Next]_(Calls!vars)
<1>1. UNCHANGED <<slots, pc, ctr, status, abandoned, result, timedOut, exitCode>>
  BY DEF CtxDone, InputRemoved, OutputRemoved, PrepareImage, jobVars,
     containers, outcome, ghosts
<1>2. UNCHANGED <<Containers, Verdicts, Answered>>
  BY <1>1 DEF Containers, Container, Verdicts, Verdict, Answered
<1>3. CASE \E j \in Jobs : CtxDone(j)
  <2>1. PICK j \in Jobs : ctxDone' = ctxDone \cup {j}
    BY <1>3 DEF CtxDone
  <2>2. Calls!Expire(j)
    BY <1>1, <1>2, <2>1 DEF Calls!Expire, Containers, Verdicts, Answered
  <2>3. QED
    BY <2>2 DEF Calls!Next
<1>4. CASE UNCHANGED ctxDone
  BY <1>1, <1>2, <1>4 DEF Calls!vars, Containers, Verdicts, Answered
<1>5. QED
  BY <1>3, <1>4 DEF InputRemoved, OutputRemoved, PrepareImage, jobVars

\* A crash: whoever waits or works is lost, and its container with it.
LEMMA CrashImplements ==
  ASSUME IInv, Crash
  PROVE  [Calls!Next]_(Calls!vars)
<1> DEFINE Waiting == {j \in Jobs : pc[j] = "waiting"}
<1>1. /\ slots' = {} /\ UNCHANGED <<ctxDone, ctr, status, timedOut, exitCode, result>>
      /\ pc' = [j \in Jobs |->
                  IF pc[j] \in {"idle", "done"} THEN pc[j] ELSE "dead"]
      /\ abandoned' = abandoned \cup {j \in Jobs : ctr[j] # "none"}
  BY DEF Crash, containers, outcome
<1>2. ASSUME NEW j \in Jobs
      PROVE  /\ Container(j)' =
                  CASE Container(j) \in {"live", "ended"} -> "stray"
                    [] Container(j) = "none" /\ j \in slots \cup Waiting -> "over"
                    [] OTHER -> Container(j)
             /\ Verdict(j)' = IF j \in Answered THEN Verdict(j) ELSE "none"
             /\ j \in Answered' <=> j \in Answered
  <2>1. j \in slots \cup Waiting <=> pc[j] \notin {"idle", "done", "dead"}
    BY DEF IInv, TypeOK, SlotsMatchCalls, InSlot, PC
  <2>2. CASE ctr[j] = "none"
    <3>1. Container(j) = IF pc[j] \in Preparing THEN "none" ELSE "over"
      BY <2>2 DEF Container
    <3>2. Container(j)' = IF pc[j] = "idle" THEN "none" ELSE "over"
      BY <1>1, <2>2 DEF Container, Preparing
    <3>3. QED
      BY <1>1, <2>1, <3>1, <3>2 DEF Verdict, Answered, Preparing
  <2>3. CASE ctr[j] # "none"
    <3>1. Container(j)' = "stray"
      BY <1>1, <2>3 DEF Container
    <3>2. Container(j) \in {"live", "ended", "stray"}
      BY <2>3 DEF Container
    <3>3. QED
      BY <1>1, <3>1, <3>2 DEF Verdict, Answered
  <2>4. QED
    BY <2>2, <2>3
<1>3. Containers' = [j \in Jobs |->
        CASE Containers[j] \in {"live", "ended"} -> "stray"
          [] Containers[j] = "none" /\ j \in slots \cup Waiting -> "over"
          [] OTHER -> Containers[j]]
  BY <1>2 DEF Containers
<1>4. Verdicts' = [j \in Jobs |-> IF j \in Answered THEN Verdicts[j] ELSE "none"]
  BY <1>2 DEF Verdicts
<1>5. Answered' = Answered
  BY <1>2 DEF Answered
<1>6. Calls!Crash(Waiting)
  BY <1>1, <1>3, <1>4, <1>5 DEF Calls!Crash, Containers, Verdicts, Answered
<1>7. Waiting \in SUBSET Jobs
  OBVIOUS
<1>8. QED
  BY <1>6, <1>7 DEF Calls!Next

\* Tool calls are what their clients are promised: every step of the executor,
\* of its containers and of the process is a step of such a call or is not seen.
THEOREM ImplementsToolCalls == Spec => ToolCallsSpec
<1>1. Init => Calls!Init
  BY DEF Init, Calls!Init, Container, Verdict, Preparing, NoStatus, Calls!NoStatus
<1>2. IInv /\ [Next]_vars => [Calls!Next]_(Calls!vars)
  <2>1. SUFFICES ASSUME IInv, [Next]_vars PROVE [Calls!Next]_(Calls!vars)
    OBVIOUS
  <2>2. ASSUME NEW j \in Jobs, Call(j) PROVE [Calls!Next]_(Calls!vars)
    BY <2>1, <2>2, TurnedAwayImplements, AcquireImplements,
       PreparingImplements, CreateImplements, AttendingImplements,
       StopImplements, RemoveImplements, CleanTempImplements,
       ReleaseImplements DEF Call
  <2>3. ASSUME NEW j \in Jobs, ContainerExits(j)
        PROVE  [Calls!Next]_(Calls!vars)
    BY <2>1, <2>3, ContainerExitsImplements
  <2>4. CASE \/ \E j \in Jobs : CtxDone(j) \/ InputRemoved(j) \/ OutputRemoved(j)
             \/ PrepareImage
    BY <2>1, <2>4, OutsideImplements
  <2>5. CASE Crash
    BY <2>1, <2>5, CrashImplements
  <2>6. CASE UNCHANGED vars
    BY <2>6 DEF vars, jobVars, containers, outcome, ghosts, Calls!vars,
       Container, Verdict
  <2>7. QED
    BY <2>1, <2>2, <2>3, <2>4, <2>5, <2>6 DEF Next
<1>3. QED
  BY <1>1, <1>2, Invariance, PTL DEF Spec, ToolCallsSpec, Calls!Spec

-----------------------------------------------------------------------------
(* What clients have from the promise of tool calls *)

Promise == INSTANCE ToolCallsProofs WITH
  holders   <- slots,
  container <- [j \in Jobs |-> Container(j)],
  exit      <- status,
  late      <- ctxDone,
  verdict   <- [j \in Jobs |-> Verdict(j)],
  answered  <- {j \in Jobs : pc[j] = "done"}

\* The two instances of the promise are one.
LEMMA CallsArePromise == ToolCallsSpec => Promise!Spec
<1> USE DEF Calls!Becomes, Calls!Decide, Calls!Told, Calls!NoStatus,
            Promise!Becomes, Promise!Decide, Promise!Told, Promise!NoStatus
<1>1. Calls!Init => Promise!Init
  BY DEF Calls!Init, Promise!Init
<1>2. Calls!Next => Promise!Next
  <2>1. ASSUME NEW j \in Jobs
        PROVE  /\ Calls!TurnAway(j) => Promise!TurnAway(j)
               /\ Calls!Admit(j) => Promise!Admit(j)
               /\ Calls!Launch(j) => Promise!Launch(j)
               /\ Calls!Withdraw(j) => Promise!Withdraw(j)
               /\ Calls!Exit(j) => Promise!Exit(j)
               /\ Calls!Retire(j) => Promise!Retire(j)
               /\ Calls!Answer(j) => Promise!Answer(j)
               /\ Calls!Expire(j) => Promise!Expire(j)
    BY DEF Calls!TurnAway, Calls!Admit, Calls!Launch, Calls!Withdraw,
           Calls!Exit, Calls!Retire, Calls!Answer, Calls!Expire,
           Calls!Cardinality, Promise!Cardinality,
           Promise!TurnAway, Promise!Admit, Promise!Launch, Promise!Withdraw,
           Promise!Exit, Promise!Retire, Promise!Answer, Promise!Expire
  <2>2. ASSUME NEW waiting \in SUBSET Jobs, Calls!Crash(waiting)
        PROVE  Promise!Crash(waiting)
    BY <2>2 DEF Calls!Crash, Promise!Crash
  <2>3. QED
    BY <2>1, <2>2 DEF Calls!Next, Promise!Next
<1>3. [Calls!Next]_Calls!vars => [Promise!Next]_Promise!vars
  BY <1>2 DEF Calls!vars, Promise!vars
<1>4. QED
  BY <1>1, <1>3, PTL DEF ToolCallsSpec, Calls!Spec, Promise!Spec

\* No interleaving makes a second container for a call, or one for a call that
\* is unwinding; a container given up stays so, its exit status is final, and a
\* call that has returned said what it says for good
\* (docker.go:211-345; tools.go:271-285, 590-636).
CallsLiveOnce ==
  [][\A j \in Jobs :
       /\ ctr[j] = "none" /\ pc[j] \notin Preparing => ctr'[j] = "none"
       /\ ctr[j] # "none" /\ j \in abandoned => ctr'[j] # "none" /\ j \in abandoned'
       /\ status[j] # NoStatus => status'[j] = status[j]
       /\ pc[j] = "done" => pc'[j] = "done" /\ Verdict(j)' = Verdict(j)]_vars

\* The abstract call lives once, and so does the one that implements it.
THEOREM CallsLive == Spec => CallsLiveOnce
<1> DEFINE Once(j) ==
      /\ ctr[j] = "none" /\ pc[j] \notin Preparing => ctr'[j] = "none"
      /\ ctr[j] # "none" /\ j \in abandoned => ctr'[j] # "none" /\ j \in abandoned'
      /\ status[j] # NoStatus => status'[j] = status[j]
      /\ pc[j] = "done" => pc'[j] = "done" /\ Verdict(j)' = Verdict(j)
<1>1. Promise!IsFiniteSet(Jobs) /\ MaxWorkers \in Nat
  BY ExecutorAssumption DEF IsFiniteSet, Promise!IsFiniteSet
<1>2. Promise!Spec => Promise!OneLifeEach
  BY <1>1, Promise!LivesAreOne
<1>3. ASSUME TypeOK, TypeOK', [\A j \in Jobs : Promise!CallKept(j)]_Promise!vars
      PROVE  \A j \in Jobs : Once(j)
  <2>1. SUFFICES ASSUME NEW j \in Jobs PROVE Once(j)
    OBVIOUS
  <2>2. \/ Promise!CallKept(j)
        \/ /\ Container(j)' = Container(j) /\ Verdict(j)' = Verdict(j)
           /\ status'[j] = status[j]
           /\ pc[j] = "done" => pc'[j] = "done"
    BY <1>3 DEF Promise!vars
  <2>3. /\ Container(j) = "over" <=> ctr[j] = "none" /\ pc[j] \notin Preparing
        /\ Container(j) = "stray" <=> ctr[j] # "none" /\ j \in abandoned
        /\ Container(j)' = "over" <=> ctr'[j] = "none" /\ pc'[j] \notin Preparing
        /\ Container(j)' = "stray" <=> ctr'[j] # "none" /\ j \in abandoned'
    BY DEF Container
  <2>4. CASE Promise!CallKept(j)
    BY <2>3, <2>4 DEF Promise!CallKept, Promise!NoStatus, NoStatus
  <2>5. QED
    BY <2>2, <2>3, <2>4
<1>4. QED
  BY <1>2, <1>3, CallsArePromise, ImplementsToolCalls, TypeCorrect, PTL
     DEF Promise!OneLifeEach, CallsLiveOnce
-----------------------------------------------------------------------------
(* How calls come to their end *)

\* What is left of a call: an upper bound on the steps it still makes.
StepsLeft ==
  [p \in PC |->
     CASE p = "idle"     -> 15  [] p = "waiting"   -> 14
       [] p = "admitted" -> 13  [] p = "imaged"    -> 12
       [] p = "staged"   -> 11  [] p = "outmade"   -> 10
       [] p = "mounting" -> 9   [] p = "created"   -> 8
       [] p = "running"  -> 7   [] p = "stopping"  -> 6
       [] p = "waited"   -> 5   [] p = "logged"    -> 4
       [] p = "removing" -> 3   [] p = "cleaning"  -> 2
       [] p = "releasing" -> 1
       [] OTHER           -> 0]

\* A call never does anything twice, so it ends after fifteen steps unless it
\* waits for ever: the measure behind CallsReturn.  Short of a crash it does not
\* get rid of a container but by the deferred removal, of a temporary
\* directory but by the deferred RemoveAll, and of its slot but by the deferred
\* Release, each attempted once and in this order, on every path
\* (tools.go:271-285; docker.go:211-345).
CallsUnwind ==
  [][\A j \in Jobs : pc'[j] # pc[j] =>
       /\ StepsLeft[pc'[j]] < StepsLeft[pc[j]]
       /\ \/ pc'[j] = "dead"
          \/ /\ ctr[j] # "none" /\ j \notin abandoned =>
                  pc'[j] \in HasContainer \/ pc[j] = "removing"
             /\ j \in temp /\ pc'[j] \in {"releasing", "done"} =>
                  pc[j] \in {"cleaning", "releasing"}
             /\ j \in slots /\ j \notin slots' =>
                  pc[j] = "releasing" /\ pc'[j] = "done"]_vars

\* There is no temporary directory before createAccessibleTempDir.
EarlyInv(j) == pc[j] \in {"idle", "waiting", "admitted", "imaged"} => j \notin temp

\* Only MakeTemp makes a temporary directory.
LEMMA EarlyInvariance == Spec => [](\A j \in Jobs : EarlyInv(j))
<1>1. Init => \A j \in Jobs : EarlyInv(j)
  BY DEF Init, EarlyInv
<1>2. TypeOK /\ (\A j \in Jobs : EarlyInv(j)) /\ [Next]_vars
        => (\A j \in Jobs : EarlyInv(j))'
  <2>1. SUFFICES ASSUME TypeOK, [Next]_vars, NEW k \in Jobs, EarlyInv(k)
                 PROVE  EarlyInv(k)'
    OBVIOUS
  <2> USE DEF TypeOK, EarlyInv, Goto, Fail, dirs, containers, outcome, ghosts
  <2>2. ASSUME NEW j \in Jobs,
               \/ Resolve(j) \/ Acquire(j) \/ Busy(j) \/ CheckImage(j)
               \/ MakeTemp(j) \/ MakeOutput(j) \/ WriteMetadata(j)
        PROVE  EarlyInv(k)'
    BY <2>1, <2>2 DEF Resolve, Acquire, Busy, CheckImage, MakeTemp, MakeOutput,
       WriteMetadata
  <2>3. ASSUME NEW j \in Jobs,
               \/ Create(j) \/ Start(j) \/ WaitStatus(j) \/ WaitTimeout(j)
               \/ WaitFails(j) \/ Stop(j) \/ Logs(j) \/ ScanOutputs(j)
        PROVE  EarlyInv(k)'
    BY <2>1, <2>3 DEF Create, Start, WaitStatus, WaitTimeout, WaitFails, Stop,
       Logs, ScanOutputs
  <2>4. ASSUME NEW j \in Jobs,
               \/ Remove(j) \/ CleanTemp(j) \/ Release(j) \/ ContainerExits(j)
               \/ CtxDone(j) \/ InputRemoved(j) \/ OutputRemoved(j)
        PROVE  EarlyInv(k)'
    BY <2>1, <2>4 DEF Remove, CleanTemp, Release, ContainerExits, CtxDone,
       InputRemoved, OutputRemoved
  <2>5. CASE PrepareImage \/ Crash \/ UNCHANGED vars
    BY <2>1, <2>5 DEF PrepareImage, jobVars, Crash, vars
  <2>6. QED
    BY <2>1, <2>2, <2>3, <2>4, <2>5 DEF Next, Call
<1>3. QED
  BY <1>1, <1>2, TypeCorrect, PTL DEF Spec

\* Each step of a call goes forward, and skips no deferred call that is due.
THEOREM CallsComeToAnEnd == Spec => CallsUnwind
<1> DEFINE Unwinds(k) ==
      pc'[k] # pc[k] =>
        /\ StepsLeft[pc'[k]] < StepsLeft[pc[k]]
        /\ \/ pc'[k] = "dead"
           \/ /\ ctr[k] # "none" /\ k \notin abandoned =>
                   pc'[k] \in HasContainer \/ pc[k] = "removing"
              /\ k \in temp /\ pc'[k] \in {"releasing", "done"} =>
                   pc[k] \in {"cleaning", "releasing"}
              /\ k \in slots /\ k \notin slots' =>
                   pc[k] = "releasing" /\ pc'[k] = "done"
<1>1. ASSUME IInv, \A j \in Jobs : EarlyInv(j), [Next]_vars
      PROVE  \A j \in Jobs : Unwinds(j)
  <2> SUFFICES ASSUME NEW k \in Jobs PROVE Unwinds(k)
    OBVIOUS
  <2>1. /\ TypeOK /\ PhaseInv(k) /\ EarlyInv(k)
        /\ slots = {j \in Jobs : pc[j] \in InSlot}
    BY <1>1 DEF IInv, JobInv, SlotsMatchCalls
  <2> USE DEF PhaseInv, EarlyInv, TypeOK, Goto, Fail, PC, StepsLeft,
              HasContainer
  <2>2. ASSUME NEW j \in Jobs,
               Resolve(j) \/ Acquire(j) \/ Busy(j) \/ CheckImage(j)
        PROVE  Unwinds(k)
    BY <2>1, <2>2 DEF Resolve, Acquire, Busy, CheckImage, Pool!Take
  <2>3. ASSUME NEW j \in Jobs,
               MakeTemp(j) \/ MakeOutput(j) \/ WriteMetadata(j)
        PROVE  Unwinds(k)
    BY <2>1, <2>3 DEF MakeTemp, MakeOutput, WriteMetadata
  <2>4. ASSUME NEW j \in Jobs, Create(j) \/ Start(j)
        PROVE  Unwinds(k)
    BY <2>1, <2>4 DEF Create, Start
  <2>5. ASSUME NEW j \in Jobs,
               \/ WaitStatus(j) \/ WaitTimeout(j) \/ WaitFails(j) \/ Stop(j)
               \/ Logs(j) \/ ScanOutputs(j)
        PROVE  Unwinds(k)
    BY <2>1, <2>5 DEF WaitStatus, WaitTimeout, WaitFails, Stop, Logs,
       ScanOutputs
  <2>6. ASSUME NEW j \in Jobs, Remove(j) \/ CleanTemp(j) \/ Release(j)
        PROVE  Unwinds(k)
    BY <2>1, <2>6 DEF Remove, CleanTemp, Release, Pool!Give, InSlot
  <2>7. CASE Crash
    BY <2>1, <2>7 DEF Crash
  <2>8. CASE pc' = pc
    BY <2>8
  <2>9. QED
    BY <1>1, <2>2, <2>3, <2>4, <2>5, <2>6, <2>7, <2>8
    DEF Next, Call, ContainerExits, CtxDone, InputRemoved, OutputRemoved,
        PrepareImage, jobVars, vars
<1>2. IInv /\ (\A j \in Jobs : EarlyInv(j)) /\ [Next]_vars
        => [\A j \in Jobs : Unwinds(j)]_vars
  BY <1>1
<1> HIDE DEF Unwinds
<1>3. Spec => [][\A j \in Jobs : Unwinds(j)]_vars
  BY <1>2, Invariance, EarlyInvariance, PTL DEF Spec
<1>4. QED
  BY <1>3 DEF CallsUnwind, Unwinds
=============================================================================
