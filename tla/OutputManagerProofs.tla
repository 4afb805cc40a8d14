-------------------------- MODULE OutputManagerProofs --------------------------
(***************************************************************************)
(* Proofs about OutputManager, for every set of executions, of deletes and *)
(* of readers, every OUTPUT_TTL, every longest run, any number of restarts *)
(* and of failing writes and removals.                                     *)
(*                                                                         *)
(* Nothing is locked, so the argument is what can no longer change: the    *)
(* expiry of an execution once it runs, a directory once it is gone, what  *)
(* has been named by a delete, and that the clock only grows.              *)
(***************************************************************************)
EXTENDS OutputManager, TLAPS

\* An execution that has not come to its metadata has no expiry and no files;
\* files need their directory.
PhaseInv ==
  /\ \A e \in Execs :
       /\ run[e] = "idle" => dir[e] = "none"
       /\ run[e] \in {"idle", "making"} =>
            dir[e] # "ready" /\ e \notin files /\ expires[e] = Never
  /\ \A e \in files : dir[e] # "none"

\* A running execution is within its time; if its metadata was written, its
\* expiry is as far from then as OUTPUT_TTL says.
ClockInv ==
  \A e \in Execs : run[e] = "running" =>
    /\ now <= due[e]
    /\ expires[e] = Never \/ expires[e] - OutputTTL = due[e] - RunTime

\* A remover at work has a target; a delete has named it.
TargetInv ==
  /\ \A r \in Removers : at[r] # "idle" => target[r] \in Execs
  /\ \A d \in Deleters :
       at[d] # "idle" => target[d] \in deleted /\ run[target[d]] # "idle"
  /\ \A e \in gone : run[e] # "idle"

\* What the cleaner works on had its metadata; its clock is not ahead.
CleanerInv ==
  /\ cutoff <= now
  /\ at[Cleaner] # "idle" => run[target[Cleaner]] \notin {"idle", "making"}

\* What a reader owes is there, or was shown, as long as it is owed; what it
\* must not show is gone for good.
ReaderInv ==
  \A r \in Readers :
    /\ reading[r] = "idle" => owed[r] = {}
    /\ reading[r] \in {"idle", "stat"} => shown[r] = {}
    /\ reading[r] = "answer" => left[r] = {}
    /\ (left[r] \cup shown[r]) \cap barred[r] = {}
    /\ \A e \in owed[r] :
         /\ run[e] \notin {"idle", "making"}
         /\ e \notin deleted /\ now <= expires[e] =>
              e \in files /\ e \in left[r] \cup shown[r]

IInv ==
  /\ TypeOK
  /\ PhaseInv
  /\ ClockInv
  /\ TargetInv
  /\ CleanerInv
  /\ ReaderInv
  /\ CleanerTakesExpired
  /\ RunningKeepsOutput
  /\ DeletedIsGone

-----------------------------------------------------------------------------
LEMMA InitIInv == Init => IInv
<1>1. Init => TypeOK
  BY OutputAssumption DEF Init, TypeOK, Nothing, Never
<1>2. Init => IInv
  BY <1>1, OutputAssumption
     DEF Init, IInv, PhaseInv, ClockInv, TargetInv, CleanerInv, ReaderInv,
         CleanerTakesExpired, RunningKeepsOutput, DeletedIsGone, Nothing,
         Removers, None
<1>3. QED
  BY <1>2

LEMMA MakeDirStep ==
  ASSUME IInv, NEW e \in Execs, MakeDir(e)
  PROVE  IInv'
<1> USE DEF IInv, MakeDir, directory, removal, cleaner, readers, ghosts
<1>1. TypeOK'
  BY DEF TypeOK
<1>2. PhaseInv' /\ ClockInv' /\ TargetInv' /\ CleanerInv'
  BY DEF TypeOK, PhaseInv, ClockInv, TargetInv, CleanerInv, Removers
<1>3. ReaderInv'
  BY DEF TypeOK, ReaderInv
<1>4. CleanerTakesExpired' /\ RunningKeepsOutput' /\ DeletedIsGone'
  BY DEF TypeOK, CleanerTakesExpired, RunningKeepsOutput, DeletedIsGone,
         TargetInv, CleanerInv, Removers
<1>5. QED
  BY <1>1, <1>2, <1>3, <1>4

LEMMA WriteMetadataStep ==
  ASSUME IInv, NEW e \in Execs, WriteMetadata(e)
  PROVE  IInv'
<1>1. /\ \A k \in Execs \ {e} : /\ run'[k] = run[k] /\ due'[k] = due[k]
                                /\ dir'[k] = dir[k] /\ expires'[k] = expires[k]
      /\ run[e] = "making" /\ run'[e] \in {"running", "ended"}
      /\ UNCHANGED <<now, files, removal, cleaner, readers, deleted, gone, crashes>>
  BY DEF IInv, TypeOK, WriteMetadata
<1>2. \/ dir'[e] = "none" /\ dir[e] = "none" /\ run'[e] = "ended"
      \/ /\ dir'[e] = "ready" /\ expires'[e] = now + OutputTTL
         /\ dir[e] # "none" /\ due'[e] = now + RunTime
      \/ /\ dir'[e] = "made" /\ expires'[e] = Never
         /\ dir[e] # "none" /\ due'[e] = now + RunTime
  BY DEF IInv, TypeOK, PhaseInv, WriteMetadata
<1>3. TypeOK'
  BY OutputAssumption DEF IInv, TypeOK, WriteMetadata, removal, cleaner, readers,
                          Never
<1> USE DEF IInv, removal, cleaner, readers
<1>4. PhaseInv' /\ TargetInv' /\ CleanerInv'
  BY <1>1, <1>2 DEF TypeOK, PhaseInv, TargetInv, CleanerInv, Removers
<1>5. ClockInv'
  BY <1>1, <1>2, OutputAssumption DEF TypeOK, ClockInv
<1>6. ReaderInv'
  BY <1>1 DEF TypeOK, ReaderInv
<1>7. CleanerTakesExpired' /\ RunningKeepsOutput' /\ DeletedIsGone'
  BY <1>1, <1>2 DEF TypeOK, CleanerTakesExpired, RunningKeepsOutput,
     DeletedIsGone, TargetInv, CleanerInv, Removers
<1>8. QED
  BY <1>3, <1>4, <1>5, <1>6, <1>7

LEMMA ContainerStep ==
  ASSUME IInv, NEW e \in Execs, WriteOutput(e) \/ EndRun(e)
  PROVE  IInv'
<1> USE DEF IInv, WriteOutput, EndRun, execution, directory, removal, cleaner,
            readers, ghosts
<1>1. TypeOK'
  BY DEF TypeOK
<1>2. PhaseInv' /\ ClockInv' /\ TargetInv' /\ CleanerInv'
  BY DEF TypeOK, PhaseInv, ClockInv, TargetInv, CleanerInv, Removers
<1>3. ReaderInv'
  BY DEF TypeOK, ReaderInv
<1>4. CleanerTakesExpired' /\ RunningKeepsOutput' /\ DeletedIsGone'
  BY DEF TypeOK, CleanerTakesExpired, RunningKeepsOutput, DeletedIsGone
<1>5. QED
  BY <1>1, <1>2, <1>3, <1>4

\* Nobody removes what is running and was not named by a delete, before it has
\* expired or when outputs live long enough.
LEMMA RunningSpared ==
  ASSUME IInv, NEW r \in Removers, at[r] # "idle",
         now <= expires[target[r]] \/ OutputTTL >= RunTime
  PROVE  run[target[r]] = "running" => target[r] \in deleted
<1>1. CASE r \in Deleters
  BY <1>1 DEF IInv, TargetInv, TypeOK, Removers, None
<1>2. CASE r = Cleaner
  BY <1>2, OutputAssumption
     DEF IInv, TypeOK, TargetInv, ClockInv, CleanerTakesExpired, Removers, Never
<1>3. QED
  BY <1>1, <1>2 DEF Removers

LEMMA RemoveEntriesStep ==
  ASSUME IInv, NEW r \in Removers, RemoveEntries(r)
  PROVE  IInv'
<1> USE DEF IInv, RemoveEntries, Unreadable, execution, cleaner, readers
<1>1. target[r] \in Execs
  BY DEF TargetInv
<1>2. TypeOK'
  BY <1>1 DEF TypeOK
<1>3. PhaseInv' /\ ClockInv' /\ TargetInv' /\ CleanerInv'
  BY <1>1 DEF TypeOK, PhaseInv, ClockInv, TargetInv, CleanerInv, Removers
<1>4. target[r] \in deleted \/ now > expires[target[r]]
  BY <1>1, OutputAssumption
     DEF TypeOK, TargetInv, CleanerTakesExpired, Removers, None, Never
<1>5. ReaderInv'
  BY <1>1, <1>4, OutputAssumption DEF TypeOK, ReaderInv, Never
<1>6. RunningKeepsOutput'
  BY <1>1, RunningSpared DEF TypeOK, RunningKeepsOutput
<1>7. CleanerTakesExpired' /\ DeletedIsGone'
  BY <1>1 DEF TypeOK, CleanerTakesExpired, DeletedIsGone, Removers, TargetInv
<1>8. QED
  BY <1>2, <1>3, <1>5, <1>6, <1>7

LEMMA RemoveDirStep ==
  ASSUME IInv, NEW r \in Removers, RemoveDir(r)
  PROVE  IInv'
<1> USE DEF IInv, RemoveDir, Done, AnswerDeleted, execution, cleaner, readers
<1>1. target[r] \in Execs
  BY DEF TargetInv
<1>2. \/ UNCHANGED dir
      \/ target[r] \notin files /\ dir' = [dir EXCEPT ![target[r]] = "none"]
  OBVIOUS
<1>3. TypeOK'
  BY <1>1 DEF TypeOK, Removers
<1>4. PhaseInv' /\ ClockInv' /\ TargetInv' /\ CleanerInv'
  BY <1>1, <1>2
     DEF TypeOK, PhaseInv, ClockInv, TargetInv, CleanerInv, Removers
<1>5. ReaderInv'
  BY <1>1 DEF TypeOK, ReaderInv
<1>6. RunningKeepsOutput'
  BY <1>1, <1>2, RunningSpared DEF TypeOK, RunningKeepsOutput
<1>7. CleanerTakesExpired' /\ DeletedIsGone'
  BY <1>1, <1>2, OutputAssumption
     DEF TypeOK, CleanerTakesExpired, DeletedIsGone, Removers, TargetInv
<1>8. QED
  BY <1>3, <1>4, <1>5, <1>6, <1>7

LEMMA DeleteStep ==
  ASSUME IInv, NEW d \in Deleters, Delete(d)
  PROVE  IInv'
<1>1. PICK e \in Execs :
        /\ deleted' = deleted \cup {e}
        /\ \/ /\ dir[e] # "none"
              /\ at' = [at EXCEPT ![d] = "checked"]
              /\ target' = [target EXCEPT ![d] = e]
           \/ UNCHANGED <<at, target>>
  BY DEF Delete
<1> USE DEF IInv, Delete, execution, directory, cleaner, readers
<1>2. d # Cleaner /\ d \in Removers
  BY OutputAssumption DEF Removers
<1>3. TypeOK'
  BY <1>1, <1>2 DEF TypeOK
<1>4. PhaseInv' /\ ClockInv' /\ TargetInv' /\ CleanerInv'
  BY <1>1, <1>2
     DEF TypeOK, PhaseInv, ClockInv, TargetInv, CleanerInv, Removers
<1>5. ReaderInv'
  BY <1>1 DEF TypeOK, ReaderInv
<1>6. CleanerTakesExpired' /\ RunningKeepsOutput' /\ DeletedIsGone'
  <2>1. at'[Cleaner] = at[Cleaner] /\ target'[Cleaner] = target[Cleaner]
    BY <1>1, <1>2 DEF TypeOK, Removers
  <2>2. QED
    BY <1>1, <2>1 DEF CleanerTakesExpired, RunningKeepsOutput, DeletedIsGone
<1>7. QED
  BY <1>3, <1>4, <1>5, <1>6

LEMMA AskStep ==
  ASSUME IInv, NEW r \in Readers, List(r) \/ Get(r)
  PROVE  IInv'
<1>1. PICK label \in {"list", "stat"}, asked \in SUBSET Execs :
        Ask(r, label, asked) /\ \A e \in asked : dir[e] # "none"
  <2>1. CASE List(r)
    BY <2>1 DEF List
  <2>2. CASE Get(r)
    BY <2>2 DEF Get, IInv, TypeOK, PhaseInv
  <2>3. QED
    BY <2>1, <2>2
<1> USE <1>1 DEF IInv, Ask, execution, directory, removal, cleaner, ghosts
<1>2. barred'[r] \in SUBSET Execs /\ \A e \in barred'[r] : dir[e] = "none"
  BY DEF TypeOK, DeletedIsGone, TargetInv
<1>3. barred' = [barred EXCEPT ![r] = barred'[r]]
  BY DEF TypeOK
<1>4. TypeOK'
  BY <1>2, <1>3 DEF TypeOK
<1>5. PhaseInv' /\ ClockInv' /\ TargetInv' /\ CleanerInv'
  BY DEF PhaseInv, ClockInv, TargetInv, CleanerInv
<1>6. ReaderInv'
  <2>1. SUFFICES ASSUME NEW s \in Readers
        PROVE /\ reading'[s] = "idle" => owed'[s] = {}
              /\ reading'[s] \in {"idle", "stat"} => shown'[s] = {}
              /\ reading'[s] = "answer" => left'[s] = {}
              /\ (left'[s] \cup shown'[s]) \cap barred'[s] = {}
              /\ \A e \in owed'[s] :
                   /\ run[e] \notin {"idle", "making"}
                   /\ e \notin deleted /\ now <= expires[e] =>
                        e \in files /\ e \in left'[s] \cup shown'[s]
    BY DEF ReaderInv
  <2>2. CASE s = r
    BY <1>2, <2>2 DEF TypeOK, ReaderInv, PhaseInv
  <2>3. CASE s # r
    BY <2>3 DEF TypeOK, ReaderInv
  <2>4. QED
    BY <2>2, <2>3
<1>7. CleanerTakesExpired' /\ RunningKeepsOutput' /\ DeletedIsGone'
  BY DEF CleanerTakesExpired, RunningKeepsOutput, DeletedIsGone
<1>8. QED
  BY <1>4, <1>5, <1>6, <1>7

LEMMA ReadStep ==
  ASSUME IInv, NEW r \in Readers,
         ListEntry(r) \/ GetContents(r) \/ Answered(r)
  PROVE  IInv'
<1> USE DEF IInv, execution, directory, removal, cleaner, ghosts
<1>1. /\ UNCHANGED <<now, execution, directory, removal, cleaner, ghosts>>
      /\ \A s \in Readers \ {r} :
           /\ reading'[s] = reading[s] /\ left'[s] = left[s]
           /\ shown'[s] = shown[s] /\ owed'[s] = owed[s]
           /\ barred'[s] = barred[s]
  BY DEF TypeOK, ListEntry, GetContents, Answered
<1>2. /\ owed'[r] \subseteq owed[r] /\ barred'[r] \subseteq barred[r]
      /\ left'[r] \subseteq left[r]
      /\ shown'[r] \subseteq left[r] \cup shown[r]
      /\ reading'[r] = "idle" => owed'[r] = {}
      /\ reading'[r] \in {"idle", "stat"} => shown'[r] = {}
      /\ reading'[r] = "answer" => left'[r] = {}
      /\ \A e \in owed'[r] \cap files :
           e \in left[r] \cup shown[r] => e \in left'[r] \cup shown'[r]
  <2>1. CASE ListEntry(r)
    BY <2>1 DEF TypeOK, ListEntry, ReaderInv
  <2>2. CASE GetContents(r)
    BY <2>2 DEF TypeOK, GetContents, ReaderInv
  <2>3. CASE Answered(r)
    BY <2>3 DEF TypeOK, Answered, ReaderInv
  <2>4. QED
    BY <2>1, <2>2, <2>3
<1>3. TypeOK'
  BY DEF TypeOK, ListEntry, GetContents, Answered
<1>4. PhaseInv' /\ ClockInv' /\ TargetInv' /\ CleanerInv'
  BY <1>1 DEF PhaseInv, ClockInv, TargetInv, CleanerInv
<1>5. ReaderInv'
  BY <1>1, <1>2 DEF ReaderInv
<1>6. CleanerTakesExpired' /\ RunningKeepsOutput' /\ DeletedIsGone'
  BY <1>1 DEF CleanerTakesExpired, RunningKeepsOutput, DeletedIsGone
<1>7. QED
  BY <1>3, <1>4, <1>5, <1>6

LEMMA CleanerStep ==
  ASSUME IInv, CleanupStart \/ CleanupEntry
  PROVE  IInv'
<1> USE DEF IInv, execution, directory, removal, readers, ghosts
<1>1. TypeOK'
  BY DEF TypeOK, CleanupStart, CleanupEntry, Removers
<1>2. CASE CleanupStart
  BY <1>1, <1>2 DEF CleanupStart, TypeOK, PhaseInv, ClockInv, TargetInv,
     CleanerInv, ReaderInv, CleanerTakesExpired, RunningKeepsOutput,
     DeletedIsGone
<1>3. CASE CleanupEntry
  <2>1. PICK e \in todo :
          \/ /\ Expired(e)
             /\ at' = [at EXCEPT ![Cleaner] = "checked"]
             /\ target' = [target EXCEPT ![Cleaner] = e]
          \/ UNCHANGED <<at, target>>
    BY <1>3 DEF CleanupEntry
  <2>2. /\ e \in Execs /\ Cleaner \in Removers /\ at[Cleaner] = "idle"
        /\ \A d \in Deleters : d # Cleaner /\ d \in Removers
        /\ UNCHANGED <<now, execution, directory, cutoff, readers, deleted, gone>>
    BY <1>3, OutputAssumption DEF CleanupEntry, TypeOK, Removers
  <2>3. Expired(e) => expires[e] < now /\ run[e] \notin {"idle", "making"}
    BY <2>2, OutputAssumption DEF Expired, TypeOK, PhaseInv, CleanerInv, Never
  <2>4. PhaseInv' /\ ClockInv' /\ ReaderInv' /\ RunningKeepsOutput'
    BY <2>2 DEF PhaseInv, ClockInv, ReaderInv, RunningKeepsOutput
  <2>5. TargetInv' /\ DeletedIsGone'
    BY <2>1, <2>2 DEF TypeOK, TargetInv, DeletedIsGone, Removers
  <2>6. CleanerInv' /\ CleanerTakesExpired'
    BY <2>1, <2>2, <2>3 DEF TypeOK, CleanerInv, CleanerTakesExpired
  <2>7. QED
    BY <1>1, <2>4, <2>5, <2>6
<1>4. QED
  BY <1>2, <1>3

LEMMA TickStep ==
  ASSUME IInv, Tick
  PROVE  IInv'
<1> USE DEF IInv, Tick, execution, directory, removal, cleaner, readers, ghosts
<1>1. TypeOK' /\ TargetInv' /\ PhaseInv'
  BY OutputAssumption DEF TypeOK, TargetInv, PhaseInv
<1>2. ClockInv' /\ CleanerInv' /\ ReaderInv'
  BY OutputAssumption DEF TypeOK, ClockInv, CleanerInv, ReaderInv, Never
<1>3. CleanerTakesExpired' /\ RunningKeepsOutput' /\ DeletedIsGone'
  BY OutputAssumption DEF TypeOK, CleanerTakesExpired, RunningKeepsOutput,
     DeletedIsGone, TargetInv, Removers, Never
<1>4. QED
  BY <1>1, <1>2, <1>3

LEMMA RestartStep ==
  ASSUME IInv, Restart
  PROVE  IInv'
<1> USE DEF IInv, Restart, directory
<1>1. \A e \in Execs : /\ run'[e] \in {"idle", "ended", "orphaned"}
                       /\ run'[e] = "idle" <=> run[e] = "idle"
  BY DEF TypeOK
<1>2. TypeOK'
  BY <1>1, OutputAssumption DEF TypeOK, TargetInv, Nothing
<1>3. PhaseInv' /\ ClockInv' /\ TargetInv' /\ CleanerInv'
  BY <1>1 DEF TypeOK, PhaseInv, ClockInv, TargetInv, CleanerInv, Removers, None
<1>4. ReaderInv' /\ CleanerTakesExpired' /\ RunningKeepsOutput' /\ DeletedIsGone'
  BY <1>1 DEF ReaderInv, Nothing, CleanerTakesExpired, RunningKeepsOutput,
     DeletedIsGone, Removers, None
<1>5. QED
  BY <1>2, <1>3, <1>4

LEMMA StutterStep ==
  ASSUME IInv, UNCHANGED vars
  PROVE  IInv'
BY DEF vars, execution, directory, removal, cleaner, readers, ghosts, IInv,
       TypeOK, PhaseInv, ClockInv, TargetInv, CleanerInv, ReaderInv,
       CleanerTakesExpired, RunningKeepsOutput, DeletedIsGone

-----------------------------------------------------------------------------
\* The invariant is inductive.
THEOREM Inductive == IInv /\ [Next]_vars => IInv'
BY MakeDirStep, WriteMetadataStep, ContainerStep, RemoveEntriesStep,
   RemoveDirStep, DeleteStep, AskStep, ReadStep, CleanerStep, TickStep,
   RestartStep, StutterStep
   DEF Next

\* It holds in every reachable state.
THEOREM Invariance == Spec => []IInv
BY InitIInv, Inductive, PTL DEF Spec

\* The state of the output manager keeps its types.
THEOREM TypeCorrect == Spec => []TypeOK
<1>1. IInv => TypeOK
  BY DEF IInv
<1>2. QED
  BY <1>1, Invariance, PTL

\* The cleaner only ever works on directories past their expiry.
THEOREM CleanerCorrect == Spec => []CleanerTakesExpired
<1>1. IInv => CleanerTakesExpired
  BY DEF IInv
<1>2. QED
  BY <1>1, Invariance, PTL

\* An OUTPUT_TTL at least as long as executions run protects a running
\* execution's outputs, whatever interleaves with the cleaner.
THEOREM RunningSafe == Spec => []RunningKeepsOutput
<1>1. IInv => RunningKeepsOutput
  BY DEF IInv
<1>2. QED
  BY <1>1, Invariance, PTL

\* "Deleted" is true and stays true.
THEOREM DeletesTrue == Spec => []DeletedIsGone
<1>1. IInv => DeletedIsGone
  BY DEF IInv
<1>2. QED
  BY <1>1, Invariance, PTL

\* Lists and gets neither show what was deleted nor miss what is kept.
THEOREM ReadsTrue == Spec => []ReadsAreTrue
<1>1. IInv => ReadsAreTrue
  BY DEF IInv, ReaderInv, ReadsAreTrue
<1>2. QED
  BY <1>1, Invariance, PTL

-----------------------------------------------------------------------------
(* What no cleaner will take *)

\* Only what a failure or a restart has hit runs unsupervised; and what the
\* cleaner has emptied stays empty until it is removed, unless a delete was
\* there first.
UndisturbedInv ==
  /\ \A e \in Execs : run[e] = "orphaned" => e \in disturbed
  /\ at[Cleaner] = "emptied" /\ target[Cleaner] \notin deleted \cup disturbed =>
       /\ dir[target[Cleaner]] # "ready"
       /\ OutputTTL >= RunTime => target[Cleaner] \notin files

\* A directory without readable metadata has one of the reasons there are for
\* one: the time before it is written, a delete, a failure, a restart, the
\* cleaner at work, or a container that outlives its outputs.
THEOREM UnreadableExplained == Spec => []NoUnreadableDirs
<1>1. Init => NoUnreadableDirs /\ UndisturbedInv
  BY DEF Init, NoUnreadableDirs, UndisturbedInv, Removers
<1>2. IInv /\ NoUnreadableDirs /\ UndisturbedInv /\ [Next]_vars
        => NoUnreadableDirs' /\ UndisturbedInv'
  <2>1. SUFFICES ASSUME IInv, NoUnreadableDirs, UndisturbedInv, [Next]_vars
                 PROVE  NoUnreadableDirs' /\ UndisturbedInv'
    OBVIOUS
  <2>2. now \in Int /\ \A e \in Execs : expires[e] \in Int
    BY <2>1, OutputAssumption DEF IInv, TypeOK, Never
  <2> USE DEF NoUnreadableDirs, UndisturbedInv, IInv, TypeOK
  <2>3. Cleaner \in Removers /\ \A d \in Deleters : d # Cleaner
    BY OutputAssumption DEF Removers
  <2>4. at[Cleaner] # "idle" =>
          /\ target[Cleaner] \in Execs
          /\ expires[target[Cleaner]] < now
          /\ OutputTTL >= RunTime /\ run[target[Cleaner]] = "running" =>
               target[Cleaner] \in deleted
          /\ run[target[Cleaner]] \notin {"idle", "making"}
    BY <2>1, <2>3, RunningSpared DEF TargetInv, CleanerInv, CleanerTakesExpired
  <2>5. ASSUME NEW e \in Execs, MakeDir(e) \/ WriteMetadata(e)
        PROVE  NoUnreadableDirs' /\ UndisturbedInv'
    BY <2>1, <2>3, <2>4, <2>5
       DEF MakeDir, WriteMetadata, directory, removal, ghosts
  <2>6. ASSUME NEW e \in Execs, WriteOutput(e) \/ EndRun(e)
        PROVE  NoUnreadableDirs' /\ UndisturbedInv'
    BY <2>1, <2>3, <2>4, <2>6
       DEF WriteOutput, EndRun, execution, directory, removal, ghosts
  <2>7. ASSUME NEW r \in Removers, RemoveEntries(r)
        PROVE  NoUnreadableDirs' /\ UndisturbedInv'
    BY <2>1, <2>2, <2>3, <2>4, <2>7
       DEF RemoveEntries, Unreadable, TargetInv, Removers, execution
  <2>8. ASSUME NEW r \in Removers, RemoveDir(r)
        PROVE  NoUnreadableDirs' /\ UndisturbedInv'
    BY <2>1, <2>2, <2>3, <2>4, <2>8, OutputAssumption
       DEF RemoveDir, Done, TargetInv, Removers, execution
  <2>9. ASSUME NEW d \in Deleters, Delete(d)
        PROVE  NoUnreadableDirs' /\ UndisturbedInv'
    BY <2>1, <2>3, <2>9 DEF Delete, Removers, execution, directory
  <2>10. ASSUME NEW r \in Readers,
                \/ List(r) \/ Get(r) \/ ListEntry(r) \/ GetContents(r)
                \/ Answered(r)
         PROVE  NoUnreadableDirs' /\ UndisturbedInv'
    BY <2>1, <2>10 DEF List, Get, Ask, ListEntry, GetContents, Answered,
       execution, directory, removal, ghosts
  <2>11. CASE CleanupStart \/ CleanupEntry
    BY <2>1, <2>3, <2>11 DEF CleanupStart, CleanupEntry, execution, directory,
       removal, ghosts
  <2>12. CASE Tick \/ UNCHANGED vars
    BY <2>1, <2>2, <2>12 DEF Tick, vars, execution, directory, removal, ghosts
  <2>13. CASE Restart
    BY <2>1, <2>3, <2>13 DEF Restart, directory
  <2>14. QED
    BY <2>1, <2>5, <2>6, <2>7, <2>8, <2>9, <2>10, <2>11, <2>12, <2>13 DEF Next
<1>3. QED
  BY <1>1, <1>2, Invariance, PTL DEF Spec

-----------------------------------------------------------------------------
(* The manager implements the store with a TTL *)

Expiry(e) == IF dir[e] = "ready" THEN expires[e] ELSE 0
Deleting == {target[d] : d \in {c \in Deleters : at[c] = "emptied"}}

\* A step that neither makes, writes nor empties a directory, and ends no
\* execution before it is written, shows nothing of the store.
LEMMA StoreStutters ==
  ASSUME UNCHANGED now, UNCHANGED Deleting,
         \A e \in Execs : Life(e)' = Life(e) /\ Expiry(e)' = Expiry(e)
  PROVE  UNCHANGED Store!vars
BY DEF Store!vars, Expiry, Deleting

\* What a step ends.
LEMMA StoreEnds ==
  ASSUME NEW ended \in SUBSET Execs,
         \A e \in Execs : /\ Life(e)' = IF e \in ended THEN "over" ELSE Life(e)
                          /\ Expiry(e)' = IF e \in ended THEN 0 ELSE Expiry(e)
  PROVE  Store!End(ended)
BY DEF Store!End, Expiry

\* Outputs that will never come.
LEMMA NeverComes ==
  ASSUME NEW e \in Execs, UNCHANGED <<now, Deleting>>,
         Life(e) = "fresh", Life(e)' = "over", dir'[e] # "ready",
         \A k \in Execs \ {e} : Life(k)' = Life(k) /\ Expiry(k)' = Expiry(k)
  PROVE  Store!Refuse(e)
<1>1. \A k \in Execs : /\ Life(k)' = IF k \in {e} THEN "over" ELSE Life(k)
                      /\ Expiry(k)' = IF k \in {e} THEN 0 ELSE Expiry(k)
  BY DEF Expiry
<1>2. Store!End({e})
  BY <1>1, StoreEnds
<1>3. QED
  BY <1>2 DEF Store!Refuse, Deleting

LEMMA ExecutionRefines ==
  ASSUME IInv, NEW e \in Execs,
         MakeDir(e) \/ WriteMetadata(e) \/ WriteOutput(e) \/ EndRun(e)
  PROVE  Store!Put(e) \/ Store!Refuse(e) \/ UNCHANGED Store!vars
<1> USE DEF IInv, TypeOK, directory, removal, execution
<1>1. UNCHANGED now /\ Deleting' = Deleting
  BY DEF MakeDir, WriteMetadata, WriteOutput, EndRun, Deleting
<1>2. CASE WriteMetadata(e) /\ dir'[e] = "ready"
  <2>1. /\ Life(e) = "fresh" /\ dir'[e] = "ready"
        /\ expires'[e] = now + OutputTTL
    BY <1>2 DEF WriteMetadata, Life, PhaseInv
  <2>2. \A k \in Execs : Life(k)' = IF k = e THEN "held" ELSE Life(k)
    BY <1>2, <2>1 DEF WriteMetadata, Life
  <2>3. \A k \in Execs : Expiry(k)' = IF k = e THEN now + OutputTTL
                                              ELSE Expiry(k)
    BY <1>2, <2>1 DEF WriteMetadata, Expiry
  <2>4. now + OutputTTL \in 0 .. now + OutputTTL
    BY OutputAssumption
  <2> HIDE DEF IInv, TypeOK, directory, removal, execution
  <2>5. Store!Put(e)
    BY <1>1, <2>1, <2>2, <2>3, <2>4 DEF Store!Put, Expiry, Deleting
  <2>6. QED
    BY <2>5
<1>3. CASE WriteMetadata(e) /\ dir'[e] # "ready"
  <2>1. Life(e) = "fresh" /\ Life(e)' = "over"
    BY <1>3 DEF WriteMetadata, Life, PhaseInv
  <2>2. \A k \in Execs \ {e} : Life(k)' = Life(k) /\ Expiry(k)' = Expiry(k)
    BY <1>3 DEF WriteMetadata, Life, Expiry
  <2>3. QED
    BY <1>1, <1>3, <2>1, <2>2, NeverComes
<1>4. CASE MakeDir(e) /\ run'[e] = "making"
  BY <1>1, <1>4, StoreStutters DEF MakeDir, PhaseInv, Life, Expiry
<1>5. CASE MakeDir(e) /\ run'[e] = "ended"
  <2>1. Life(e) = "fresh" /\ Life(e)' = "over" /\ dir'[e] # "ready"
    BY <1>5 DEF MakeDir, PhaseInv, Life
  <2>2. \A k \in Execs \ {e} : Life(k)' = Life(k) /\ Expiry(k)' = Expiry(k)
    BY <1>5 DEF MakeDir, Life, Expiry
  <2>3. QED
    BY <1>1, <2>1, <2>2, NeverComes
<1>6. CASE WriteOutput(e) \/ EndRun(e)
  BY <1>1, <1>6, StoreStutters DEF WriteOutput, EndRun, Life, Expiry
<1>7. MakeDir(e) => run'[e] \in {"making", "ended"}
  BY DEF MakeDir
<1>8. QED
  BY <1>2, <1>3, <1>4, <1>5, <1>6, <1>7

\* Emptying a directory ends it: for a delete that named it, or because it has
\* expired.
LEMMA RemoveEntriesRefines ==
  ASSUME IInv, NEW r \in Removers, RemoveEntries(r)
  PROVE  \/ \E k \in Execs : Store!Delete(k)
         \/ \E keys \in SUBSET Execs : Store!Expire(keys)
         \/ UNCHANGED Store!vars
<1>1. PICK k \in Execs : k = target[r]
  BY DEF RemoveEntries, IInv, TargetInv
<1>2. /\ UNCHANGED <<now, run, expires, target>>
      /\ at' = [at EXCEPT ![r] = "emptied"]
      /\ dir' = Unreadable(k) \/ (Faults /\ UNCHANGED dir)
  <2>1. /\ UNCHANGED <<now, run, expires, target>>
        /\ at' = [at EXCEPT ![r] = "emptied"]
    BY DEF RemoveEntries, execution
  <2>2. dir' = Unreadable(target[r]) \/ (Faults /\ UNCHANGED dir)
    BY DEF RemoveEntries
  <2>3. QED
    BY <1>1, <2>1, <2>2
<1>3. PICK ended \in SUBSET Execs :
        ended = IF dir[k] = "ready" /\ dir' = Unreadable(k) THEN {k} ELSE {}
  OBVIOUS
<1>4. \A e \in Execs : /\ Life(e)' = IF e \in ended THEN "over" ELSE Life(e)
                      /\ Expiry(e)' = IF e \in ended THEN 0 ELSE Expiry(e)
  BY <1>2, <1>3 DEF IInv, TypeOK, PhaseInv, Life, Expiry, Unreadable
<1>5. Store!End(ended)
  BY <1>4, StoreEnds
<1>6. CASE r \in Deleters
  <2>1. Deleting' = Deleting \cup {k}
    BY <1>1, <1>2, <1>6 DEF IInv, TypeOK, Deleting, Removers
  <2>2. ended = (IF Life(k) = "held" THEN {k} ELSE {}) \/ (ended = {} /\ Faults)
    BY <1>2, <1>3 DEF Life
  <2>3. ended = {} => \A e \in Execs : Life(e)' = Life(e) /\ Expiry(e)' = Expiry(e)
    BY <1>4
  <2>4. Store!Delete(k)
    BY <1>2, <1>5, <2>1, <2>2, <2>3 DEF Store!Delete, Store!End, Expiry, Deleting
  <2>5. QED
    BY <2>4
<1>7. CASE r = Cleaner
  <2>1. Deleting' = Deleting
    BY <1>2, <1>7, OutputAssumption DEF IInv, TypeOK, Deleting, Removers
  <2>2. expires[k] < now /\ expires[k] \in Int /\ now \in Int
    BY <1>1, <1>7, OutputAssumption
       DEF RemoveEntries, IInv, TypeOK, CleanerTakesExpired, Never
  <2>3. \A i \in ended : Life(i) = "held" /\ now > Expiry(i)
    BY <1>3, <2>2 DEF Life, Expiry
  <2>4. Store!Expire(ended)
    BY <1>2, <1>5, <2>1, <2>3 DEF Store!Expire, Expiry, Deleting
  <2>5. QED
    BY <2>4
<1>8. QED
  BY <1>6, <1>7 DEF Removers

\* The delete is over, unless another one that named the execution is not.
LEMMA RemoveDirRefines ==
  ASSUME IInv, NEW r \in Removers, RemoveDir(r)
  PROVE  (\E k \in Execs : Store!Deleted(k)) \/ UNCHANGED Store!vars
<1>1. PICK k \in Execs : k = target[r]
  BY DEF RemoveDir, Done, IInv, TargetInv
<1>2. /\ UNCHANGED <<now, run, expires>>
      /\ target' = [target EXCEPT ![r] = None]
      /\ at[r] = "emptied" /\ at' = [at EXCEPT ![r] = "idle"]
      /\ \/ UNCHANGED dir
         \/ dir[k] # "ready" /\ dir' = [dir EXCEPT ![k] = "none"]
  BY <1>1 DEF RemoveDir, Done, execution
<1>3. \A e \in Execs : Life(e)' = Life(e) /\ Expiry(e)' = Expiry(e)
  BY <1>2 DEF IInv, TypeOK, Life, Expiry
<1>4. CASE r = Cleaner \/ \E d \in Deleters \ {r} : at[d] = "emptied" /\ target[d] = k
  <2>1. Deleting' = Deleting
    BY <1>1, <1>2, <1>4, OutputAssumption DEF IInv, TypeOK, Deleting, Removers
  <2>2. QED
    BY <1>2, <1>3, <2>1, StoreStutters
<1>5. CASE r \in Deleters /\ ~\E d \in Deleters \ {r} : at[d] = "emptied" /\ target[d] = k
  <2>1. Deleting' = Deleting \ {k}
    BY <1>1, <1>2, <1>5 DEF IInv, TypeOK, Deleting, Removers
  <2>2. Store!Deleted(k)
    BY <1>2, <1>3, <2>1 DEF Store!Deleted, Expiry, Deleting
  <2>3. QED
    BY <2>2
<1>6. QED
  BY <1>4, <1>5 DEF Removers

LEMMA OthersRefine ==
  ASSUME IInv,
         \/ \E d \in Deleters : Delete(d)
         \/ \E r \in Readers : \/ List(r) \/ Get(r) \/ ListEntry(r)
                               \/ GetContents(r) \/ Answered(r)
         \/ CleanupStart \/ CleanupEntry \/ UNCHANGED vars
  PROVE  UNCHANGED Store!vars
<1>1. UNCHANGED <<now, run, dir, expires>>
  BY DEF Delete, List, Get, Ask, ListEntry, GetContents, Answered, CleanupStart,
         CleanupEntry, vars, execution, directory
<1>2. \A e \in Execs : Life(e)' = Life(e) /\ Expiry(e)' = Expiry(e)
  BY <1>1 DEF Life, Expiry
<1>3. Deleting' = Deleting
  <2> USE OutputAssumption DEF IInv, TypeOK, Deleting, Removers, removal
  <2>1. ASSUME NEW d \in Deleters, Delete(d) PROVE Deleting' = Deleting
    <3>1. \A c \in Deleters \ {d} : at'[c] = at[c] /\ target'[c] = target[c]
      BY <2>1 DEF Delete
    <3>2. at[d] # "emptied" /\ at'[d] # "emptied"
      BY <2>1 DEF Delete
    <3>3. QED
      BY <3>1, <3>2
  <2>2. CASE CleanupEntry
    BY <2>2 DEF CleanupEntry
  <2>3. ASSUME NEW r \in Readers,
               \/ List(r) \/ Get(r) \/ ListEntry(r) \/ GetContents(r)
               \/ Answered(r)
        PROVE  Deleting' = Deleting
    BY <2>3 DEF List, Get, Ask, ListEntry, GetContents, Answered
  <2>4. CASE CleanupStart \/ UNCHANGED vars
    BY <2>4 DEF CleanupStart, vars
  <2>5. QED
    BY <2>1, <2>2, <2>3, <2>4
<1>4. QED
  BY <1>1, <1>2, <1>3, StoreStutters

LEMMA EnvironmentRefines ==
  ASSUME IInv, Tick \/ Restart
  PROVE  Store!Tick \/ \E keys \in SUBSET Execs : Store!Restart(keys)
<1>1. CASE Tick
  <2>1. /\ now' = now + 1 /\ Deleting' = Deleting
        /\ \A e \in Execs : Life(e)' = Life(e) /\ Expiry(e)' = Expiry(e)
    BY <1>1 DEF Tick, Life, Expiry, Deleting, execution, directory, removal
  <2>2. QED
    BY <2>1 DEF Store!Tick, Expiry, Deleting
<1>2. CASE Restart
  <2>1. PICK keys \in SUBSET Execs : keys = {e \in Execs : run[e] = "making"}
    OBVIOUS
  <2>2. UNCHANGED now /\ Deleting' = {}
    BY <1>2 DEF Restart, Deleting, Removers
  <2>3. \A e \in Execs : /\ Life(e)' = IF e \in keys THEN "over" ELSE Life(e)
                        /\ Expiry(e)' = IF e \in keys THEN 0 ELSE Expiry(e)
    BY <1>2, <2>1 DEF Restart, IInv, TypeOK, PhaseInv, Life, Expiry, directory
  <2>4. \A e \in keys : Life(e) # "held"
    BY <2>1 DEF IInv, PhaseInv, Life
  <2>5. Store!End(keys)
    BY <2>3, StoreEnds
  <2>6. Store!Restart(keys)
    BY <2>2, <2>4, <2>5 DEF Store!Restart, Deleting
  <2>7. QED
    BY <2>6
<1>3. QED
  BY <1>1, <1>2

\* The output manager implements the store with a TTL, and restarts lose
\* nothing it holds.
THEOREM ImplementsTTLStore == Spec => StoreSpec
<1>1. Init => Store!Init
  BY DEF Init, Store!Init, Life, Removers
<1>2. IInv /\ [Next]_vars => [Store!Next]_Store!vars
  BY ExecutionRefines, RemoveEntriesRefines, RemoveDirRefines, OthersRefine,
     EnvironmentRefines DEF Next, Store!Next
<1>3. QED
  BY <1>1, <1>2, Invariance, PTL DEF Spec, StoreSpec, Store!Spec

-----------------------------------------------------------------------------
(* What clients have from the abstract store *)

Promise == INSTANCE TTLStoreProofs WITH
  Keys     <- Execs,
  TTL      <- OutputTTL,
  Volatile <- FALSE,
  Faulty   <- Faults,
  life     <- [e \in Execs |-> Life(e)],
  expires  <- [e \in Execs |-> IF dir[e] = "ready" THEN expires[e] ELSE 0],
  deleting <- {target[d] : d \in {c \in Deleters : at[c] = "emptied"}}

\* The two instances of the abstract store are one.
LEMMA StoreIsPromise == StoreSpec => Promise!Spec
<1>1. Store!Init => Promise!Init
  BY DEF Store!Init, Promise!Init
<1>2. Store!Next => Promise!Next
  BY DEF Store!Next, Store!Put, Store!Refuse, Store!Delete, Store!Deleted,
         Store!Expire, Store!Restart, Store!Tick, Store!End,
         Promise!Next, Promise!Put, Promise!Refuse, Promise!Delete,
         Promise!Deleted, Promise!Expire, Promise!Restart, Promise!Tick,
         Promise!End
<1>3. [Store!Next]_Store!vars => [Promise!Next]_Promise!vars
  BY <1>2 DEF Store!vars, Promise!vars
<1>4. QED
  BY <1>1, <1>3, PTL DEF StoreSpec, Store!Spec, Promise!Spec

\* An execution whose outputs can be read keeps them, with the same expiry,
\* through every step of containers, readers, deletes and restarts, until it has
\* expired or a delete empties its directory; and outputs that went, or that
\* never came, do not come back, with whatever container still running
\* (output.go:66-91, 246-267, 304-328).
OutputsEndOnce ==
  [][\A e \in Execs :
       /\ Life(e) = "over" => Life(e)' = "over"
       /\ dir[e] = "ready" =>
            \/ dir'[e] = "ready" /\ expires'[e] = expires[e]
            \/ /\ Life(e)' = "over"
               /\ now > expires[e] \/ e \in Deleting']_vars

\* Restarts included: nothing in the promise of the abstract store is lost
\* when its index is not volatile.
THEOREM OutputsKept == Spec => OutputsEndOnce
<1> DEFINE Once(e) ==
      /\ Life(e) = "over" => Life(e)' = "over"
      /\ dir[e] = "ready" =>
           \/ dir'[e] = "ready" /\ expires'[e] = expires[e]
           \/ /\ Life(e)' = "over"
              /\ now > expires[e] \/ e \in Deleting'
<1>1. ASSUME NEW e \in Execs, Life(e)' = Life(e), Expiry(e)' = Expiry(e)
      PROVE  Once(e)
  BY <1>1 DEF Expiry, Life
<1>2. ASSUME NEW e \in Execs, Promise!KeyKept(e)
      PROVE  Once(e)
  BY <1>2 DEF Promise!KeyKept, Life, Deleting
<1>3. ASSUME [\A k \in Execs : Promise!KeyKept(k)]_Promise!vars
      PROVE  \A e \in Execs : Once(e)
  <2>1. CASE UNCHANGED Promise!vars
    <3>1. \A e \in Execs : Life(e)' = Life(e) /\ Expiry(e)' = Expiry(e)
      BY <2>1 DEF Promise!vars, Expiry
    <3>2. QED
      BY <1>1, <3>1
  <2>2. QED
    BY <1>2, <1>3, <2>1
<1>4. OutputTTL \in Nat
  BY OutputAssumption
<1>5. Promise!Spec => Promise!KeptAsPromised
  BY <1>4, Promise!PromiseKept
<1>6. QED
  BY <1>3, <1>5, StoreIsPromise, ImplementsTTLStore, PTL
     DEF Promise!KeptAsPromised, OutputsEndOnce

\* Outputs that can be read have at most OUTPUT_TTL to go, on whichever side of
\* a restart they were made: no expiry found on the volume is further off than
\* one made now (output.go:80-90, 276-287).
ExpiryNear ==
  \A e \in Execs : dir[e] = "ready" => expires[e] \in 0 .. now + OutputTTL

\* No output is there for longer than OUTPUT_TTL, but for the cleaner's next
\* round.
THEOREM OutputsExpireInTime == Spec => []ExpiryNear
<1>1. OutputTTL \in Nat
  BY OutputAssumption
<1>2. TypeOK /\ Promise!ExpiryBounded => ExpiryNear
  BY DEF TypeOK, Promise!ExpiryBounded, ExpiryNear, Life
<1>3. Promise!Spec => []Promise!ExpiryBounded
  BY <1>1, Promise!HeldForTTL
<1>4. QED
  BY <1>2, <1>3, StoreIsPromise, ImplementsTTLStore, TypeCorrect, PTL
=============================================================================
