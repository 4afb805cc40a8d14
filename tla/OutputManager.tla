----------------------------- MODULE OutputManager -----------------------------
(***************************************************************************)
(* The output manager of executor/output.go: one directory per execution,  *)
(* with a .metadata.json that says when it expires, a cleaner, and the     *)
(* deletes, lists and reads that clients ask for.  Its mutex is never      *)
(* taken: everything below interleaves at the grain of file system calls,  *)
(* and the only record of an execution is what is on disk.                 *)
(*                                                                         *)
(* os.RemoveAll is two steps: the entries go, then the directory, which    *)
(* fails if the container wrote into it in between.  Any write or removal  *)
(* may fail otherwise too; the code goes on whichever way it went.         *)
(***************************************************************************)
EXTENDS Integers

CONSTANTS Execs,        \* executions; their 4 random bytes are taken as unique
          Deleters,     \* delete_output calls in progress
          Readers,      \* list_outputs and get_output calls in progress
          OutputTTL,    \* OUTPUT_TTL, in ticks
          RunTime,      \* longest time from making the directory to the end of
                        \* the container: EXECUTION_TIMEOUT, and what creating
                        \* and stopping the container take
          Faults,       \* whether writes and removals may fail, of files and
                        \* of containers
          MaxTime,      \* bound: the clock stops here
          MaxCrashes    \* bound on the number of restarts

Cleaner == "cleaner"

ASSUME OutputAssumption ==
  /\ OutputTTL \in Nat
  /\ RunTime \in Nat
  /\ Faults \in BOOLEAN
  /\ MaxTime \in Nat
  /\ MaxCrashes \in Nat
  /\ Cleaner \notin Deleters

Removers == Deleters \cup {Cleaner}

VARIABLES now,        \* the clock
          run,        \* where each execution is
          due,        \* when each running execution is over at the latest
          dir,        \* none, made (no readable metadata) or ready
          files,      \* executions whose directory holds output files
          expires,    \* ExpiresAt in the metadata, Never before it is written
          at,         \* where each remover is
          target,     \* the execution each remover works on
          todo,       \* directory entries the cleaner has still to look at
          cutoff,     \* the time the cleaner read
          reading,    \* where each reader is
          left,       \* executions each reader has still to look at
          shown,      \* executions whose files are in each reader's answer
          deleted,    \* ghost: executions some delete_output was called for
          gone,       \* ghost: those it was answered "deleted" of
          owed,       \* ghost: what each reader asked for that was there then
          barred,     \* ghost: what had been answered "deleted" by then
          disturbed,  \* ghost: executions a failed step or a restart has hit
          crashes     \* ghost: restarts so far

execution == <<run, due>>
directory == <<dir, files, expires>>
removal   == <<at, target>>
cleaner   == <<todo, cutoff>>
readers   == <<reading, left, shown, owed, barred>>
ghosts    == <<deleted, gone, disturbed, crashes>>
vars == <<now, execution, directory, removal, cleaner, readers, ghosts>>

Never == MaxTime + OutputTTL + 1
None  == "none"
Nothing == [r \in Readers |-> {}]

TypeOK ==
  /\ now \in 0 .. MaxTime
  /\ run \in [Execs -> {"idle", "making", "running", "ended", "orphaned"}]
  /\ due \in [Execs -> Nat]
  /\ dir \in [Execs -> {"none", "made", "ready"}]
  /\ files \subseteq Execs
  /\ expires \in [Execs -> 0 .. Never]
  /\ at \in [Removers -> {"idle", "checked", "emptied"}]
  /\ target \in [Removers -> Execs \cup {None}]
  /\ todo \subseteq Execs
  /\ cutoff \in 0 .. MaxTime
  /\ reading \in [Readers -> {"idle", "list", "stat", "answer"}]
  /\ left \in [Readers -> SUBSET Execs]
  /\ shown \in [Readers -> SUBSET Execs]
  /\ owed \in [Readers -> SUBSET Execs]
  /\ barred \in [Readers -> SUBSET Execs]
  /\ deleted \subseteq Execs
  /\ gone \subseteq Execs
  /\ disturbed \subseteq Execs
  /\ crashes \in 0 .. MaxCrashes

Init ==
  /\ now = 0
  /\ run = [e \in Execs |-> "idle"]
  /\ due = [e \in Execs |-> 0]
  /\ dir = [e \in Execs |-> "none"]
  /\ files = {}
  /\ expires = [e \in Execs |-> Never]
  /\ at = [r \in Removers |-> "idle"]
  /\ target = [r \in Removers |-> None]
  /\ todo = {}
  /\ cutoff = 0
  /\ reading = [r \in Readers |-> "idle"]
  /\ left = Nothing /\ shown = Nothing /\ owed = Nothing /\ barred = Nothing
  /\ deleted = {}
  /\ gone = {}
  /\ disturbed = {}
  /\ crashes = 0

-----------------------------------------------------------------------------
(* An execution *)

\* CreateExecutionDir: MkdirAll, whose failure ends the call, and Chmod.
MakeDir(e) ==
  /\ run[e] = "idle"
  /\ \/ /\ run' = [run EXCEPT ![e] = "making"]
        /\ dir' = [dir EXCEPT ![e] = "made"]
     \/ /\ Faults
        /\ run' = [run EXCEPT ![e] = "ended"]
        /\ UNCHANGED dir
  /\ UNCHANGED <<now, due, files, expires, removal, cleaner, readers, ghosts>>

\* CreateExecutionDir: the clock, and WriteFile, whose error is ignored: the
\* container runs next, with the metadata or without, and fails only where it
\* has no directory to mount.  Mutant: the expiry is the time of creation.
WriteMetadataNoTTL(e) ==
  /\ run[e] = "making"
  /\ dir[e] # "none"
  /\ dir' = [dir EXCEPT ![e] = "ready"]
  /\ expires' = [expires EXCEPT ![e] = now]
  /\ due' = [due EXCEPT ![e] = now + RunTime]
  /\ run' = [run EXCEPT ![e] = "running"]
  /\ UNCHANGED <<now, files, removal, cleaner, readers, ghosts>>

WriteMetadata(e) ==
  /\ run[e] = "making"
  /\ \/ /\ dir[e] # "none"
        /\ run' = [run EXCEPT ![e] = "running"]
        /\ due' = [due EXCEPT ![e] = now + RunTime]
        /\ \/ /\ dir' = [dir EXCEPT ![e] = "ready"]
              /\ expires' = [expires EXCEPT ![e] = now + OutputTTL]
              /\ UNCHANGED disturbed
           \/ /\ Faults
              /\ disturbed' = disturbed \cup {e}
              /\ UNCHANGED <<dir, expires>>
     \/ /\ dir[e] = "none"
        /\ run' = [run EXCEPT ![e] = "ended"]
        /\ UNCHANGED <<dir, expires, due, disturbed>>
  /\ UNCHANGED <<now, files, removal, cleaner, readers, deleted, gone, crashes>>

\* The container writes a file, if the directory is still linked.
WriteOutput(e) ==
  /\ run[e] \in {"running", "orphaned"}
  /\ dir[e] # "none"
  /\ files' = files \cup {e}
  /\ UNCHANGED <<now, execution, dir, expires, removal, cleaner, readers, ghosts>>

\* The container exits or is removed; or removing it fails, which the call
\* ignores, and it goes on without one.
EndRun(e) ==
  /\ run[e] \in {"running", "orphaned"}
  /\ \/ /\ run' = [run EXCEPT ![e] = "ended"]
        /\ UNCHANGED disturbed
     \/ /\ Faults /\ run[e] = "running"
        /\ run' = [run EXCEPT ![e] = "orphaned"]
        /\ disturbed' = disturbed \cup {e}
  /\ due' = [due EXCEPT ![e] = 0]
  /\ UNCHANGED <<now, directory, removal, cleaner, readers, deleted, gone, crashes>>

-----------------------------------------------------------------------------
(* os.RemoveAll, by the cleaner or by a delete_output call *)

Unreadable(e) == [dir EXCEPT ![e] = IF @ = "ready" THEN "made" ELSE @]

\* The entries go, or some of them stay; the directory is tried next either way.
RemoveEntries(r) ==
  /\ at[r] = "checked"
  /\ at' = [at EXCEPT ![r] = "emptied"]
  /\ \/ /\ files' = files \ {target[r]}
        /\ dir' = Unreadable(target[r])
        /\ UNCHANGED disturbed
     \/ /\ Faults
        /\ files' \in {files, files \ {target[r]}}
        /\ dir' \in {dir, Unreadable(target[r])}
        /\ target[r] \in files' \/ dir'[target[r]] = "ready"
        /\ disturbed' = disturbed \cup {target[r]}
  /\ UNCHANGED <<now, execution, expires, target, cleaner, readers, deleted,
                 gone, crashes>>

\* A remover is done; a delete answers.
Done(r) ==
  /\ at[r] = "emptied"
  /\ at' = [at EXCEPT ![r] = "idle"]
  /\ target' = [target EXCEPT ![r] = None]

AnswerDeleted(r) == gone' = IF r = Cleaner THEN gone ELSE gone \cup {target[r]}

\* Mutant: an error of the last step is taken for success.
RemoveDirAlwaysOk(r) ==
  /\ Done(r)
  /\ AnswerDeleted(r)
  /\ dir' = IF target[r] \in files THEN dir
                                   ELSE [dir EXCEPT ![target[r]] = "none"]
  /\ UNCHANGED <<now, execution, files, expires, cleaner, readers, deleted,
                 disturbed, crashes>>

\* Mutant: only the contents are removed.
RemoveDirKeepsDir(r) ==
  /\ Done(r)
  /\ UNCHANGED <<now, execution, directory, cleaner, readers, ghosts>>

\* A directory that is not empty, or one whose metadata was written after the
\* entries went, stays; one that is gone already counts as removed.
RemoveDir(r) ==
  /\ Done(r)
  /\ \/ /\ target[r] \notin files /\ dir[target[r]] # "ready"
        /\ dir' = [dir EXCEPT ![target[r]] = "none"]
        /\ AnswerDeleted(r)
        /\ UNCHANGED disturbed
     \/ /\ target[r] \in files \/ dir[target[r]] = "ready"
        /\ UNCHANGED <<dir, gone, disturbed>>
     \/ /\ Faults /\ dir[target[r]] # "none"
        /\ disturbed' = disturbed \cup {target[r]}
        /\ UNCHANGED <<dir, gone>>
  /\ UNCHANGED <<now, execution, files, expires, cleaner, readers, deleted, crashes>>

\* DeleteExecution: Stat decides whether there is anything to remove, whether
\* or not the execution is still running.
Delete(d) ==
  /\ at[d] = "idle"
  /\ \E e \in Execs :
       /\ deleted' = deleted \cup {e}
       /\ \/ /\ dir[e] # "none"
             /\ at' = [at EXCEPT ![d] = "checked"]
             /\ target' = [target EXCEPT ![d] = e]
          \/ /\ dir[e] = "none"
             /\ UNCHANGED <<at, target>>
  /\ UNCHANGED <<now, execution, directory, cleaner, readers, gone, disturbed,
                 crashes>>

-----------------------------------------------------------------------------
(* list_outputs and get_output *)

\* A reader begins: what it asks for, and what it then owes and must not show.
\* (One that finds nothing to look at is answered at once.)
Ask(r, label, asked) ==
  /\ reading[r] = "idle" /\ asked # {}
  /\ reading' = [reading EXCEPT ![r] = label]
  /\ left' = [left EXCEPT ![r] = asked]
  /\ owed' = [owed EXCEPT ![r] = asked \cap files]
  /\ barred' = [barred EXCEPT ![r] = gone]
  /\ UNCHANGED <<now, execution, directory, removal, cleaner, shown, ghosts>>

\* ListExecutions: ReadDir of the base directory.
List(r) == Ask(r, "list", {e \in Execs : dir[e] # "none"})

\* GetFile: Stat.
Get(r) == \E e \in files : Ask(r, "stat", {e})

\* ScanOutputFiles of one entry; one that is gone by now has no files.
\* Mutant: it ends the list.
ListEntryStops(r) ==
  /\ reading[r] = "list"
  /\ \E e \in left[r] :
       /\ left' = [left EXCEPT ![r] = IF dir[e] = "none" THEN {} ELSE @ \ {e}]
       /\ shown' = [shown EXCEPT ![r] = @ \cup ({e} \cap files)]
  /\ reading' = [reading EXCEPT ![r] = IF left'[r] = {} THEN "answer" ELSE @]
  /\ UNCHANGED <<now, execution, directory, removal, cleaner, owed, barred,
                 ghosts>>

ListEntry(r) ==
  /\ reading[r] = "list"
  /\ \E e \in left[r] :
       /\ left' = [left EXCEPT ![r] = @ \ {e}]
       /\ shown' = [shown EXCEPT ![r] = @ \cup ({e} \cap files)]
  /\ reading' = [reading EXCEPT ![r] = IF left'[r] = {} THEN "answer" ELSE @]
  /\ UNCHANGED <<now, execution, directory, removal, cleaner, owed, barred,
                 ghosts>>

\* GetFile: ReadFile of a text file, which may be gone by now; of any other
\* file what Stat said is the answer.
GetContents(r) ==
  /\ reading[r] = "stat"
  /\ \E text \in BOOLEAN :
       shown' = [shown EXCEPT ![r] = IF text THEN left[r] \cap files ELSE left[r]]
  /\ left' = [left EXCEPT ![r] = {}]
  /\ reading' = [reading EXCEPT ![r] = "answer"]
  /\ UNCHANGED <<now, execution, directory, removal, cleaner, owed, barred,
                 ghosts>>

\* The call returns.
Answered(r) ==
  /\ reading[r] = "answer"
  /\ reading' = [reading EXCEPT ![r] = "idle"]
  /\ shown' = [shown EXCEPT ![r] = {}]
  /\ owed' = [owed EXCEPT ![r] = {}]
  /\ barred' = [barred EXCEPT ![r] = {}]
  /\ UNCHANGED <<now, execution, directory, removal, cleaner, left, ghosts>>

-----------------------------------------------------------------------------
(* cleanupLoop *)

\* ReadDir, then the clock.  Mutant: the clock less some margin.
CleanupStartMargin ==
  /\ at[Cleaner] = "idle" /\ todo = {}
  /\ todo' = {e \in Execs : dir[e] # "none"}
  /\ cutoff' = now - 1
  /\ UNCHANGED <<now, execution, directory, removal, readers, ghosts>>

CleanupStart ==
  /\ at[Cleaner] = "idle" /\ todo = {}
  /\ todo' = {e \in Execs : dir[e] # "none"}
  /\ cutoff' = now
  /\ UNCHANGED <<now, execution, directory, removal, readers, ghosts>>

\* readMetadata, at the time the entry's turn comes.  A directory without
\* readable metadata, or one where reading it fails, is passed over.  Mutants:
\* it counts as expired; so does one at the very instant of its expiry.
ExpiredOrUnreadable(e) ==
  dir[e] = "made" \/ (dir[e] = "ready" /\ cutoff > expires[e])
ExpiredInclusive(e) == dir[e] = "ready" /\ cutoff >= expires[e]
Expired(e) == dir[e] = "ready" /\ cutoff > expires[e]

\* Mutant: an entry is ticked off without being looked at.
CleanupSkips ==
  /\ at[Cleaner] = "idle"
  /\ \E e \in todo : todo' = todo \ {e}
  /\ UNCHANGED <<now, execution, directory, removal, cutoff, readers,
                 ghosts>>

CleanupEntry ==
  /\ at[Cleaner] = "idle"
  /\ \E e \in todo :
       /\ todo' = todo \ {e}
       /\ \/ /\ Expired(e)
             /\ at' = [at EXCEPT ![Cleaner] = "checked"]
             /\ target' = [target EXCEPT ![Cleaner] = e]
             /\ UNCHANGED disturbed
          \/ /\ ~Expired(e)
             /\ UNCHANGED <<at, target, disturbed>>
          \/ /\ Expired(e) /\ Faults
             /\ disturbed' = disturbed \cup {e}
             /\ UNCHANGED <<at, target>>
  /\ UNCHANGED <<now, execution, directory, cutoff, readers, deleted, gone,
                 crashes>>

-----------------------------------------------------------------------------
(* The environment *)

\* Time passes, but a running execution is over when its time is up.
Tick ==
  /\ now < MaxTime
  /\ \A e \in Execs : run[e] = "running" => now < due[e]
  /\ now' = now + 1
  /\ UNCHANGED <<execution, directory, removal, cleaner, readers, ghosts>>

\* The process dies and is started again.  Containers go on, unsupervised.
Restart ==
  /\ crashes < MaxCrashes
  /\ crashes' = crashes + 1
  /\ run' = [e \in Execs |-> CASE run[e] = "making"  -> "ended"
                               [] run[e] = "running" -> "orphaned"
                               [] OTHER              -> run[e]]
  /\ disturbed' = disturbed \cup {e \in Execs : run[e] \in {"making", "running"}}
                            \cup {target[r] : r \in {q \in Removers : at[q] # "idle"}}
  /\ due' = [e \in Execs |-> 0]
  /\ at' = [r \in Removers |-> "idle"]
  /\ target' = [r \in Removers |-> None]
  /\ todo' = {}
  /\ reading' = [r \in Readers |-> "idle"]
  /\ left' = Nothing /\ shown' = Nothing /\ owed' = Nothing /\ barred' = Nothing
  /\ UNCHANGED <<now, directory, cutoff, deleted, gone>>

-----------------------------------------------------------------------------
Next ==
  \/ \E e \in Execs : MakeDir(e) \/ WriteMetadata(e) \/ WriteOutput(e) \/ EndRun(e)
  \/ \E r \in Removers : RemoveEntries(r) \/ RemoveDir(r)
  \/ \E d \in Deleters : Delete(d)
  \/ \E r \in Readers : List(r) \/ Get(r) \/ ListEntry(r) \/ GetContents(r)
                          \/ Answered(r)
  \/ CleanupStart
  \/ CleanupEntry
  \/ Tick
  \/ Restart

Spec == Init /\ [][Next]_vars

\* The clock, the ticker and the cleaner go on, and an execution ends, which
\* its timeout sees to.
Fairness ==
  /\ WF_vars(Tick)
  /\ WF_vars(CleanupStart)
  /\ WF_vars(CleanupEntry)
  /\ WF_vars(RemoveEntries(Cleaner))
  /\ WF_vars(RemoveDir(Cleaner))
  /\ \A e \in Execs : WF_vars(EndRun(e))

FairSpec == Spec /\ Fairness

-----------------------------------------------------------------------------
(* Properties *)

\* The cleaner works on directories that really are past the expiry in their
\* metadata: not on one that is being made, nor on one whose time has not come
\* (output.go:304-328).
CleanerTakesExpired ==
  at[Cleaner] # "idle" => expires[target[Cleaner]] < now

\* An execution that nobody deletes keeps its output directory while it runs,
\* and its metadata too unless writing it failed: until it expires, and to the
\* end when outputs live at least as long as executions may run, whatever
\* writes and removals fail (output.go:66-91, 304-328; docker.go:231-237, 294).
RunningKeepsOutput ==
  \A e \in Execs :
    /\ run[e] = "running" /\ e \notin deleted
    /\ now <= expires[e] \/ OutputTTL >= RunTime
    => dir[e] # "none" /\ (dir[e] = "ready" \/ expires[e] = Never)

\* delete_output says "Deleted" only of a directory that is gone, with a
\* container writing into it and the cleaner removing it at the same time
\* (output.go:255-266; tools.go:499-515).
DeletedIsGone ==
  \A e \in gone : dir[e] = "none"

\* What a list or a get answers: no file that was answered "deleted" before the
\* call, and every file that was there when the call began, unless it has
\* expired or somebody has deleted it (output.go:94-131, 159-204).
ReadsAreTrue ==
  \A r \in Readers :
    /\ shown[r] \cap barred[r] = {}
    /\ reading[r] = "answer" =>
         {e \in owed[r] : e \notin deleted /\ now <= expires[e]} \subseteq shown[r]

\* A directory without readable metadata, which the cleaner would pass over for
\* ever, has a reason: it is being made, a delete named it, a step of its
\* execution or of its removal failed, a restart cut one short, or the cleaner
\* is removing it; or its container writes into it past its expiry, which needs
\* outputs that live less long than executions run (output.go:66-91, 246-267,
\* 304-328; docker.go:305-309).
NoUnreadableDirs ==
  \A e \in Execs :
    dir[e] = "made" /\ e \notin deleted \cup disturbed =>
      \/ run[e] = "making"
      \/ /\ now > expires[e]
         /\ \/ at[Cleaner] = "emptied" /\ target[Cleaner] = e
            \/ OutputTTL < RunTime

\* An execution's outputs are there while the metadata can be read; until it is
\* written they may still come.
Life(e) ==
  IF dir[e] = "ready" THEN "held"
  ELSE IF run[e] \in {"idle", "making"} THEN "fresh"
  ELSE "over"

\* The manager keeps what a store with a TTL promises, and keeps it across
\* restarts: outputs go only when they have expired or when a delete named
\* them, at the step that empties the directory, and never come back, with a
\* container writing into the directory all the while
\* (output.go:66-91, 246-267, 304-328).
Store == INSTANCE TTLStore WITH
  Keys     <- Execs,
  TTL      <- OutputTTL,
  Volatile <- FALSE,
  Faulty   <- Faults,
  life     <- [e \in Execs |-> Life(e)],
  expires  <- [e \in Execs |-> IF dir[e] = "ready" THEN expires[e] ELSE 0],
  deleting <- {target[d] : d \in {c \in Deleters : at[c] = "emptied"}}

StoreSpec == Store!Spec

\* A directory with readable metadata is removed after it expired, with nobody
\* asking for it, by this process or by the next (output.go:289-328).  A removal
\* that fails half-way takes the metadata with it, so a directory that somebody
\* tried to delete, or that a failure or a restart has hit, is not promised to
\* go.
ExpiredOutputRemoved ==
  \A e \in Execs :
    (dir[e] = "ready" /\ expires[e] < MaxTime)
      ~> (dir[e] = "none" \/ e \in deleted \cup disturbed)

=============================================================================
