---------------------------- MODULE FileStoreProofs ----------------------------
(***************************************************************************)
(* Proofs about FileStore, for every set of IDs and of requests, every     *)
(* TTL, with and without failing removals, and any number of restarts.     *)
(*                                                                         *)
(* The argument is one of ownership: a file that is not in the index and   *)
(* is still to be registered belongs to exactly one upload, and nobody     *)
(* else removes it, scans it or was told anything about it.                *)
(***************************************************************************)
EXTENDS FileStore, TLAPS

\* Entries, files and the files of calls all carry IDs handed out before.
UsedInv ==
  /\ index \subseteq used
  /\ disk \subseteq used
  /\ \A c \in Clients : pc[c] # "idle" => fid[c] \in used /\ reply[c] = None
  /\ \A c \in Clients : reply[c] \in Gone => fid[c] \in used

\* Request d works on, or was answered about, a file that is lost to others.
Claims(d) == pc[d] \in Uploading \cup {"unlinked"} \/ reply[d] \in Gone

\* An upload in progress owns its file.
OwnerInv ==
  \A c \in Clients :
    pc[c] \in Uploading =>
      /\ fid[c] \in disk /\ fid[c] \notin index
      /\ \A d \in Clients \ {c} : Claims(d) => fid[d] # fid[c]

\* A delete in progress has taken its entry away.
UnlinkedInv == \A c \in Clients : pc[c] = "unlinked" => fid[c] \notin index

\* What is past the scanner was let through by it.
VettedInv ==
  \A c \in Clients : pc[c] \in {"vetted", "stamped"} => Vetted(fid[c])

\* The time the cleaner works with is not ahead of the clock.
CutoffInv == cutoff <= now

IInv ==
  /\ TypeOK
  /\ UsedInv
  /\ IndexedOnDisk
  /\ OwnerInv
  /\ UnlinkedInv
  /\ VettedInv
  /\ VettedBeforeServed
  /\ AnswersAreTrue
  /\ CutoffInv

-----------------------------------------------------------------------------
\* A file that the scanner lets through is vetted, for every way in which
\* the two programs can end.
LEMMA ScanVets ==
  ASSUME TypeOK, NEW d \in ExitStatus, NEW s \in ExitStatus,
         NEW result, result = Scan(available, d, s),
         ~result.error, result.clean
  PROVE  ScanEnabled /\ (available \/ ~FailOpen) =>
           /\ Runs(available, d, s) \cap {"zero", "other"} # {}
           /\ "one" \notin Runs(available, d, s)
<1>1. SUFFICES ASSUME ScanEnabled, available \/ ~FailOpen
               PROVE  /\ Runs(available, d, s) \cap {"zero", "other"} # {}
                      /\ "one" \notin Runs(available, d, s)
  OBVIOUS
<1>2. ScanEnabled \in BOOLEAN /\ FailOpen \in BOOLEAN /\ available \in BOOLEAN
  BY ScannerAssumption DEF TypeOK
<1>3. available
  BY <1>1, <1>2 DEF Scan, Refused
<1>4. CASE d \in {"zero", "other"}
  BY <1>1, <1>3, <1>4 DEF Runs, RunResult, Clean
<1>5. CASE d = "one"
  BY <1>1, <1>2, <1>3, <1>5 DEF Scan, RunResult, Infected
<1>6. CASE d \in {"two", "norun"}
  <2>1. RunResult(d).error
    BY <1>6 DEF RunResult, Refused
  <2>2. result = RunResult(s) /\ Runs(available, d, s) = {d, s}
    BY <1>1, <1>2, <1>3, <2>1 DEF Scan, Runs
  <2>3. s \in {"zero", "other"}
    BY <2>2 DEF RunResult, Refused, Infected, ExitStatus
  <2>4. QED
    BY <1>6, <2>2, <2>3
<1>7. QED
  BY <1>4, <1>5, <1>6 DEF ExitStatus

\* Initially there are no files and no calls.
LEMMA InitIInv == Init => IInv
BY StoreAssumption, ScannerAssumption
   DEF Init, IInv, TypeOK, PC, Answers, UsedInv, IndexedOnDisk, OwnerInv,
       UnlinkedInv, VettedInv, VettedBeforeServed, AnswersAreTrue, CutoffInv,
       Uploading, Gone, None, Idle, CheckAvailability

LEMMA UploadCreateStep ==
  ASSUME IInv, NEW c \in Clients, UploadCreate(c)
  PROVE  IInv'
<1> USE DEF IInv, UploadCreate, Begin, Fresh
<1>1. TypeOK'
  BY DEF TypeOK, PC
<1>2. UsedInv'
  BY DEF TypeOK, UsedInv, Gone, None
<1>3. IndexedOnDisk' /\ UnlinkedInv' /\ CutoffInv'
  BY DEF TypeOK, IndexedOnDisk, UnlinkedInv, CutoffInv
<1>4. OwnerInv'
  BY DEF TypeOK, OwnerInv, UsedInv, Claims, Uploading, Gone, None
<1>5. VettedInv' /\ VettedBeforeServed'
  BY DEF TypeOK, VettedInv, VettedBeforeServed, Vetted
<1>6. AnswersAreTrue'
  BY DEF TypeOK, AnswersAreTrue, UsedInv, Gone, None
<1>7. QED
  BY <1>1, <1>2, <1>3, <1>4, <1>5, <1>6

\* An upload that ends without registering its file lets go of it.
LEMMA UploadEnds ==
  ASSUME IInv, NEW c \in Clients, pc[c] = "created",
         Remove({fid[c]}),
         NEW answer \in {"failed", "malware", "unavailable"},
         Answer(c, answer),
         \/ UNCHANGED runs
         \/ \E e \in SUBSET ExitStatus : runs' = [runs EXCEPT ![fid[c]] = e],
         UNCHANGED <<now, index, expiresAt, fid, cutoff, available, used,
                     crashes>>
  PROVE  IInv'
<1> USE DEF IInv, Answer
<1>1. fid[c] \in IDs /\ disk' \subseteq disk /\ disk \ {fid[c]} \subseteq disk'
  BY DEF Remove, TypeOK, UsedInv
<1>2. TypeOK'
  BY <1>1 DEF TypeOK, PC, Answers
<1>3. UsedInv'
  BY <1>1 DEF TypeOK, UsedInv, Gone, None
<1>4. IndexedOnDisk' /\ UnlinkedInv' /\ CutoffInv'
  BY <1>1 DEF TypeOK, IndexedOnDisk, OwnerInv, Uploading, UnlinkedInv, CutoffInv
<1>5. OwnerInv'
  BY <1>1 DEF TypeOK, OwnerInv, Claims, Uploading, Gone
<1>6. \A id \in IDs : id # fid[c] => runs'[id] = runs[id]
  BY DEF TypeOK
<1>7. VettedInv' /\ VettedBeforeServed'
  <2>1. \A d \in Clients : pc'[d] \in {"vetted", "stamped"}
          => fid[d] # fid[c] /\ fid[d] \in IDs
    BY DEF TypeOK, OwnerInv, Claims, Uploading, UsedInv
  <2>2. \A id \in index : id # fid[c] /\ id \in IDs
    BY DEF TypeOK, OwnerInv, Uploading
  <2>3. QED
    BY <1>6, <2>1, <2>2 DEF TypeOK, VettedInv, VettedBeforeServed, Vetted
<1>8. AnswersAreTrue'
  BY <1>1 DEF TypeOK, AnswersAreTrue, OwnerInv, Uploading, Gone
<1>9. QED
  BY <1>2, <1>3, <1>4, <1>5, <1>7, <1>8

LEMMA UploadAbortStep ==
  ASSUME IInv, NEW c \in Clients, UploadAbort(c)
  PROVE  IInv'
BY UploadEnds DEF UploadAbort

LEMMA UploadScanStep ==
  ASSUME IInv, NEW c \in Clients, UploadScan(c)
  PROVE  IInv'
<1> DEFINE Result(d, s) == Scan(available, d, s)
<1>1. PICK d \in ExitStatus, s \in ExitStatus :
        /\ runs' = [runs EXCEPT ![fid[c]] = Runs(available, d, s)]
        /\ \/ /\ Result(d, s).error
              /\ Remove({fid[c]})
              /\ Answer(c, "unavailable")
           \/ /\ ~Result(d, s).error /\ ~Result(d, s).clean
              /\ Remove({fid[c]})
              /\ Answer(c, "malware")
           \/ /\ ~Result(d, s).error /\ Result(d, s).clean
              /\ Goto(c, "vetted")
              /\ UNCHANGED disk
  BY DEF UploadScan
<1>2. Runs(available, d, s) \in SUBSET ExitStatus
  BY DEF Runs
<1>3. /\ pc[c] = "created"
      /\ UNCHANGED <<now, index, expiresAt, fid, cutoff, available, used,
                      crashes>>
  BY DEF UploadScan
<1>4. CASE Remove({fid[c]}) /\ Answer(c, "unavailable")
  BY <1>1, <1>2, <1>3, <1>4, UploadEnds
<1>5. CASE Remove({fid[c]}) /\ Answer(c, "malware")
  BY <1>1, <1>2, <1>3, <1>5, UploadEnds
<1>6. CASE /\ ~Result(d, s).error /\ Result(d, s).clean
           /\ Goto(c, "vetted")
           /\ UNCHANGED disk
  <2> USE DEF IInv, Goto
  <2>1. TypeOK'
    BY <1>1, <1>2, <1>3, <1>6 DEF TypeOK, PC
  <2>2. UsedInv' /\ IndexedOnDisk' /\ UnlinkedInv' /\ CutoffInv'
    BY <1>3, <1>6
       DEF TypeOK, UsedInv, IndexedOnDisk, UnlinkedInv, CutoffInv, Gone, None
  <2>3. OwnerInv'
    BY <1>3, <1>6 DEF TypeOK, OwnerInv, Claims, Uploading
  <2>4. AnswersAreTrue'
    BY <1>3, <1>6 DEF TypeOK, AnswersAreTrue
  <2>5. Vetted(fid[c])'
    <3>1. fid[c] \in IDs /\ runs'[fid[c]] = Runs(available, d, s)
      BY <1>1, <1>3 DEF TypeOK, UsedInv
    <3>2. ScanEnabled /\ (available \/ ~FailOpen) =>
            /\ Runs(available, d, s) \cap {"zero", "other"} # {}
            /\ "one" \notin Runs(available, d, s)
      BY <1>6, ScanVets
    <3>3. QED
      BY <1>3, <3>1, <3>2 DEF Vetted
  <2>6. \A id \in IDs : id # fid[c] => runs'[id] = runs[id]
    BY <1>1 DEF TypeOK
  <2>7. VettedInv'
    <3>1. \A e \in Clients \ {c} : pc[e] \in {"vetted", "stamped"}
            => fid[e] # fid[c] /\ fid[e] \in IDs /\ Vetted(fid[e])
      BY <1>3 DEF TypeOK, OwnerInv, Claims, Uploading, UsedInv, VettedInv
    <3>2. \A e \in Clients \ {c} : pc'[e] = pc[e] /\ fid'[e] = fid[e]
      BY <1>3, <1>6 DEF TypeOK
    <3>3. QED
      BY <1>3, <2>5, <2>6, <3>1, <3>2 DEF VettedInv, Vetted
  <2>8. VettedBeforeServed'
    <3>1. \A id \in index : id # fid[c] /\ id \in IDs
      BY <1>3 DEF TypeOK, OwnerInv, Uploading
    <3>2. QED
      BY <1>3, <2>6, <3>1 DEF VettedBeforeServed, Vetted
  <2>9. QED
    BY <2>1, <2>2, <2>3, <2>4, <2>7, <2>8
<1>7. QED
  BY <1>1, <1>4, <1>5, <1>6

LEMMA UploadStampStep ==
  ASSUME IInv, NEW c \in Clients, UploadStamp(c)
  PROVE  IInv'
<1> USE DEF IInv, UploadStamp, Goto
<1>1. TypeOK'
  BY StoreAssumption DEF TypeOK, PC, UsedInv
<1>2. UsedInv' /\ IndexedOnDisk' /\ UnlinkedInv' /\ CutoffInv'
  BY DEF TypeOK, UsedInv, IndexedOnDisk, UnlinkedInv, CutoffInv, Gone, None
<1>3. OwnerInv'
  BY DEF TypeOK, OwnerInv, Claims, Uploading
<1>4. VettedInv' /\ VettedBeforeServed' /\ AnswersAreTrue'
  BY DEF TypeOK, VettedInv, VettedBeforeServed, Vetted, AnswersAreTrue
<1>5. QED
  BY <1>1, <1>2, <1>3, <1>4

LEMMA UploadRegisterStep ==
  ASSUME IInv, NEW c \in Clients, UploadRegister(c)
  PROVE  IInv'
<1> USE DEF IInv, UploadRegister, Answer
<1>1. TypeOK'
  BY DEF TypeOK, PC, Answers, UsedInv
<1>2. UsedInv' /\ IndexedOnDisk' /\ UnlinkedInv' /\ CutoffInv'
  BY DEF TypeOK, UsedInv, IndexedOnDisk, UnlinkedInv, CutoffInv, OwnerInv,
         Claims, Uploading, Gone, None
<1>3. OwnerInv'
  BY DEF TypeOK, OwnerInv, Claims, Uploading, Gone
<1>4. VettedInv' /\ VettedBeforeServed'
  BY DEF TypeOK, VettedInv, VettedBeforeServed, Vetted
<1>5. AnswersAreTrue'
  BY DEF TypeOK, AnswersAreTrue, OwnerInv, Claims, Uploading, Gone
<1>6. QED
  BY <1>1, <1>2, <1>3, <1>4, <1>5

LEMMA DeleteUnlinkStep ==
  ASSUME IInv, NEW c \in Clients, DeleteUnlink(c)
  PROVE  IInv'
<1>1. PICK id \in used :
        /\ fid' = [fid EXCEPT ![c] = id]
        /\ \/ /\ id \notin index
              /\ Answer(c, "missing")
              /\ UNCHANGED index
           \/ /\ id \in index
              /\ index' = index \ {id}
              /\ Begin(c, "unlinked")
  BY DEF DeleteUnlink
<1> USE DEF IInv, DeleteUnlink, Answer, Begin
<1>2. id \in IDs
  BY DEF TypeOK
<1>3. TypeOK'
  BY <1>1, <1>2 DEF TypeOK, PC, Answers
<1>4. UsedInv' /\ IndexedOnDisk' /\ UnlinkedInv' /\ CutoffInv'
  BY <1>1, <1>2
     DEF TypeOK, UsedInv, IndexedOnDisk, UnlinkedInv, CutoffInv, Gone, None
<1>5. OwnerInv'
  BY <1>1, <1>2 DEF TypeOK, OwnerInv, Claims, Uploading, Gone, None
<1>6. VettedInv' /\ VettedBeforeServed' /\ AnswersAreTrue'
  BY <1>1, <1>2
     DEF TypeOK, VettedInv, VettedBeforeServed, Vetted, AnswersAreTrue, Gone,
         None
<1>7. QED
  BY <1>3, <1>4, <1>5, <1>6

LEMMA DeleteRemoveStep ==
  ASSUME IInv, NEW c \in Clients, DeleteRemove(c)
  PROVE  IInv'
<1> USE DEF IInv, DeleteRemove, Answer
<1>1. TypeOK'
  BY DEF TypeOK, PC, Answers
<1>2. UsedInv' /\ IndexedOnDisk' /\ UnlinkedInv' /\ CutoffInv'
  BY DEF TypeOK, UsedInv, IndexedOnDisk, UnlinkedInv, CutoffInv, Gone, None
<1>3. OwnerInv'
  BY DEF TypeOK, OwnerInv, Claims, Uploading, Gone
<1>4. VettedInv' /\ VettedBeforeServed'
  BY DEF TypeOK, VettedInv, VettedBeforeServed, Vetted
<1>5. AnswersAreTrue'
  BY DEF TypeOK, AnswersAreTrue, UnlinkedInv, Gone
<1>6. QED
  BY <1>1, <1>2, <1>3, <1>4, <1>5

LEMMA DownloadStep ==
  ASSUME IInv, NEW c \in Clients, DownloadGet(c) \/ DownloadOpen(c)
  PROVE  IInv'
<1> USE DEF IInv, Answer, Begin
<1>1. CASE DownloadGet(c)
  <2> USE <1>1 DEF DownloadGet
  <2>1. TypeOK'
    BY DEF TypeOK, PC, Answers
  <2>2. UsedInv' /\ IndexedOnDisk' /\ UnlinkedInv' /\ CutoffInv'
    BY DEF TypeOK, UsedInv, IndexedOnDisk, UnlinkedInv, CutoffInv, Gone, None
  <2>3. OwnerInv'
    BY DEF TypeOK, OwnerInv, Claims, Uploading, Gone, None
  <2>4. VettedInv' /\ VettedBeforeServed' /\ AnswersAreTrue'
    BY DEF TypeOK, VettedInv, VettedBeforeServed, Vetted, AnswersAreTrue,
           Gone, None
  <2>5. QED
    BY <2>1, <2>2, <2>3, <2>4
<1>2. CASE DownloadOpen(c)
  <2> USE <1>2 DEF DownloadOpen
  <2>1. TypeOK'
    BY DEF TypeOK, PC, Answers
  <2>2. UsedInv' /\ IndexedOnDisk' /\ UnlinkedInv' /\ CutoffInv'
    BY DEF TypeOK, UsedInv, IndexedOnDisk, UnlinkedInv, CutoffInv, Gone, None
  <2>3. OwnerInv'
    BY DEF TypeOK, OwnerInv, Claims, Uploading, Gone
  <2>4. VettedInv' /\ VettedBeforeServed' /\ AnswersAreTrue'
    BY DEF TypeOK, VettedInv, VettedBeforeServed, Vetted, AnswersAreTrue,
           IndexedOnDisk, Gone
  <2>5. QED
    BY <2>1, <2>2, <2>3, <2>4
<1>3. QED
  BY <1>1, <1>2

LEMMA CleanerStep ==
  ASSUME IInv, CleanupTick \/ CleanupSweep \/ Tick
  PROVE  IInv'
<1> USE DEF IInv
<1>1. /\ index' \subseteq index /\ disk' \subseteq disk
      /\ disk \ (index \ index') \subseteq disk'
      /\ UNCHANGED <<expiresAt, pc, fid, reply, available, used, runs, crashes>>
  BY DEF CleanupTick, CleanupSweep, Tick, Remove, Expired
<1>2. TypeOK' /\ CutoffInv'
  <2>1. CASE CleanupTick
    BY <2>1 DEF CleanupTick, TypeOK, CutoffInv, Idle
  <2>2. CASE CleanupSweep
    BY <1>1, <2>2, StoreAssumption DEF CleanupSweep, TypeOK, CutoffInv, Idle
  <2>3. CASE Tick
    BY <2>3, StoreAssumption DEF Tick, TypeOK, CutoffInv, Idle
  <2>4. QED
    BY <2>1, <2>2, <2>3
<1>3. IndexedOnDisk'
  BY <1>1 DEF IndexedOnDisk, CleanupTick, CleanupSweep, Tick, Remove, Expired
<1>4. UsedInv' /\ UnlinkedInv'
  BY <1>1 DEF UsedInv, UnlinkedInv
<1>5. OwnerInv'
  BY <1>1 DEF OwnerInv, Claims
<1>6. VettedInv' /\ VettedBeforeServed' /\ AnswersAreTrue'
  BY <1>1 DEF VettedInv, VettedBeforeServed, Vetted, AnswersAreTrue
<1>7. QED
  BY <1>2, <1>3, <1>4, <1>5, <1>6

LEMMA RestartStep ==
  ASSUME IInv, Restart
  PROVE  IInv'
BY StoreAssumption, ScannerAssumption
   DEF Restart, IInv, TypeOK, PC, Answers, UsedInv, IndexedOnDisk, OwnerInv,
       Claims, UnlinkedInv, VettedInv, VettedBeforeServed, AnswersAreTrue,
       CutoffInv, Uploading, Gone, None, Idle, CheckAvailability

LEMMA StutterStep ==
  ASSUME IInv, UNCHANGED vars
  PROVE  IInv'
BY DEF vars, IInv, TypeOK, UsedInv, IndexedOnDisk, OwnerInv, Claims,
       UnlinkedInv, VettedInv, VettedBeforeServed, Vetted, AnswersAreTrue,
       CutoffInv

-----------------------------------------------------------------------------
\* Ownership is inductive: every step of a request, of the cleaner and of the
\* environment keeps it.
THEOREM Inductive == IInv /\ [Next]_vars => IInv'
<1>1. SUFFICES ASSUME IInv, [Next]_vars PROVE IInv'
  OBVIOUS
<1>2. ASSUME NEW c \in Clients, Call(c) PROVE IInv'
  BY <1>1, <1>2, UploadCreateStep, UploadAbortStep, UploadScanStep,
     UploadStampStep, UploadRegisterStep, DeleteUnlinkStep, DeleteRemoveStep,
     DownloadStep DEF Call
<1>3. CASE CleanupTick \/ CleanupSweep \/ Tick
  BY <1>1, <1>3, CleanerStep
<1>4. CASE Restart
  BY <1>1, <1>4, RestartStep
<1>5. CASE UNCHANGED vars
  BY <1>1, <1>5, StutterStep
<1>6. QED
  BY <1>1, <1>2, <1>3, <1>4, <1>5 DEF Next

\* The inductive invariant holds in every reachable state.
THEOREM Invariance == Spec => []IInv
BY InitIInv, Inductive, PTL DEF Spec

\* The state of the store keeps its types.
THEOREM TypeCorrect == Spec => []TypeOK
<1>1. IInv => TypeOK
  BY DEF IInv
<1>2. QED
  BY <1>1, Invariance, PTL

\* An ID that a reader finds in the index always has its file on disk.
THEOREM IndexHasFiles == Spec => []IndexedOnDisk
<1>1. IInv => IndexedOnDisk
  BY DEF IInv
<1>2. QED
  BY <1>1, Invariance, PTL

\* No file is served that ClamAV did not let through, whatever the programs'
\* exit statuses, unless fail-open mode started without a scanner.
THEOREM OnlyVettedServed == Spec => []VettedBeforeServed
<1>1. IInv => VettedBeforeServed
  BY DEF IInv
<1>2. QED
  BY <1>1, Invariance, PTL

\* What clients were told of a file stays true, faults included.
THEOREM TrueAnswers == Spec => []AnswersAreTrue
<1>1. IInv => AnswersAreTrue
  BY DEF IInv
<1>2. QED
  BY <1>1, Invariance, PTL

\* Neither the cleaner nor another request makes a live ID unresolvable.
THEOREM LiveSpared == Spec => SweepSparesLive
<1> DEFINE Spared(id) ==
      Resolvable(id) /\ id \notin index'
        => \/ crashes' # crashes
           \/ \E c \in Clients : pc'[c] = "unlinked" /\ fid'[c] = id
<1>1. ASSUME IInv, [Next]_vars, NEW id \in IDs PROVE Spared(id)
  <2>1. SUFFICES ASSUME Resolvable(id), id \notin index' PROVE Spared(id)
    OBVIOUS
  <2>2. CASE CleanupSweep
    BY <1>1, <2>1, <2>2
       DEF CleanupSweep, Expired, Resolvable, IInv, TypeOK, CutoffInv, Idle
  <2>3. ASSUME NEW c \in Clients, DeleteUnlink(c) PROVE Spared(id)
    BY <1>1, <2>1, <2>3
       DEF DeleteUnlink, Answer, Begin, Resolvable, IInv, TypeOK
  <2>4. CASE Restart
    BY <1>1, <2>4, StoreAssumption DEF Restart, IInv, TypeOK
  <2>5. CASE UNCHANGED index
    BY <2>1, <2>5 DEF Resolvable
  <2>6. ASSUME NEW c \in Clients, UploadRegister(c) PROVE Spared(id)
    BY <2>1, <2>6 DEF UploadRegister, Resolvable
  <2>7. QED
    BY <1>1, <2>2, <2>3, <2>4, <2>5, <2>6
       DEF Next, Call, UploadCreate, UploadAbort, UploadScan, UploadStamp,
           DeleteRemove, DownloadGet, DownloadOpen, CleanupTick, Tick, vars
<1>2. IInv /\ [Next]_vars => [\A id \in IDs : Spared(id)]_vars
  BY <1>1
<1>3. QED
  BY <1>2, Invariance, PTL DEF Spec, SweepSparesLive

-----------------------------------------------------------------------------
\* As long as removals succeed and the process lives, no file is on disk that
\* nothing will remove.
THEOREM NoFileLost == Spec => []NoOrphans
<1>1. Init => NoOrphans
  BY DEF Init, NoOrphans
<1>2. IInv /\ NoOrphans /\ [Next]_vars => NoOrphans'
  <2>1. SUFFICES ASSUME IInv, NoOrphans, [Next]_vars, ~Faults, crashes' = 0,
                        NEW id \in disk' \ index'
                 PROVE  \E c \in Clients :
                          /\ pc'[c] \in Uploading \cup {"unlinked"}
                          /\ fid'[c] = id
    BY DEF NoOrphans
  <2> USE DEF IInv, TypeOK, Answer, Begin, Goto, Remove, Uploading
  <2>2. crashes = 0 /\ ~Restart
    BY <2>1, StoreAssumption DEF Next, Call, Restart, UploadCreate, UploadAbort,
       UploadScan, UploadStamp, UploadRegister, DeleteUnlink, DeleteRemove,
       DownloadGet, DownloadOpen, CleanupTick, CleanupSweep, Tick, vars
  <2>3. id \in disk \ index => \E c \in Clients :
           pc[c] \in Uploading \cup {"unlinked"} /\ fid[c] = id
    BY <2>1, <2>2 DEF NoOrphans
  <2>4. ASSUME NEW d \in Clients, UploadCreate(d)
        PROVE  \E c \in Clients :
                 pc'[c] \in Uploading \cup {"unlinked"} /\ fid'[c] = id
    BY <2>1, <2>3, <2>4 DEF UploadCreate
  <2>5. ASSUME NEW d \in Clients,
               \/ UploadAbort(d) \/ UploadScan(d) \/ UploadStamp(d)
               \/ UploadRegister(d) \/ DeleteRemove(d) \/ DownloadGet(d)
               \/ DownloadOpen(d)
        PROVE  \E c \in Clients :
                 pc'[c] \in Uploading \cup {"unlinked"} /\ fid'[c] = id
    BY <2>1, <2>3, <2>5 DEF UploadAbort, UploadScan, UploadStamp, UploadRegister,
       DeleteRemove, DownloadGet, DownloadOpen
  <2>6. ASSUME NEW d \in Clients, DeleteUnlink(d)
        PROVE  \E c \in Clients :
                 pc'[c] \in Uploading \cup {"unlinked"} /\ fid'[c] = id
    BY <2>1, <2>3, <2>6 DEF DeleteUnlink
  <2>7. CASE CleanupTick \/ CleanupSweep \/ Tick \/ UNCHANGED vars
    BY <2>1, <2>3, <2>7 DEF CleanupTick, CleanupSweep, Tick, vars
  <2>8. QED
    BY <2>1, <2>2, <2>4, <2>5, <2>6, <2>7 DEF Next, Call
<1>3. QED
  BY <1>1, <1>2, Invariance, PTL DEF Spec

-----------------------------------------------------------------------------
(* The store implements the store with a TTL *)

\* What a call stamped expires in time.
StampInv == \A c \in Clients : pc[c] = "stamped" => expiresAt[fid[c]] <= now + TTL

LEMMA StampInvariance == Spec => []StampInv
<1>1. Init => StampInv
  BY DEF Init, StampInv
<1>2. IInv /\ StampInv /\ [Next]_vars => StampInv'
  <2>1. SUFFICES ASSUME IInv, StampInv, [Next]_vars PROVE StampInv'
    OBVIOUS
  <2> USE DEF IInv, TypeOK, StampInv, Answer, Begin, Goto
  <2>2. ASSUME NEW d \in Clients, UploadStamp(d) PROVE StampInv'
    BY <2>1, <2>2, StoreAssumption
       DEF UploadStamp, OwnerInv, Claims, Uploading, UsedInv
  <2>3. ASSUME NEW d \in Clients, Call(d), ~UploadStamp(d) PROVE StampInv'
    BY <2>1, <2>3 DEF Call, UploadCreate, UploadAbort, UploadScan,
       UploadRegister, DeleteUnlink, DeleteRemove, DownloadGet, DownloadOpen
  <2>4. CASE Tick
    BY <2>1, <2>4, StoreAssumption DEF Tick, UsedInv
  <2>5. CASE CleanupTick \/ CleanupSweep \/ Restart \/ UNCHANGED vars
    BY <2>1, <2>5 DEF CleanupTick, CleanupSweep, Restart, vars
  <2>6. QED
    BY <2>1, <2>2, <2>3, <2>4, <2>5 DEF Next
<1>3. QED
  BY <1>1, <1>2, Invariance, PTL DEF Spec
\* An upload that may still register this ID is under way.
Pending(id) == \E c \in Clients : pc[c] \in Uploading /\ fid[c] = id

\* The expiry of an entry, and the IDs of the deletes in progress.
Expiry(id) == IF id \in index THEN expiresAt[id] ELSE 0
Deleting == {fid[c] : c \in {d \in Clients : pc[d] = "unlinked"}}

LEMMA LifeIs ==
  ASSUME NEW id
  PROVE  /\ Life(id) = "held" <=> id \in index
         /\ Life(id) = "over" <=> id \in used /\ id \notin index /\ ~Pending(id)
         /\ Life(id) = "fresh" <=>
              id \notin index /\ (id \notin used \/ Pending(id))
         /\ Life(id) \in {"held", "over", "fresh"}
BY DEF Life, Pending

\* What a step shows of the store: which IDs it ends, and which it puts.
LEMMA StoreStutters ==
  ASSUME IInv, IInv', UNCHANGED now, UNCHANGED index, UNCHANGED Deleting,
         \A id \in index : expiresAt'[id] = expiresAt[id],
         \A id \in IDs \ index :
           (id \in used /\ ~Pending(id)) <=> (id \in used' /\ ~Pending(id)')
  PROVE  UNCHANGED Store!vars
<1>1. \A id \in IDs : Life(id)' = Life(id)
  BY DEF Life, Pending
<1>2. \A id \in IDs : Expiry(id)' = Expiry(id)
  BY DEF Expiry
<1>3. QED
  BY <1>1, <1>2 DEF Store!vars, Expiry, Deleting

\* A step that takes no entry but those that end, and starts none.
LEMMA StoreEnds ==
  ASSUME NEW ended \in SUBSET IDs,
         \A id \in ended : id \notin index' /\ id \in used' /\ ~Pending(id)',
         \A id \in IDs \ ended : id \in index <=> id \in index',
         \A id \in index' : expiresAt'[id] = expiresAt[id],
         \A id \in IDs \ ended :
           id \in index \/ (id \in used /\ ~Pending(id)
                              <=> id \in used' /\ ~Pending(id)')
  PROVE  Store!End(ended)
<1>1. ASSUME NEW id \in IDs
      PROVE  /\ Life(id)' = IF id \in ended THEN "over" ELSE Life(id)
             /\ Expiry(id)' = IF id \in ended THEN 0 ELSE Expiry(id)
  BY <1>1 DEF Life, Pending, Expiry
<1>2. QED
  BY <1>1 DEF Store!End, Expiry
LEMMA CreateStutters ==
  ASSUME IInv, IInv', NEW c \in Clients,
         UploadCreate(c) \/ UploadStamp(c) \/ DownloadGet(c) \/ DownloadOpen(c)
  PROVE  UNCHANGED Store!vars
<1> USE DEF IInv, TypeOK, UsedInv, Answer, Begin, Goto
<1>1. CASE UploadCreate(c)
  <2>1. Deleting' = Deleting
    BY <1>1 DEF UploadCreate, Deleting
  <2>2. \A id \in IDs \ index :
          (id \in used /\ ~Pending(id)) <=> (id \in used' /\ ~Pending(id)')
    BY <1>1 DEF UploadCreate, Pending, Uploading, Fresh
  <2>3. QED
    BY <1>1, <2>1, <2>2, StoreStutters DEF UploadCreate
<1>2. CASE UploadStamp(c)
  <2>1. Deleting' = Deleting
    BY <1>2 DEF UploadStamp, Deleting
  <2>2. \A id \in IDs : Pending(id)' <=> Pending(id)
    BY <1>2 DEF UploadStamp, Pending, Uploading
  <2>3. \A id \in index : expiresAt'[id] = expiresAt[id]
    BY <1>2 DEF UploadStamp, OwnerInv, Uploading
  <2>4. QED
    BY <1>2, <2>1, <2>2, <2>3, StoreStutters DEF UploadStamp
<1>3. CASE DownloadGet(c) \/ DownloadOpen(c)
  <2>1. Deleting' = Deleting
    BY <1>3 DEF DownloadGet, DownloadOpen, Deleting
  <2>2. \A id \in IDs : Pending(id)' <=> Pending(id)
    BY <1>3 DEF DownloadGet, DownloadOpen, Pending, Uploading
  <2>3. QED
    BY <1>3, <2>1, <2>2, StoreStutters DEF DownloadGet, DownloadOpen
<1>4. QED
  BY <1>1, <1>2, <1>3

\* An upload that the copy or the scanner ends refuses its ID, one that the
\* scanner lets through changes nothing.
LEMMA RefuseStep ==
  ASSUME IInv, IInv', NEW c \in Clients, UploadAbort(c) \/ UploadScan(c)
  PROVE  (\E k \in IDs : Store!Refuse(k)) \/ UNCHANGED Store!vars
<1> USE DEF IInv, TypeOK, UsedInv, Answer, Goto
<1>1. /\ pc[c] = "created" /\ fid[c] \in IDs /\ fid[c] \in used
      /\ UNCHANGED <<now, index, expiresAt, fid, used>>
      /\ pc' = [pc EXCEPT ![c] = "idle"] \/ pc' = [pc EXCEPT ![c] = "vetted"]
  BY DEF UploadAbort, UploadScan
<1>2. Deleting' = Deleting
  BY <1>1 DEF Deleting
<1>3. CASE pc' = [pc EXCEPT ![c] = "vetted"]
  <2>1. \A id \in IDs : Pending(id)' <=> Pending(id)
    BY <1>1, <1>3 DEF Pending, Uploading
  <2>2. QED
    BY <1>1, <1>2, <2>1, StoreStutters
<1>4. CASE pc' = [pc EXCEPT ![c] = "idle"]
  <2>1. fid[c] \notin index /\ Pending(fid[c])
    BY <1>1 DEF OwnerInv, Pending, Uploading
  <2>2. ~Pending(fid[c])'
    BY <1>1, <1>4 DEF OwnerInv, Claims, Pending, Uploading
  <2>3. \A id \in IDs \ {fid[c]} : Pending(id)' <=> Pending(id)
    BY <1>1, <1>4 DEF Pending, Uploading
  <2>4. PICK k \in IDs : k = fid[c]
    BY <1>1
  <2>5. Store!End({k})
    <3>1. {k} \in SUBSET IDs
      OBVIOUS
    <3> HIDE DEF IInv, TypeOK, UsedInv
    <3>2. QED
      BY <1>1, <2>1, <2>2, <2>3, <2>4, <3>1, StoreEnds
  <2>6. Life(k) = "fresh"
    BY <2>1, <2>4, LifeIs
  <2>7. Store!Refuse(k)
    BY <1>1, <1>2, <2>5, <2>6 DEF Store!Refuse, Deleting
  <2>8. QED
    BY <2>7
<1>5. QED
  BY <1>1, <1>3, <1>4

LEMMA PutStep ==
  ASSUME IInv, StampInv, NEW c \in Clients, UploadRegister(c)
  PROVE  \E k \in IDs : Store!Put(k)
<1> USE DEF IInv, TypeOK, UsedInv, Answer, UploadRegister
<1>1. PICK k \in IDs : k = fid[c]
  OBVIOUS
<1>2. k \in used /\ k \notin index /\ Pending(k)
  BY <1>1 DEF OwnerInv, Pending, Uploading
<1>3. Deleting' = Deleting
  BY DEF Deleting
<1>4. \A id \in IDs \ {k} : Pending(id)' <=> Pending(id)
  BY <1>1 DEF Pending, Uploading
<1>5. \A id \in IDs : Life(id)' = IF id = k THEN "held" ELSE Life(id)
  BY <1>1, <1>2, <1>4 DEF Life, Pending
<1>6. \A id \in IDs : Expiry(id)' = IF id = k THEN expiresAt[k] ELSE Expiry(id)
  BY <1>1, <1>2 DEF Expiry
<1>7. expiresAt[k] \in 0 .. now + TTL
  BY <1>1, <1>2, StoreAssumption DEF StampInv
<1>8. Life(k) = "fresh"
  BY <1>2, LifeIs
<1>9. UNCHANGED now
  OBVIOUS
<1> HIDE DEF IInv, TypeOK, UsedInv, Answer, UploadRegister
<1>10. Store!Put(k)
  BY <1>3, <1>5, <1>6, <1>7, <1>8, <1>9 DEF Store!Put, Deleting, Expiry
<1>11. QED
  BY <1>10

LEMMA DeleteStep ==
  ASSUME IInv, IInv', NEW c \in Clients, DeleteUnlink(c)
  PROVE  (\E id \in IDs : Store!Delete(id)) \/ UNCHANGED Store!vars
<1> USE DEF IInv, TypeOK, UsedInv, Answer, Begin
<1>1. PICK id \in used :
        /\ fid' = [fid EXCEPT ![c] = id]
        /\ \/ /\ id \notin index
              /\ pc' = [pc EXCEPT ![c] = "idle"]
              /\ UNCHANGED index
           \/ /\ id \in index
              /\ index' = index \ {id}
              /\ pc' = [pc EXCEPT ![c] = "unlinked"]
  BY DEF DeleteUnlink
<1>2. id \in IDs /\ pc[c] = "idle" /\ UNCHANGED <<now, expiresAt, used>>
  BY DEF DeleteUnlink
<1>3. \A i \in IDs : Pending(i)' <=> Pending(i)
  BY <1>1, <1>2 DEF Pending, Uploading
<1>4. CASE id \notin index
  <2>1. Deleting' = Deleting
    BY <1>1, <1>2, <1>4 DEF Deleting
  <2>2. QED
    BY <1>1, <1>2, <1>3, <1>4, <2>1, StoreStutters
<1>5. CASE id \in index
  <2>1. Deleting' = Deleting \cup {id}
    BY <1>1, <1>2, <1>5 DEF Deleting
  <2>2. ~Pending(id)
    BY <1>5 DEF OwnerInv, Pending
  <2>3. Store!End({id})
    <3>1. {id} \in SUBSET IDs
      BY <1>2
    <3>2. QED
      BY <1>1, <1>2, <1>3, <1>5, <2>2, <3>1, StoreEnds
  <2>4. Life(id) = "held"
    BY <1>5, LifeIs
  <2> HIDE DEF IInv, TypeOK, UsedInv, Answer, Begin
  <2>5. Store!Delete(id)
    BY <1>2, <2>1, <2>3, <2>4 DEF Store!Delete, Store!End, Deleting
  <2>6. QED
    BY <1>2, <2>5
<1>6. QED
  BY <1>4, <1>5

\* The delete is over, unless another one that named the ID is not.
LEMMA DeletedStep ==
  ASSUME IInv, IInv', NEW c \in Clients, DeleteRemove(c)
  PROVE  (\E k \in IDs : Store!Deleted(k)) \/ UNCHANGED Store!vars
<1> USE DEF IInv, TypeOK, UsedInv, Answer, DeleteRemove
<1>1. /\ pc[c] = "unlinked" /\ pc' = [pc EXCEPT ![c] = "idle"]
      /\ UNCHANGED <<now, index, expiresAt, fid, used>>
  OBVIOUS
<1>2. \A id \in IDs : Pending(id)' <=> Pending(id)
  BY <1>1 DEF Pending, Uploading
<1>3. \A id \in IDs : Life(id)' = Life(id) /\ Expiry(id)' = Expiry(id)
  BY <1>1, <1>2 DEF Life, Expiry, Pending
<1>4. CASE \E d \in Clients \ {c} : pc[d] = "unlinked" /\ fid[d] = fid[c]
  <2>1. Deleting' = Deleting
    BY <1>1, <1>4 DEF Deleting
  <2>2. QED
    BY <1>1, <1>2, <2>1, StoreStutters
<1>5. CASE ~\E d \in Clients \ {c} : pc[d] = "unlinked" /\ fid[d] = fid[c]
  <2>1. PICK k \in IDs : k = fid[c]
    BY <1>1
  <2>2. Deleting' = Deleting \ {k}
    BY <1>1, <1>5, <2>1 DEF Deleting
  <2>3. Store!Deleted(k)
    BY <1>1, <1>3, <2>2 DEF Store!Deleted, Expiry, Deleting
  <2>4. QED
    BY <2>3
<1>6. QED
  BY <1>4, <1>5

LEMMA ExpireStep ==
  ASSUME IInv, IInv', CleanupSweep
  PROVE  \E keys \in SUBSET IDs : Store!Expire(keys)
<1>1. PICK keys \in SUBSET IDs : keys = Expired
  BY DEF Expired, IInv, TypeOK
<1>2. keys \subseteq index /\ index' = index \ keys
  BY <1>1 DEF Expired, CleanupSweep
<1>3. UNCHANGED <<now, used, expiresAt, pc, fid>>
  BY DEF CleanupSweep
<1>4. \A id \in IDs : Pending(id)' <=> Pending(id)
  BY <1>3 DEF Pending
<1>5. Deleting' = Deleting
  BY <1>3 DEF Deleting
<1>6. \A id \in index : ~Pending(id) /\ id \in used
  BY DEF OwnerInv, Pending, IInv, UsedInv
<1>7. Store!End(keys)
  BY <1>1, <1>2, <1>3, <1>4, <1>6, StoreEnds
<1>8. \A k \in keys : Life(k) = "held" /\ now > Expiry(k)
  BY <1>1, <1>2, LifeIs, StoreAssumption
     DEF Expired, Expiry, CutoffInv, Idle, IInv, TypeOK
<1>9. Store!Expire(keys)
  BY <1>3, <1>5, <1>7, <1>8 DEF Store!Expire, Deleting, Expiry
<1>10. QED
  BY <1>9

LEMMA RestartLoses ==
  ASSUME IInv, Restart
  PROVE  \E keys \in SUBSET IDs : Store!Restart(keys)
<1>1. PICK keys \in SUBSET IDs : keys = used
  BY DEF IInv, TypeOK
<1>2. /\ UNCHANGED <<now, used, expiresAt>>
      /\ index' = {} /\ \A c \in Clients : pc'[c] = "idle"
  BY DEF Restart
<1>3. \A id \in IDs : ~Pending(id)'
  BY <1>2 DEF Pending, Uploading
<1>4. Deleting' = {}
  BY <1>2 DEF Deleting
<1>5. \A id \in IDs : id \in index => id \in keys
  BY <1>1 DEF IInv, UsedInv
<1>6. Store!End(keys)
  BY <1>1, <1>2, <1>3, <1>5, StoreEnds
<1>7. Store!Restart(keys)
  BY <1>2, <1>4, <1>6 DEF Store!Restart, Deleting
<1>8. QED
  BY <1>7

LEMMA ClockStep ==
  ASSUME IInv, IInv', Tick \/ CleanupTick
  PROVE  Store!Tick \/ UNCHANGED Store!vars
<1>1. /\ UNCHANGED <<index, expiresAt, pc, fid, used>>
      /\ now' = now + 1 \/ CleanupTick
  BY DEF Tick, CleanupTick
<1>2. /\ Deleting' = Deleting
      /\ \A id \in IDs : Pending(id)' <=> Pending(id)
  BY <1>1 DEF Deleting, Pending
<1>3. CASE CleanupTick
  BY <1>1, <1>2, <1>3, StoreStutters DEF CleanupTick
<1>4. CASE now' = now + 1
  <2>1. \A id \in IDs : Life(id)' = Life(id) /\ Expiry(id)' = Expiry(id)
    BY <1>1 DEF Life, Expiry
  <2>2. QED
    BY <1>2, <1>4, <2>1 DEF Store!Tick, Expiry, Deleting
<1>5. QED
  BY <1>1, <1>3, <1>4

LEMMA StepRefines ==
  ASSUME IInv, IInv', StampInv, [Next]_vars
  PROVE  [Store!Next]_Store!vars
<1>1. ASSUME NEW c \in Clients, Call(c) PROVE [Store!Next]_Store!vars
  BY <1>1, CreateStutters, RefuseStep, PutStep, DeleteStep, DeletedStep
     DEF Call, Store!Next
<1>2. CASE CleanupSweep
  BY <1>2, ExpireStep DEF Store!Next
<1>3. CASE Restart
  BY <1>3, RestartLoses DEF Store!Next
<1>4. CASE Tick \/ CleanupTick
  BY <1>4, ClockStep DEF Store!Next
<1>5. CASE UNCHANGED vars
  <2>1. /\ Deleting' = Deleting
        /\ \A id \in IDs : Pending(id)' <=> Pending(id)
    BY <1>5 DEF vars, Deleting, Pending
  <2>2. QED
    BY <1>5, <2>1, StoreStutters DEF vars
<1>6. QED
  BY <1>1, <1>2, <1>3, <1>4, <1>5 DEF Next

\* The upload store implements the store with a TTL: what is registered is
\* registered once, is resolved until it expires, a delete names it or the
\* process dies, and never comes back.
THEOREM ImplementsTTLStore == Spec => StoreSpec
<1>1. Init => Store!Init
  BY DEF Init, Store!Init, Life
<1>2. IInv /\ IInv' /\ StampInv /\ [Next]_vars => [Store!Next]_Store!vars
  BY StepRefines
<1>3. QED
  BY <1>1, <1>2, Invariance, StampInvariance, PTL
     DEF Spec, StoreSpec, Store!Spec

-----------------------------------------------------------------------------
(* What clients have from the abstract store *)

Promise == INSTANCE TTLStoreProofs WITH
  Keys     <- IDs,
  Volatile <- TRUE,
  Faulty   <- FALSE,
  life     <- [id \in IDs |-> Life(id)],
  expires  <- [id \in IDs |-> IF id \in index THEN expiresAt[id] ELSE 0],
  deleting <- {fid[c] : c \in {d \in Clients : pc[d] = "unlinked"}}

\* The two instances of the abstract store are one.
LEMMA StoreIsPromise == StoreSpec => Promise!Spec
<1>1. Store!Init => Promise!Init
  BY DEF Store!Init, Promise!Init
<1>2. Store!Next => Promise!Next
  BY DEF Store!Next, Store!Put, Store!Refuse, Store!Delete, Store!Deleted,
         Store!Expire, Store!Restart, Store!Tick, Store!End,
         Promise!Next, Promise!Put, Promise!Refuse, Promise!Delete,
         Promise!Deleted, Promise!Expire, Promise!Restart, Promise!Tick,
         Promise!End
<1>3. [Store!Next]_Store!vars => [Promise!Next]_Promise!vars
  BY <1>2 DEF Store!vars, Promise!vars
<1>4. QED
  BY <1>1, <1>3, PTL DEF StoreSpec, Store!Spec, Promise!Spec

\* An ID whose upload was refused, or that was deleted or has expired, is never
\* in the index again, under no interleaving and after no restart; as long as
\* it is in the index its expiry is the one its upload got, at most TTL ahead
\* (filestore.go:83-144, 187-202, 238-259).
UploadsEndOnce ==
  [][\A id \in IDs :
       /\ Life(id) = "over" => Life(id)' = "over"
       /\ id \in index => \/ id \in index' /\ expiresAt'[id] = expiresAt[id]
                          \/ Life(id)' = "over"]_vars
ExpiryNear == \A id \in index : expiresAt[id] \in 0 .. now + TTL

\* What is over stays over.
THEOREM UploadsNeverReturn == Spec => UploadsEndOnce
<1> DEFINE Once(id) ==
      /\ Life(id) = "over" => Life(id)' = "over"
      /\ id \in index => \/ id \in index' /\ expiresAt'[id] = expiresAt[id]
                         \/ Life(id)' = "over"
<1>1. ASSUME NEW id \in IDs,
             Life(id)' = Life(id), Expiry(id)' = Expiry(id)
      PROVE  Once(id)
  BY <1>1, LifeIs DEF Expiry, Life
<1>2. ASSUME NEW id \in IDs, Promise!KeyKept(id)
      PROVE  Once(id)
  BY <1>2 DEF Promise!KeyKept, Life
<1>3. ASSUME [\A k \in IDs : Promise!KeyKept(k)]_Promise!vars
      PROVE  \A id \in IDs : Once(id)
  <2>1. CASE UNCHANGED Promise!vars
    <3>1. \A id \in IDs : Life(id)' = Life(id) /\ Expiry(id)' = Expiry(id)
      BY <2>1 DEF Promise!vars, Expiry
    <3>2. QED
      BY <1>1, <3>1
  <2>2. QED
    BY <1>2, <1>3, <2>1
<1>4. TTL \in Nat
  BY StoreAssumption
<1>5. Promise!Spec => Promise!KeptAsPromised
  BY <1>4, Promise!PromiseKept
<1>6. QED
  BY <1>3, <1>5, StoreIsPromise, ImplementsTTLStore, PTL
     DEF Promise!KeptAsPromised, UploadsEndOnce

\* No upload is there for longer than TTL.
THEOREM UploadsExpireInTime == Spec => []ExpiryNear
<1>1. TTL \in Nat
  BY StoreAssumption
<1>2. TypeOK /\ Promise!ExpiryBounded => ExpiryNear
  BY DEF TypeOK, Promise!ExpiryBounded, ExpiryNear, Life
<1>3. Promise!Spec => []Promise!ExpiryBounded
  BY <1>1, Promise!HeldForTTL
<1>4. QED
  BY <1>2, <1>3, StoreIsPromise, ImplementsTTLStore, TypeCorrect, PTL
=============================================================================
