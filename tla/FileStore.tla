------------------------------- MODULE FileStore -------------------------------
(***************************************************************************)
(* The upload store of storage/filestore.go, with the HTTP handlers of     *)
(* httpserver/server.go that call it and the scanner it calls.             *)
(*                                                                         *)
(* An upload lives in two places: a file in baseDir and an entry of the    *)
(* map files, under the mutex mu.  Upload writes and scans the file before *)
(* it takes the mutex, Delete drops the entry first and removes the file   *)
(* without the mutex, and the cleaner reads the clock before it waits for  *)
(* the mutex.  The map is memory only, baseDir is a persistent volume.     *)
(*                                                                         *)
(* A file and its ID are the same thing here: the path is the ID and a     *)
(* sanitized name, and an ID is 128 random bits, taken as never repeated.  *)
(***************************************************************************)
EXTENDS Integers, Scanner

CONSTANTS IDs,           \* upload IDs
          Clients,       \* HTTP requests in progress
          TTL,           \* UPLOAD_TTL, in ticks
          MaxTime,       \* bound: the clock stops here
          Faults,        \* whether a write or an os.Remove may fail
          MaxCrashes     \* bound on the number of restarts

ASSUME StoreAssumption ==
  /\ TTL \in Nat
  /\ MaxTime \in Nat
  /\ Faults \in BOOLEAN
  /\ MaxCrashes \in Nat

VARIABLES now,         \* the clock
          index,       \* IDs in the map files
          expiresAt,   \* FileInfo.ExpiresAt of each stamped ID
          disk,        \* IDs whose file is in baseDir
          pc,          \* where each request is
          fid,         \* the ID each request works on or answered about
          reply,       \* each request's last answer
          cutoff,      \* the cleaner: idle, or the time it read
          available,   \* Scanner.available
          used,        \* ghost: IDs that generateID returned
          runs,        \* ghost: exit statuses of the scanner runs on a file
          crashes      \* ghost: restarts so far

vars == <<now, index, expiresAt, disk, pc, fid, reply, cutoff, available,
          used, runs, crashes>>

\* idle      no call in progress
\* created   os.Create done, the body being copied
\* vetted    copied and let through by the scanner
\* stamped   ExpiresAt computed, mu not yet taken
\* unlinked  Delete has dropped the entry, os.Remove not called
\* found     a download has the path, os.Open not called
PC == {"idle", "created", "vetted", "stamped", "unlinked", "found"}

\* The answers of the handlers: 201, 422, 503, 500 to an upload or a download,
\* 200 to a delete, 200 to a download, 404.
Answers == {"created", "malware", "unavailable", "failed", "deleted",
            "served", "missing"}

\* The phases in which a call owns a file that is not in the index.
Uploading == {"created", "vetted", "stamped"}

\* The answers that say that a file is not to be had.
Gone == {"malware", "unavailable", "failed", "deleted"}

Idle == -1          \* of cutoff
None == "none"      \* of fid and reply

TypeOK ==
  /\ now \in 0 .. MaxTime
  /\ index \subseteq IDs
  /\ expiresAt \in [IDs -> Nat]
  /\ disk \subseteq IDs
  /\ pc \in [Clients -> PC]
  /\ fid \in [Clients -> IDs \cup {None}]
  /\ reply \in [Clients -> Answers \cup {None}]
  /\ cutoff \in Idle .. MaxTime
  /\ available \in BOOLEAN
  /\ used \subseteq IDs
  /\ runs \in [IDs -> SUBSET ExitStatus]
  /\ crashes \in 0 .. MaxCrashes

Init ==
  /\ now = 0
  /\ index = {}
  /\ expiresAt = [id \in IDs |-> 0]
  /\ disk = {}
  /\ pc = [c \in Clients |-> "idle"]
  /\ fid = [c \in Clients |-> None]
  /\ reply = [c \in Clients |-> None]
  /\ cutoff = Idle
  /\ \E d, s \in BOOLEAN : available = CheckAvailability(d, s)
  /\ used = {}
  /\ runs = [id \in IDs |-> {}]
  /\ crashes = 0

-----------------------------------------------------------------------------
(* What readers see *)

\* Get, GetPath and so ResolveUploadURI and a download.  (List, by another
\* comparison, leaves out a file at the very instant it expires.)
Resolvable(id) == id \in index /\ ~(now > expiresAt[id])

-----------------------------------------------------------------------------
(* Helpers *)

\* An ID that generateID has not returned before.
Fresh(id) == id \notin used

\* os.Remove of a set of files: with Faults some of them may stay.
Remove(files) ==
  \E kept \in SUBSET files :
    /\ (kept # {} => Faults)
    /\ disk' = disk \ (files \ kept)

\* A call of client c returns with an answer.
Answer(c, answer) ==
  /\ pc' = [pc EXCEPT ![c] = "idle"]
  /\ reply' = [reply EXCEPT ![c] = answer]

\* A call of client c begins.
Begin(c, label) ==
  /\ pc' = [pc EXCEPT ![c] = label]
  /\ reply' = [reply EXCEPT ![c] = None]

\* Client c goes on to the next step of its call.
Goto(c, label) ==
  /\ pc' = [pc EXCEPT ![c] = label]
  /\ UNCHANGED reply

-----------------------------------------------------------------------------
(* Upload *)

\* generateID, os.Create.
UploadCreate(c) ==
  /\ pc[c] = "idle"
  /\ \E id \in IDs :
       /\ Fresh(id)
       /\ used' = used \cup {id}
       /\ disk' = disk \cup {id}
       /\ fid' = [fid EXCEPT ![c] = id]
  /\ Begin(c, "created")
  /\ UNCHANGED <<now, index, expiresAt, cutoff, available, runs, crashes>>

\* The copy fails or the body is larger than maxSize: the partial file goes.
\* Mutant: an oversized body gets a status of its own, unknown to callers.
UploadAbortTooLarge(c) ==
  /\ pc[c] = "created"
  /\ Remove({fid[c]})
  /\ Answer(c, "too_large")
  /\ UNCHANGED <<now, index, expiresAt, fid, cutoff, available, used, runs,
                 crashes>>

UploadAbort(c) ==
  /\ pc[c] = "created"
  /\ Remove({fid[c]})
  /\ Answer(c, "failed")
  /\ UNCHANGED <<now, index, expiresAt, fid, cutoff, available, used, runs,
                 crashes>>

\* The body is copied and the file scanned.  Mutant: a rejected file is left
\* where it is.
UploadScanKeepsFile(c) ==
  /\ pc[c] = "created"
  /\ \E daemon, standalone \in ExitStatus :
       LET result == Scan(available, daemon, standalone)
       IN  /\ runs' = [runs EXCEPT ![fid[c]] =
                         Runs(available, daemon, standalone)]
           /\ \/ result.error /\ Remove({fid[c]}) /\ Answer(c, "unavailable")
              \/ ~result.error /\ ~result.clean /\ Answer(c, "malware")
                 /\ UNCHANGED disk
              \/ ~result.error /\ result.clean /\ Goto(c, "vetted")
                 /\ UNCHANGED disk
  /\ UNCHANGED <<now, index, expiresAt, fid, cutoff, available, used, crashes>>

UploadScan(c) ==
  /\ pc[c] = "created"
  /\ \E daemon, standalone \in ExitStatus :
       LET result == Scan(available, daemon, standalone)
       IN  /\ runs' = [runs EXCEPT ![fid[c]] =
                         Runs(available, daemon, standalone)]
           /\ \/ /\ result.error
                 /\ Remove({fid[c]})
                 /\ Answer(c, "unavailable")
              \/ /\ ~result.error /\ ~result.clean
                 /\ Remove({fid[c]})
                 /\ Answer(c, "malware")
              \/ /\ ~result.error /\ result.clean
                 /\ Goto(c, "vetted")
                 /\ UNCHANGED disk
  /\ UNCHANGED <<now, index, expiresAt, fid, cutoff, available, used, crashes>>

\* now := time.Now(); ExpiresAt: now.Add(ttl)
UploadStamp(c) ==
  /\ pc[c] = "vetted"
  /\ expiresAt' = [expiresAt EXCEPT ![fid[c]] = now + TTL]
  /\ Goto(c, "stamped")
  /\ UNCHANGED <<now, index, disk, fid, cutoff, available, used, runs, crashes>>

\* mu.Lock(); files[id] = info; mu.Unlock()
UploadRegister(c) ==
  /\ pc[c] = "stamped"
  /\ index' = index \cup {fid[c]}
  /\ Answer(c, "created")
  /\ UNCHANGED <<now, expiresAt, disk, fid, cutoff, available, used, runs,
                 crashes>>

-----------------------------------------------------------------------------
(* Delete *)

\* Under mu: an unknown ID is answered at once, a known one is dropped,
\* expired or not.  Mutant: the file goes before the entry.
DeleteFileFirst(c) ==
  /\ pc[c] = "idle"
  /\ \E id \in index :
       /\ fid' = [fid EXCEPT ![c] = id]
       /\ disk' = disk \ {id}
       /\ Begin(c, "unlinked")
  /\ UNCHANGED <<now, index, expiresAt, cutoff, available, used, runs, crashes>>

DeleteUnlink(c) ==
  /\ pc[c] = "idle"
  /\ \E id \in used :
       /\ fid' = [fid EXCEPT ![c] = id]
       /\ \/ /\ id \notin index
             /\ Answer(c, "missing")
             /\ UNCHANGED index
          \/ /\ id \in index
             /\ index' = index \ {id}
             /\ Begin(c, "unlinked")
  /\ UNCHANGED <<now, expiresAt, disk, cutoff, available, used, runs, crashes>>

\* os.Remove without mu.  A file that is gone already counts as removed; any
\* other error is answered with 404, the entry being gone.
\* Mutant: every answer is success.
DeleteRemoveAlwaysOk(c) ==
  /\ pc[c] = "unlinked"
  /\ Remove({fid[c]})
  /\ Answer(c, "deleted")
  /\ UNCHANGED <<now, index, expiresAt, fid, cutoff, available, used, runs,
                 crashes>>

DeleteRemove(c) ==
  /\ pc[c] = "unlinked"
  /\ \/ /\ disk' = disk \ {fid[c]}
        /\ Answer(c, "deleted")
     \/ /\ Faults /\ fid[c] \in disk
        /\ UNCHANGED disk
        /\ Answer(c, "missing")
  /\ UNCHANGED <<now, index, expiresAt, fid, cutoff, available, used, runs,
                 crashes>>

-----------------------------------------------------------------------------
(* Download *)

\* Get.
DownloadGet(c) ==
  /\ pc[c] = "idle"
  /\ \E id \in used :
       /\ fid' = [fid EXCEPT ![c] = id]
       /\ \/ Resolvable(id) /\ Begin(c, "found")
          \/ ~Resolvable(id) /\ Answer(c, "missing")
  /\ UNCHANGED <<now, index, expiresAt, disk, cutoff, available, used, runs,
                 crashes>>

\* os.Open, later and without mu.  An open file can be read to its end.
DownloadOpen(c) ==
  /\ pc[c] = "found"
  /\ \/ fid[c] \in disk /\ Answer(c, "served")
     \/ fid[c] \notin disk /\ Answer(c, "failed")
  /\ UNCHANGED <<now, index, expiresAt, disk, fid, cutoff, available, used, runs,
                 crashes>>

-----------------------------------------------------------------------------
(* cleanupLoop *)

\* The ticker fires and cleanupExpired reads the clock.
CleanupTick ==
  /\ cutoff = Idle
  /\ cutoff' = now
  /\ UNCHANGED <<now, index, expiresAt, disk, pc, fid, reply, available, used,
                 runs, crashes>>

\* The IDs that are expired at the time the cleaner read.
\* Mutant: the comparison is inclusive.
ExpiredInclusive == {id \in index : cutoff >= expiresAt[id]}
Expired == {id \in index : cutoff > expiresAt[id]}

\* Under mu: entries first, then files, all in one critical section.
\* Mutant: the files stay.
CleanupSweepEntriesOnly ==
  /\ cutoff # Idle
  /\ index' = index \ Expired
  /\ cutoff' = Idle
  /\ UNCHANGED <<now, disk, expiresAt, pc, fid, reply, available, used, runs,
                 crashes>>

CleanupSweep ==
  /\ cutoff # Idle
  /\ index' = index \ Expired
  /\ Remove(Expired)
  /\ cutoff' = Idle
  /\ UNCHANGED <<now, expiresAt, pc, fid, reply, available, used, runs, crashes>>

-----------------------------------------------------------------------------
(* The environment *)

Tick ==
  /\ now < MaxTime
  /\ now' = now + 1
  /\ UNCHANGED <<index, expiresAt, disk, pc, fid, reply, cutoff, available,
                 used, runs, crashes>>

\* The process stops at any point, between any two steps, and is started
\* again: the map and every call in progress are lost, baseDir is not.
Restart ==
  /\ crashes < MaxCrashes
  /\ crashes' = crashes + 1
  /\ index' = {}
  /\ pc' = [c \in Clients |-> "idle"]
  /\ fid' = [c \in Clients |-> None]
  /\ reply' = [c \in Clients |-> None]
  /\ cutoff' = Idle
  /\ \E d, s \in BOOLEAN : available' = CheckAvailability(d, s)
  /\ UNCHANGED <<now, expiresAt, disk, used, runs>>

-----------------------------------------------------------------------------
Call(c) ==
  \/ UploadCreate(c)
  \/ UploadAbort(c)
  \/ UploadScan(c)
  \/ UploadStamp(c)
  \/ UploadRegister(c)
  \/ DeleteUnlink(c)
  \/ DeleteRemove(c)
  \/ DownloadGet(c)
  \/ DownloadOpen(c)

Next ==
  \/ \E c \in Clients : Call(c)
  \/ CleanupTick
  \/ CleanupSweep
  \/ Tick
  \/ Restart

Spec == Init /\ [][Next]_vars

\* Time passes, the ticker fires, the mutex is granted, and a Delete that
\* dropped an entry reaches its os.Remove.  No request need ever arrive.
Fairness ==
  /\ WF_vars(Tick)
  /\ WF_vars(CleanupTick)
  /\ WF_vars(CleanupSweep)
  /\ \A c \in Clients : WF_vars(DeleteRemove(c))

FairSpec == Spec /\ Fairness

-----------------------------------------------------------------------------
(* Properties *)

\* An entry always has its file: a reader that finds the ID under mu finds a
\* path that exists at that moment, whatever uploads, deletes and sweeps are
\* under way (filestore.go:115-141, 188-197, 241-258).
IndexedOnDisk == index \subseteq disk

\* What is served was scanned: with scanning on, a file of the index was let
\* through by a run of ClamAV and no run found it infected, except in
\* fail-open mode with no scanner at start-up (filestore.go:115-127).
Vetted(id) ==
  ScanEnabled /\ (available \/ ~FailOpen) =>
    /\ runs[id] \cap {"zero", "other"} # {}
    /\ "one" \notin runs[id]

VettedBeforeServed == \A id \in index : Vetted(id)

\* What callers were told is true and stays true: a refused or failed upload,
\* a deleted file and a file that a download could not open are in the index
\* no more; a deleted file is off the disk as well (server.go:95-120,
\* 153-166, 184-193).
AnswersAreTrue ==
  \A c \in Clients :
    /\ reply[c] \in Gone => fid[c] \notin index
    /\ reply[c] = "deleted" => fid[c] \notin disk

\* As long as removals succeed and the process lives, every file in baseDir
\* is in the index or in the hands of an upload or a delete that has yet to
\* register or remove it (filestore.go:96-143, 187-202).
NoOrphans ==
  ~Faults /\ crashes = 0 =>
    \A id \in disk \ index :
      \E c \in Clients : pc[c] \in Uploading \cup {"unlinked"} /\ fid[c] = id

\* A request that will not put its file in the index any more, or that has not
\* been made, leaves its ID where it is.
Life(id) ==
  IF id \in index THEN "held"
  ELSE IF /\ id \in used
          /\ \A c \in Clients : ~(pc[c] \in Uploading /\ fid[c] = id)
       THEN "over"
       ELSE "fresh"

\* The store keeps what a store with a TTL promises: an ID is registered once,
\* expires in time, and is dropped only when it has expired, by a delete that
\* named it, or by a restart; a refused, deleted or expired ID never comes back
\* (filestore.go:83-144, 187-202, 238-259).
Store == INSTANCE TTLStore WITH
  Keys     <- IDs,
  Volatile <- TRUE,
  Faulty   <- FALSE,
  life     <- [id \in IDs |-> Life(id)],
  expires  <- [id \in IDs |-> IF id \in index THEN expiresAt[id] ELSE 0],
  deleting <- {fid[c] : c \in {d \in Clients : pc[d] = "unlinked"}}

StoreSpec == Store!Spec

\* An ID that can be resolved goes on being so until it expires, a Delete
\* names it, or the process restarts: the cleaner, which compares with a time
\* it read before it had the mutex, never takes it (filestore.go:238-247).
SweepSparesLive ==
  [][\A id \in IDs :
       Resolvable(id) /\ id \notin index'
         => \/ crashes' # crashes
            \/ \E c \in Clients : pc'[c] = "unlinked" /\ fid'[c] = id]_vars

\* An upload that was accepted is off the disk some time after it expired,
\* with nobody asking for it (filestore.go:222-259).
ExpiredFileRemoved ==
  \A id \in IDs :
    (id \in index /\ expiresAt[id] < MaxTime) ~> id \notin disk

-----------------------------------------------------------------------------
(* What the documents say and the code does not do *)

\* clamav.go:165, 199: "Exit code 0 = clean, 1 = infected, 2 = error".
OnlyExitZeroIsClean ==
  ScanEnabled /\ ~FailOpen => \A id \in index : "zero" \in runs[id]

\* README.md:176: "Automatic expiration of uploads and outputs".
UploadsExpire == ExpiredFileRemoved
=============================================================================
