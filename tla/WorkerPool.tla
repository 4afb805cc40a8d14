------------------------------ MODULE WorkerPool ------------------------------
(***************************************************************************)
(* The worker pool of workerpool/pool.go.                                  *)
(*                                                                         *)
(* Two pieces of state describe how busy the pool is and they are not      *)
(* updated together: the buffered channel sem, whose length decides who    *)
(* gets a slot, and the counters under the mutex mu, which Stats and       *)
(* IsFull read.  A caller sends to (or receives from) sem in one step and  *)
(* updates the counters in a later one; anything may happen in between.    *)
(*                                                                         *)
(* sem is a channel of empty structs, so its length is all there is to it. *)
(* A sender that finds the channel full is parked; the Go runtime parks    *)
(* senders in order of arrival, and a receive from a full channel refills  *)
(* the freed place with the first parked sender's value in the same step.  *)
(* ahead[c] is the set of callers that were parked before c and still are. *)
(***************************************************************************)
EXTENDS Integers, FiniteSets

CONSTANTS Callers,         \* goroutines that run a tool handler
          MaxWorkers,      \* capacity of sem
          ProcessedBound   \* bound: totalProcessed stays here once it is reached

ASSUME PoolAssumption ==
  /\ IsFiniteSet(Callers)
  /\ MaxWorkers \in Nat \ {0}       \* config.Validate refuses less than 1
  /\ ProcessedBound \in Nat

VARIABLES pc,              \* where each caller is
          ahead,           \* parked callers before each parked caller
          sem,             \* length of the channel
          activeCount,     \* counter under mu
          totalProcessed   \* counter under mu

vars == <<pc, ahead, sem, activeCount, totalProcessed>>

\* idle     outside the pool
\* parked   in the select of Acquire, the channel being full
\* sent     past the send, before activeCount++
\* working  Acquire or TryAcquire returned success, Release not called
\* received past the receive of Release, before activeCount--
PC == {"idle", "parked", "sent", "working", "received"}

Parked  == {c \in Callers : pc[c] = "parked"}
Holders == {c \in Callers : pc[c] \in {"sent", "working"}}
Counted == {c \in Callers : pc[c] \in {"working", "received"}}

TypeOK ==
  /\ pc \in [Callers -> PC]
  /\ ahead \in [Callers -> SUBSET Callers]
  /\ sem \in 0 .. MaxWorkers
  /\ activeCount \in Int
  /\ totalProcessed \in 0 .. ProcessedBound

Init ==
  /\ pc = [c \in Callers |-> "idle"]
  /\ ahead = [c \in Callers |-> {}]
  /\ sem = 0
  /\ activeCount = 0
  /\ totalProcessed = 0

-----------------------------------------------------------------------------
(* What IsFull computes from the counter. *)

IsFull == activeCount >= MaxWorkers

-----------------------------------------------------------------------------
\* Mutant of SlotFree: an off-by-one on the capacity.
SlotFreeOffByOne == sem <= MaxWorkers
SlotFree == sem < MaxWorkers

\* The parked sender the runtime serves next.  Mutant: any of them.
AnyParked(w) == w \in Parked
FirstParked(w) == w \in Parked /\ ahead[w] = {}

\* The order of the parked senders without w.
Unparked(w) == [c \in Callers |-> IF c = w THEN {} ELSE ahead[c] \ {w}]

-----------------------------------------------------------------------------
(* Acquire and TryAcquire *)

\* Mutant of TakeSlot: the caller goes on without a token in the channel.
TakeSlotNoToken(c) ==
  /\ pc[c] = "idle"
  /\ SlotFree
  /\ pc' = [pc EXCEPT ![c] = "sent"]
  /\ UNCHANGED <<ahead, sem, activeCount, totalProcessed>>

TakeSlot(c) ==
  /\ pc[c] = "idle"
  /\ SlotFree
  /\ sem' = sem + 1
  /\ pc' = [pc EXCEPT ![c] = "sent"]
  /\ UNCHANGED <<ahead, activeCount, totalProcessed>>

\* The select of Acquire with a place in the channel.
AcquireNow(c) == TakeSlot(c)

\* The select of Acquire on a full channel: the caller is parked.
AcquirePark(c) ==
  /\ pc[c] = "idle"
  /\ ~SlotFree
  /\ pc' = [pc EXCEPT ![c] = "parked"]
  /\ ahead' = [ahead EXCEPT ![c] = Parked]
  /\ UNCHANGED <<sem, activeCount, totalProcessed>>

\* timeoutCtx is done first: the deadline passed (ErrPoolExhausted) or the
\* request was cancelled.  Both end the call without a slot.
AcquireGiveUp(c) ==
  /\ pc[c] = "parked"
  /\ pc' = [pc EXCEPT ![c] = "idle"]
  /\ ahead' = Unparked(c)
  /\ UNCHANGED <<sem, activeCount, totalProcessed>>

\* TryAcquire with a place in the channel; without one it changes nothing.
TryAcquire(c) == TakeSlot(c)

\* mu.Lock(); activeCount++; mu.Unlock()
CountAcquired(c) ==
  /\ pc[c] = "sent"
  /\ pc' = [pc EXCEPT ![c] = "working"]
  /\ activeCount' = activeCount + 1
  /\ UNCHANGED <<ahead, sem, totalProcessed>>

-----------------------------------------------------------------------------
(* Release *)

\* The receive.  With senders parked the runtime moves the first one's value
\* into the place the receive frees, so the channel stays full.
\* Mutant: the parked sender is not woken.
ReceiveNoWake(c) ==
  /\ sem' = sem - 1
  /\ pc' = [pc EXCEPT ![c] = "received"]
  /\ UNCHANGED ahead

Receive(c) ==
  \/ /\ Parked = {}
     /\ sem' = sem - 1
     /\ pc' = [pc EXCEPT ![c] = "received"]
     /\ UNCHANGED ahead
  \/ \E w \in Callers :
        /\ FirstParked(w)
        /\ pc' = [pc EXCEPT ![c] = "received", ![w] = "sent"]
        /\ ahead' = Unparked(w)
        /\ UNCHANGED sem

\* The default branch of the select ("Pool was not acquired, ignore") needs
\* sem = 0: ReleaseFindsToken says that no caller of the tools layer, which
\* defers Release only after a successful Acquire, ever takes it.
Release(c) ==
  /\ pc[c] = "working"
  /\ sem > 0
  /\ Receive(c)
  /\ UNCHANGED <<activeCount, totalProcessed>>

\* A counter that nothing decides by, up to its bound.
OneMore(count) == IF count < ProcessedBound THEN count + 1 ELSE count

\* mu.Lock(); activeCount--; totalProcessed++; mu.Unlock()
\* Mutant: the counter of active workers is forgotten.
CountReleasedTotalOnly(c) ==
  /\ pc[c] = "received"
  /\ pc' = [pc EXCEPT ![c] = "idle"]
  /\ totalProcessed' = OneMore(totalProcessed)
  /\ UNCHANGED <<ahead, sem, activeCount>>

CountReleased(c) ==
  /\ pc[c] = "received"
  /\ pc' = [pc EXCEPT ![c] = "idle"]
  /\ activeCount' = activeCount - 1
  /\ totalProcessed' = OneMore(totalProcessed)
  /\ UNCHANGED <<ahead, sem>>

-----------------------------------------------------------------------------
Next ==
  \E c \in Callers :
    \/ AcquireNow(c)
    \/ AcquirePark(c)
    \/ AcquireGiveUp(c)
    \/ TryAcquire(c)
    \/ CountAcquired(c)
    \/ Release(c)
    \/ CountReleased(c)

Spec == Init /\ [][Next]_vars

\* A caller past the channel operation goes on to the counters, and the
\* handler of a caller that works returns and runs its deferred Release.  The
\* acquire timeout is not assumed to fire: a waiter must not depend on it.
Fairness ==
  \A c \in Callers :
    WF_vars(CountAcquired(c)) /\ WF_vars(Release(c)) /\ WF_vars(CountReleased(c))

FairSpec == Spec /\ Fairness

-----------------------------------------------------------------------------
(* Properties *)

\* The channel's length is the number of callers that hold a slot, at every
\* interleaving of sends, receives and hand-overs, so no more than MaxWorkers
\* tools run at once (pool.go:16-27, the semaphore).
SlotsAreHeld ==
  /\ sem = Cardinality(Holders)
  /\ Cardinality(Holders) <= MaxWorkers

\* Stats and IsFull read counters that lag behind the channel by exactly the
\* callers between a channel operation and its counter update; in a state
\* without such callers they are exact (pool.go:46-49, 62-66).
CountersReconcile ==
  activeCount + Cardinality({c \in Callers : pc[c] = "sent"})
    = sem + Cardinality({c \in Callers : pc[c] = "received"})

\* No slot stays free while a caller is parked in Acquire (pool.go:45-46).
WorkConserving == Parked # {} => sem = MaxWorkers

\* A caller that was given a slot always finds a token to take back, so the
\* default branch of Release, which would leak the count, is dead for paired
\* calls; and if anyone is parked there is one to hand the slot over to, so
\* that a Release never has to wait (pool.go:61-70).
ReleaseFindsToken ==
  \A c \in Callers : pc[c] = "working" =>
    sem > 0 /\ (Parked # {} => \E w \in Callers : FirstParked(w))

\* Slots go to callers in the order of their arrival: while one is parked in
\* Acquire, nobody gets a slot but those parked before it, neither a later
\* Acquire nor a TryAcquire that comes by as a slot is given back, and nobody
\* gets in front of it (pool.go:40-49, 61-70, 76-85).
FirstComeFirstServed ==
  [][\A c \in Callers :
       pc[c] = "parked" /\ pc'[c] = "parked" =>
         /\ \A d \in Callers :
              pc[d] # "sent" /\ pc'[d] = "sent" => d \in ahead[c]
         /\ ahead'[c] \subseteq ahead[c]]_vars

\* A parked caller leaves the queue even if its timeout never fires, as long
\* as the holders return: later arrivals cannot starve it (pool.go:40-57).
WaiterServed == \A c \in Callers : pc[c] = "parked" ~> pc[c] # "parked"

\* IsFull says "full" with a slot free only while a release is half done: a
\* count that drifted would turn callers away for good (pool.go:106-111).
FullOrReleasing ==
  IsFull /\ SlotFree => \E c \in Callers : pc[c] = "received"

\* The pool implements the abstract semaphore: a slot is held from the send
\* to the receive, whatever the counters say.
Sem == INSTANCE Semaphore WITH holders <- Holders
SemaphoreSpec == Sem!Spec
=============================================================================
