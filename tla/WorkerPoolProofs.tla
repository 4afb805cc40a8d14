--------------------------- MODULE WorkerPoolProofs ---------------------------
(***************************************************************************)
(* Proofs about WorkerPool, for every finite set of callers and every      *)
(* capacity.                                                               *)
(*                                                                         *)
(* The inductive invariant counts: the channel's length is the number of   *)
(* callers between a send and a receive, and activeCount the number        *)
(* between the two counter updates.  The two sets differ by exactly the    *)
(* callers caught between a channel operation and its counter update.      *)
(*                                                                         *)
(* A second inductive invariant says that the parked callers are queued:   *)
(* ahead is a strict total order on them.  Alone it gives the order of     *)
(* service, and with the finiteness of Callers a first one to serve.       *)
(***************************************************************************)
EXTENDS WorkerPool, FiniteSetTheorems, TLAPS

CountInv ==
  /\ sem = Cardinality(Holders)
  /\ activeCount = Cardinality(Counted)

IInv == TypeOK /\ CountInv /\ WorkConserving

\* Nobody is ahead of itself, any two parked callers are in some order, and
\* who is ahead of one ahead of c is ahead of c.
QueueInv ==
  \A c \in Parked :
    /\ ahead[c] \subseteq Parked \ {c}
    /\ \A d \in Parked : d # c => d \in ahead[c] \/ c \in ahead[d]
    /\ \A d \in ahead[c] : ahead[d] \subseteq ahead[c]

-----------------------------------------------------------------------------
\* Sets of callers are finite and their sizes are natural numbers.
LEMMA CallersFinite ==
  ASSUME NEW S \in SUBSET Callers
  PROVE  IsFiniteSet(S) /\ Cardinality(S) \in Nat
BY PoolAssumption, FS_Subset, FS_CardinalityType

\* One more caller in a set makes it one larger, one less one smaller.
LEMMA AddCaller ==
  ASSUME NEW S \in SUBSET Callers, NEW c \in Callers, c \notin S
  PROVE  Cardinality(S \cup {c}) = Cardinality(S) + 1
BY CallersFinite, FS_AddElement

LEMMA DropCaller ==
  ASSUME NEW S \in SUBSET Callers, NEW c \in S
  PROVE  Cardinality(S \ {c}) = Cardinality(S) - 1
BY CallersFinite, FS_RemoveElement

\* Exchanging a member for a non-member keeps the size (the hand-over).
LEMMA SwapCaller ==
  ASSUME NEW S \in SUBSET Callers, NEW c \in S, NEW w \in Callers, w \notin S
  PROVE  Cardinality((S \ {c}) \cup {w}) = Cardinality(S)
<1>1. Cardinality(S \ {c}) = Cardinality(S) - 1
  BY DropCaller
<1>2. Cardinality((S \ {c}) \cup {w}) = Cardinality(S \ {c}) + 1
  <2>1. S \ {c} \in SUBSET Callers /\ w \notin S \ {c}
    OBVIOUS
  <2>2. QED
    BY <2>1, AddCaller
<1>3. QED
  BY <1>1, <1>2, CallersFinite

\* The size of a union of two disjoint sets of callers.
LEMMA DisjointUnion ==
  ASSUME NEW S \in SUBSET Callers, NEW T \in SUBSET Callers, S \cap T = {}
  PROVE  Cardinality(S \cup T) = Cardinality(S) + Cardinality(T)
<1>1. /\ IsFiniteSet(S) /\ Cardinality(S) \in Nat
      /\ IsFiniteSet(T) /\ Cardinality(T) \in Nat
  BY CallersFinite
<1>2. Cardinality(S \cup T)
        = Cardinality(S) + Cardinality(T) - Cardinality(S \cap T)
  BY <1>1, FS_Union
<1>3. Cardinality(S \cap T) = 0
  BY FS_EmptySet
<1>4. QED
  BY <1>1, <1>2, <1>3

-----------------------------------------------------------------------------
(* What each action does to the two sets *)

\* Initially nobody holds a slot and nobody is counted.
LEMMA InitIInv == Init => IInv
<1>1. SUFFICES ASSUME Init PROVE IInv
  OBVIOUS
<1>2. Holders = {} /\ Counted = {} /\ Parked = {}
  BY <1>1 DEF Init, Holders, Counted, Parked
<1>3. TypeOK
  BY <1>1, PoolAssumption DEF Init, TypeOK, PC
<1>4. CountInv
  BY <1>1, <1>2, FS_EmptySet DEF Init, CountInv
<1>5. QED
  BY <1>2, <1>3, <1>4 DEF IInv, WorkConserving

\* A send into a free place: nobody can be parked, one more holder.
LEMMA TakeSlotStep ==
  ASSUME IInv, NEW c \in Callers, TakeSlot(c)
  PROVE  IInv' /\ c \notin Holders /\ Holders' = Holders \cup {c}
<1> USE DEF IInv, TakeSlot
<1>1. TypeOK'
  BY PoolAssumption DEF TypeOK, PC, SlotFree
<1>2. c \notin Holders /\ Holders' = Holders \cup {c} /\ Counted' = Counted
  BY DEF TypeOK, Holders, Counted
<1>3. Parked = {} /\ Parked' = {}
  BY PoolAssumption DEF TypeOK, WorkConserving, SlotFree, Parked
<1>4. CountInv'
  <2>1. Holders \in SUBSET Callers
    BY DEF Holders
  <2>2. Cardinality(Holders \cup {c}) = Cardinality(Holders) + 1
    BY <1>2, <2>1, AddCaller
  <2>3. QED
    BY <1>2, <2>2 DEF CountInv
<1>5. QED
  BY <1>1, <1>2, <1>3, <1>4 DEF WorkConserving

\* Parking needs a full channel and changes neither set.
LEMMA ParkStep ==
  ASSUME IInv, NEW c \in Callers, AcquirePark(c)
  PROVE  IInv' /\ Holders' = Holders
<1> USE DEF IInv, AcquirePark
<1>1. TypeOK'
  BY DEF TypeOK, PC, Parked
<1>2. Holders' = Holders /\ Counted' = Counted
  BY DEF TypeOK, Holders, Counted
<1>3. sem' = MaxWorkers
  BY PoolAssumption DEF TypeOK, SlotFree
<1>4. QED
  BY <1>1, <1>2, <1>3 DEF CountInv, WorkConserving

\* Giving up takes a caller out of the queue and changes neither set.
LEMMA GiveUpStep ==
  ASSUME IInv, NEW c \in Callers, AcquireGiveUp(c)
  PROVE  IInv' /\ Holders' = Holders
<1> USE DEF IInv, AcquireGiveUp
<1>1. TypeOK'
  BY DEF TypeOK, PC, Unparked
<1>2. Holders' = Holders /\ Counted' = Counted
  BY DEF TypeOK, Holders, Counted
<1>3. Parked # {}
  BY DEF Parked
<1>4. QED
  BY <1>1, <1>2, <1>3 DEF CountInv, WorkConserving

\* The counter update of an acquire: one more counted, the holders the same.
LEMMA CountAcquiredStep ==
  ASSUME IInv, NEW c \in Callers, CountAcquired(c)
  PROVE  IInv' /\ Holders' = Holders
<1> USE DEF IInv, CountAcquired
<1>1. TypeOK'
  BY DEF TypeOK, PC
<1>2. /\ Holders' = Holders
      /\ c \notin Counted /\ Counted' = Counted \cup {c}
      /\ Parked' = Parked
  BY DEF TypeOK, Holders, Counted, Parked
<1>3. CountInv'
  <2>1. Counted \in SUBSET Callers
    BY DEF Counted
  <2>2. Cardinality(Counted \cup {c}) = Cardinality(Counted) + 1
    BY <1>2, <2>1, AddCaller
  <2>3. QED
    BY <1>2, <2>2 DEF CountInv
<1>4. QED
  BY <1>1, <1>2, <1>3 DEF WorkConserving

\* The receive of a release, with or without a parked sender to serve.
LEMMA ReleaseStep ==
  ASSUME IInv, NEW c \in Callers, Release(c)
  PROVE  /\ IInv'
         /\ c \in Holders
         /\ \/ Holders' = Holders \ {c}
            \/ \E w \in Callers \ Holders :
                  Holders' = (Holders \ {c}) \cup {w}
<1> USE DEF IInv
<1>1. c \in Holders /\ Holders \in SUBSET Callers
  BY DEF Release, Holders
<1>2. CASE /\ Parked = {}
           /\ sem' = sem - 1
           /\ pc' = [pc EXCEPT ![c] = "received"]
           /\ UNCHANGED ahead
  <2>1. TypeOK'
    BY <1>2, PoolAssumption DEF Release, TypeOK, PC
  <2>2. Holders' = Holders \ {c} /\ Counted' = Counted /\ Parked' = {}
    BY <1>2 DEF Release, TypeOK, Holders, Counted, Parked
  <2>3. Cardinality(Holders \ {c}) = Cardinality(Holders) - 1
    BY <1>1, DropCaller
  <2>4. CountInv'
    BY <1>2, <2>2, <2>3 DEF Release, CountInv
  <2>5. QED
    BY <1>1, <2>1, <2>2, <2>4 DEF WorkConserving
<1>3. CASE \E w \in Callers :
              /\ FirstParked(w)
              /\ pc' = [pc EXCEPT ![c] = "received", ![w] = "sent"]
              /\ ahead' = Unparked(w)
              /\ UNCHANGED sem
  <2>1. PICK w \in Callers :
              /\ FirstParked(w)
              /\ pc' = [pc EXCEPT ![c] = "received", ![w] = "sent"]
              /\ ahead' = Unparked(w)
              /\ UNCHANGED sem
    BY <1>3
  <2>2. pc[w] = "parked" /\ pc[c] = "working" /\ Parked # {}
    BY <2>1 DEF FirstParked, Parked, Release
  <2>3. TypeOK'
    BY <2>1 DEF Release, TypeOK, PC, Unparked
  <2>4. /\ w \notin Holders
        /\ Holders' = (Holders \ {c}) \cup {w}
        /\ Counted' = Counted
    BY <2>1, <2>2 DEF TypeOK, Holders, Counted
  <2>5. Cardinality((Holders \ {c}) \cup {w}) = Cardinality(Holders)
    BY <1>1, <2>4, SwapCaller
  <2>6. CountInv'
    BY <2>1, <2>4, <2>5 DEF Release, CountInv
  <2>7. WorkConserving'
    BY <2>1, <2>2 DEF WorkConserving
  <2>8. QED
    BY <1>1, <2>3, <2>4, <2>6, <2>7
<1>4. QED
  BY <1>2, <1>3 DEF Release, Receive

\* The counter update of a release: one counted caller less.
LEMMA CountReleasedStep ==
  ASSUME IInv, NEW c \in Callers, CountReleased(c)
  PROVE  IInv' /\ Holders' = Holders
<1> USE DEF IInv, CountReleased
<1>1. TypeOK'
  BY PoolAssumption DEF TypeOK, PC, OneMore
<1>2. /\ Holders' = Holders
      /\ c \in Counted /\ Counted' = Counted \ {c}
      /\ Parked' = Parked
  BY DEF TypeOK, Holders, Counted, Parked
<1>3. CountInv'
  <2>1. Counted \in SUBSET Callers
    BY DEF Counted
  <2>2. Cardinality(Counted \ {c}) = Cardinality(Counted) - 1
    BY <1>2, <2>1, DropCaller
  <2>3. QED
    BY <1>2, <2>2 DEF CountInv
<1>4. QED
  BY <1>1, <1>2, <1>3 DEF WorkConserving

\* A step that changes nothing changes none of the derived sets.
LEMMA StutterStep ==
  ASSUME IInv, UNCHANGED vars
  PROVE  IInv' /\ Holders' = Holders
BY DEF vars, IInv, TypeOK, CountInv, WorkConserving, Holders, Counted, Parked
-----------------------------------------------------------------------------
\* The counting argument is inductive: every step of the pool keeps it.
THEOREM Inductive == IInv /\ [Next]_vars => IInv'
<1>1. SUFFICES ASSUME IInv, [Next]_vars PROVE IInv'
  OBVIOUS
<1>2. CASE UNCHANGED vars
  BY <1>1, <1>2, StutterStep
<1>3. ASSUME NEW c \in Callers,
             \/ AcquireNow(c) \/ AcquirePark(c) \/ AcquireGiveUp(c)
             \/ TryAcquire(c) \/ CountAcquired(c) \/ Release(c)
             \/ CountReleased(c)
      PROVE  IInv'
  <2>1. CASE AcquireNow(c)
    BY <1>1, <2>1, TakeSlotStep DEF AcquireNow
  <2>2. CASE AcquirePark(c)
    BY <1>1, <2>2, ParkStep
  <2>3. CASE AcquireGiveUp(c)
    BY <1>1, <2>3, GiveUpStep
  <2>4. CASE TryAcquire(c)
    BY <1>1, <2>4, TakeSlotStep DEF TryAcquire
  <2>5. CASE CountAcquired(c)
    BY <1>1, <2>5, CountAcquiredStep
  <2>6. CASE Release(c)
    BY <1>1, <2>6, ReleaseStep
  <2>7. CASE CountReleased(c)
    BY <1>1, <2>7, CountReleasedStep
  <2>8. QED
    BY <1>3, <2>1, <2>2, <2>3, <2>4, <2>5, <2>6, <2>7
<1>4. QED
  BY <1>1, <1>2, <1>3 DEF Next

\* The inductive invariant holds in every reachable state.
THEOREM Invariance == Spec => []IInv
BY InitIInv, Inductive, PTL DEF Spec

\* The state keeps its types: the channel never holds more than MaxWorkers.
THEOREM TypeCorrect == Spec => []TypeOK
<1>1. IInv => TypeOK
  BY DEF IInv
<1>2. QED
  BY <1>1, Invariance, PTL

\* At most MaxWorkers callers hold a slot, one for each token in the channel.
THEOREM SlotBound == Spec => []SlotsAreHeld
<1>1. IInv => SlotsAreHeld
  BY PoolAssumption DEF IInv, TypeOK, CountInv, SlotsAreHeld
<1>2. QED
  BY <1>1, Invariance, PTL

\* No slot is free while a caller waits for one.
THEOREM NoIdleSlot == Spec => []WorkConserving
<1>1. IInv => WorkConserving
  BY DEF IInv
<1>2. QED
  BY <1>1, Invariance, PTL

-----------------------------------------------------------------------------
(* The queue of parked callers *)

\* Taking one caller out of the queue, wherever it stands, leaves a queue.
LEMMA UnparkedStaysQueue ==
  ASSUME TypeOK, QueueInv, NEW w \in Parked,
         Parked' = Parked \ {w}, ahead' = Unparked(w)
  PROVE  QueueInv'
<1>1. SUFFICES ASSUME NEW c \in Parked'
               PROVE  /\ ahead'[c] \subseteq Parked' \ {c}
                      /\ \A d \in Parked' :
                            d # c => d \in ahead'[c] \/ c \in ahead'[d]
                      /\ \A d \in ahead'[c] : ahead'[d] \subseteq ahead'[c]
  BY DEF QueueInv
<1>2. Parked \subseteq Callers
  BY DEF Parked
<1>3. c \in Parked /\ c # w
  OBVIOUS
<1>4. \A d \in Parked \ {w} : ahead'[d] = ahead[d] \ {w}
  BY <1>2 DEF Unparked
<1>5. ahead'[c] \subseteq Parked' \ {c}
  BY <1>3, <1>4 DEF QueueInv
<1>6. \A d \in Parked' : d # c => d \in ahead'[c] \/ c \in ahead'[d]
  BY <1>3, <1>4 DEF QueueInv
<1>7. ASSUME NEW d \in ahead'[c] PROVE ahead'[d] \subseteq ahead'[c]
  <2>1. d \in ahead[c] /\ d \in Parked \ {w}
    BY <1>3, <1>4, <1>5
  <2>2. ahead[d] \subseteq ahead[c]
    BY <1>3, <2>1 DEF QueueInv
  <2>3. QED
    BY <1>3, <1>4, <2>1, <2>2
<1>8. QED
  BY <1>5, <1>6, <1>7

\* A caller that parks goes behind everybody who is parked.
LEMMA ParkedLast ==
  ASSUME TypeOK, QueueInv, NEW c \in Callers, AcquirePark(c)
  PROVE  QueueInv'
<1>1. /\ c \notin Parked /\ Parked' = Parked \cup {c}
      /\ ahead'[c] = Parked
      /\ \A d \in Parked : ahead'[d] = ahead[d]
  BY DEF AcquirePark, TypeOK, Parked
<1>2. ASSUME NEW b \in Parked'
      PROVE  /\ ahead'[b] \subseteq Parked' \ {b}
             /\ \A d \in Parked' :
                   d # b => d \in ahead'[b] \/ b \in ahead'[d]
             /\ \A d \in ahead'[b] : ahead'[d] \subseteq ahead'[b]
  <2>1. CASE b = c
    BY <1>1, <2>1 DEF QueueInv
  <2>2. CASE b \in Parked
    <3>1. ahead'[b] = ahead[b] /\ ahead[b] \subseteq Parked \ {b}
      BY <1>1, <2>2 DEF QueueInv
    <3>2. ASSUME NEW d \in Parked', d # b
          PROVE  d \in ahead'[b] \/ b \in ahead'[d]
      BY <1>1, <2>2, <3>2 DEF QueueInv
    <3>3. \A d \in ahead'[b] : ahead'[d] \subseteq ahead'[b]
      BY <1>1, <2>2, <3>1 DEF QueueInv
    <3>4. QED
      BY <1>1, <3>1, <3>2, <3>3
  <2>3. QED
    BY <1>1, <2>1, <2>2
<1>3. QED
  BY <1>2 DEF QueueInv

\* A step leaves the queue alone, puts one caller at its end, or takes one out.
LEMMA QueueStep ==
  ASSUME TypeOK, [Next]_vars
  PROVE  \/ Parked' = Parked /\ ahead' = ahead
         \/ \E c \in Callers : AcquirePark(c)
         \/ \E w \in Parked : Parked' = Parked \ {w} /\ ahead' = Unparked(w)
<1>1. CASE UNCHANGED vars
  BY <1>1 DEF vars, Parked
<1>2. ASSUME NEW c \in Callers,
             TakeSlot(c) \/ CountAcquired(c) \/ CountReleased(c)
      PROVE  Parked' = Parked /\ ahead' = ahead
  BY <1>2 DEF TakeSlot, CountAcquired, CountReleased, TypeOK, Parked
<1>3. ASSUME NEW c \in Callers, AcquireGiveUp(c)
      PROVE  c \in Parked /\ Parked' = Parked \ {c} /\ ahead' = Unparked(c)
  BY <1>3 DEF AcquireGiveUp, TypeOK, Parked
<1>4. ASSUME NEW c \in Callers, Release(c)
      PROVE  \/ Parked' = Parked /\ ahead' = ahead
             \/ \E w \in Parked : Parked' = Parked \ {w} /\ ahead' = Unparked(w)
  <2>1. CASE Parked = {} /\ UNCHANGED ahead
             /\ pc' = [pc EXCEPT ![c] = "received"]
    BY <2>1 DEF TypeOK, Parked
  <2>2. ASSUME NEW w \in Callers, FirstParked(w), ahead' = Unparked(w),
               pc' = [pc EXCEPT ![c] = "received", ![w] = "sent"]
        PROVE  w \in Parked /\ Parked' = Parked \ {w}
    BY <1>4, <2>2 DEF Release, FirstParked, TypeOK, Parked
  <2>3. QED
    BY <1>4, <2>1, <2>2 DEF Release, Receive
<1>5. QED
  BY <1>1, <1>2, <1>3, <1>4 DEF Next, AcquireNow, TryAcquire

\* The parked callers are a queue in every reachable state.
THEOREM QueueIsOrdered == Spec => []QueueInv
<1>1. Init => QueueInv
  BY DEF Init, QueueInv, Parked
<1>2. ASSUME TypeOK, QueueInv, [Next]_vars PROVE QueueInv'
  <2>1. CASE Parked' = Parked /\ ahead' = ahead
    BY <1>2, <2>1 DEF QueueInv
  <2>2. ASSUME NEW c \in Callers, AcquirePark(c) PROVE QueueInv'
    BY <1>2, <2>2, ParkedLast
  <2>3. ASSUME NEW w \in Parked, Parked' = Parked \ {w}, ahead' = Unparked(w)
        PROVE  QueueInv'
    BY <1>2, <2>3, UnparkedStaysQueue
  <2>4. QED
    BY <1>2, <2>1, <2>2, <2>3, QueueStep
<1>3. QED
  BY <1>1, <1>2, TypeCorrect, PTL DEF Spec

\* A queue of finitely many callers that is not empty has a first one: take
\* one with a smallest set of callers ahead.
LEMMA QueueHasFirst ==
  ASSUME TypeOK, QueueInv, Parked # {}
  PROVE  \E w \in Callers : FirstParked(w)
<1> DEFINE Fronts == {ahead[c] : c \in Parked}
<1>1. Parked \subseteq Callers
  BY DEF Parked
<1>2. Fronts \subseteq FiniteSubsetsOf(Callers) /\ Fronts # {}
  BY <1>1, CallersFinite DEF TypeOK, FiniteSubsetsOf
<1>3. IsWellFoundedOn(StrictSubsetOrdering(Callers), FiniteSubsetsOf(Callers))
  BY FS_StrictSubsetOrderingWellFounded
<1>4. PICK x \in Fronts :
        \A y \in Fronts : <<y, x>> \notin StrictSubsetOrdering(Callers)
  <2> HIDE DEF Fronts
  <2>1. QED
    BY <1>2, <1>3, WFMin
<1>5. PICK w \in Parked : x = ahead[w]
  OBVIOUS
<1>6. ASSUME NEW d \in ahead[w] PROVE FALSE
  <2>1. d \in Parked /\ ahead[d] \subseteq ahead[w] /\ d \notin ahead[d]
    BY <1>5 DEF QueueInv
  <2>2. ahead[d] \in Fronts /\ ahead[d] # ahead[w]
    BY <2>1
  <2>3. ahead[d] \in SUBSET Callers /\ ahead[w] \in SUBSET Callers
    BY <1>1, <2>1 DEF TypeOK
  <2>4. <<ahead[d], ahead[w]>> \in StrictSubsetOrdering(Callers)
    BY <2>1, <2>2, <2>3 DEF StrictSubsetOrdering
  <2>5. QED
    BY <1>4, <1>5, <2>2, <2>4
<1>7. QED
  BY <1>1, <1>5, <1>6 DEF FirstParked

\* A Release by a caller that works never takes its default branch and never
\* waits: there is a token, and a first sender if there is any.
THEOREM ReleaseNeverIgnored == Spec => []ReleaseFindsToken
<1>1. ASSUME IInv, NEW c \in Callers, pc[c] = "working"
      PROVE  sem > 0
  <2>1. c \in Holders /\ Holders \in SUBSET Callers
    BY <1>1 DEF Holders
  <2>2. Holders # {} /\ IsFiniteSet(Holders)
    BY <2>1, CallersFinite
  <2>3. Cardinality(Holders) # 0
    BY <2>2, FS_EmptySet
  <2>4. QED
    BY <1>1, <2>1, <2>3, CallersFinite DEF IInv, CountInv
<1>2. IInv /\ QueueInv => ReleaseFindsToken
  BY <1>1, QueueHasFirst DEF IInv, ReleaseFindsToken
<1>3. QED
  BY <1>2, Invariance, QueueIsOrdered, PTL

\* Nobody overtakes a parked caller: a slot is taken from the channel only
\* when nobody is parked, and handed over only to the first in the queue.
LEMMA NoOvertaking ==
  ASSUME IInv, QueueInv, [Next]_vars, NEW c \in Callers,
         pc[c] = "parked", pc'[c] = "parked"
  PROVE  /\ \A d \in Callers :
               pc[d] # "sent" /\ pc'[d] = "sent" => d \in ahead[c]
         /\ ahead'[c] \subseteq ahead[c]
<1>1. TypeOK /\ c \in Parked /\ c \in Parked'
  BY DEF IInv, Parked
<1>2. ~SlotFree
  BY <1>1, PoolAssumption DEF IInv, TypeOK, WorkConserving, SlotFree
<1>3. CASE UNCHANGED vars
  BY <1>3 DEF vars
<1>4. ASSUME NEW b \in Callers,
             CountAcquired(b) \/ CountReleased(b) \/ AcquirePark(b)
      PROVE  /\ \A d \in Callers : pc'[d] = "sent" => pc[d] = "sent"
             /\ ahead'[c] = ahead[c]
  BY <1>1, <1>4
     DEF CountAcquired, CountReleased, AcquirePark, TypeOK
<1>5. ASSUME NEW b \in Callers, AcquireGiveUp(b)
      PROVE  /\ \A d \in Callers : pc'[d] = "sent" => pc[d] = "sent"
             /\ ahead'[c] \subseteq ahead[c]
  BY <1>1, <1>5 DEF AcquireGiveUp, TypeOK, Unparked
<1>6. ASSUME NEW b \in Callers, Release(b)
      PROVE  /\ \A d \in Callers :
                   pc[d] # "sent" /\ pc'[d] = "sent" => d \in ahead[c]
             /\ ahead'[c] \subseteq ahead[c]
  <2>1. PICK w \in Callers :
          /\ FirstParked(w)
          /\ pc' = [pc EXCEPT ![b] = "received", ![w] = "sent"]
          /\ ahead' = Unparked(w)
    BY <1>1, <1>6 DEF Release, Receive
  <2>2. w # c /\ w \in Parked /\ ahead[w] = {}
    BY <1>1, <2>1 DEF FirstParked, TypeOK
  <2>3. w \in ahead[c]
    BY <1>1, <2>2 DEF QueueInv
  <2>4. ahead'[c] \subseteq ahead[c]
    BY <1>1, <2>1, <2>2 DEF Unparked, TypeOK
  <2>5. \A d \in Callers : pc[d] # "sent" /\ pc'[d] = "sent" => d = w
    BY <1>1, <2>1 DEF TypeOK
  <2>6. QED
    BY <2>3, <2>4, <2>5
<1>7. QED
  BY <1>2, <1>3, <1>4, <1>5, <1>6
     DEF Next, AcquireNow, TryAcquire, TakeSlot

\* So callers are served in the order in which they came.
THEOREM OrderOfService == Spec => FirstComeFirstServed
<1>1. IInv /\ QueueInv /\ [Next]_vars
        => [\A c \in Callers :
              pc[c] = "parked" /\ pc'[c] = "parked" =>
                /\ \A d \in Callers :
                     pc[d] # "sent" /\ pc'[d] = "sent" => d \in ahead[c]
                /\ ahead'[c] \subseteq ahead[c]]_vars
  BY NoOvertaking
<1>2. QED
  BY <1>1, Invariance, QueueIsOrdered, PTL DEF Spec, FirstComeFirstServed

\* The number of callers before a parked one never grows and falls with every
\* slot that is given, so a caller waits for fewer slots than there are callers
\* (pool.go:40-49, 61-70): the measure behind WaiterServed.
WaitIsBounded ==
  [][\A c \in Callers :
       pc[c] = "parked" /\ pc'[c] = "parked" =>
         /\ Cardinality(ahead[c]) < Cardinality(Callers)
         /\ Cardinality(ahead'[c]) <= Cardinality(ahead[c])
         /\ (\E d \in Callers : pc[d] # "sent" /\ pc'[d] = "sent")
               => Cardinality(ahead'[c]) < Cardinality(ahead[c])]_vars

\* Who is given a slot was ahead and, being parked no more, is so no longer.
THEOREM BoundedWait == Spec => WaitIsBounded
<1>1. ASSUME IInv, QueueInv, QueueInv', [Next]_vars, NEW c \in Callers,
             pc[c] = "parked", pc'[c] = "parked"
      PROVE  /\ Cardinality(ahead[c]) < Cardinality(Callers)
             /\ Cardinality(ahead'[c]) <= Cardinality(ahead[c])
             /\ (\E d \in Callers : pc[d] # "sent" /\ pc'[d] = "sent")
                   => Cardinality(ahead'[c]) < Cardinality(ahead[c])
  <2>1. /\ ahead[c] \subseteq Callers /\ c \notin ahead[c]
        /\ ahead'[c] \subseteq ahead[c]
        /\ \A d \in Callers : pc[d] # "sent" /\ pc'[d] = "sent" => d \in ahead[c]
    BY <1>1, NoOvertaking DEF IInv, TypeOK, QueueInv, Parked
  <2>2. \A d \in ahead'[c] : pc'[d] = "parked"
    BY <1>1 DEF QueueInv, Parked
  <2>3. /\ IsFiniteSet(Callers) /\ Cardinality(Callers) \in Nat
        /\ IsFiniteSet(ahead[c]) /\ Cardinality(ahead[c]) \in Nat
        /\ Cardinality(ahead'[c]) \in Nat
    BY <2>1, CallersFinite
  <2>4. Cardinality(ahead[c]) <= Cardinality(Callers)
        /\ (Cardinality(ahead[c]) = Cardinality(Callers) => ahead[c] = Callers)
    BY <2>1, <2>3, FS_Subset
  <2>5. Cardinality(ahead'[c]) <= Cardinality(ahead[c])
        /\ (Cardinality(ahead'[c]) = Cardinality(ahead[c]) => ahead'[c] = ahead[c])
    BY <2>1, <2>3, FS_Subset
  <2>6. ASSUME NEW d \in Callers, pc[d] # "sent", pc'[d] = "sent"
        PROVE  Cardinality(ahead'[c]) < Cardinality(ahead[c])
    <3>1. d \in ahead[c] /\ d \notin ahead'[c]
      BY <2>1, <2>2, <2>6
    <3>2. QED
      BY <2>3, <2>5, <3>1
  <2>7. QED
    BY <1>1, <2>1, <2>3, <2>4, <2>5, <2>6
<1>2. ASSUME IInv, QueueInv, QueueInv', [Next]_vars
      PROVE  [\A c \in Callers :
                pc[c] = "parked" /\ pc'[c] = "parked" =>
                  /\ Cardinality(ahead[c]) < Cardinality(Callers)
                  /\ Cardinality(ahead'[c]) <= Cardinality(ahead[c])
                  /\ (\E d \in Callers : pc[d] # "sent" /\ pc'[d] = "sent")
                        => Cardinality(ahead'[c]) < Cardinality(ahead[c])]_vars
  BY <1>1, <1>2
<1>3. QED
  BY <1>2, Invariance, QueueIsOrdered, PTL DEF Spec, WaitIsBounded

-----------------------------------------------------------------------------
(* The counters *)

\* The counters differ from the channel by the callers in between only: the
\* callers that work are on both sides.
LEMMA CountersOfIInv == IInv => CountersReconcile
<1> DEFINE Sent     == {c \in Callers : pc[c] = "sent"}
           Working  == {c \in Callers : pc[c] = "working"}
           Received == {c \in Callers : pc[c] = "received"}
<1>1. ASSUME IInv PROVE CountersReconcile
  <2>1. /\ Holders = Sent \cup Working /\ Sent \cap Working = {}
        /\ Counted = Working \cup Received /\ Working \cap Received = {}
    BY DEF Holders, Counted
  <2>2. /\ Sent \in SUBSET Callers
        /\ Working \in SUBSET Callers
        /\ Received \in SUBSET Callers
    OBVIOUS
  <2> HIDE DEF Sent, Working, Received
  <2>3. Cardinality(Sent \cup Working)
          = Cardinality(Sent) + Cardinality(Working)
    BY <2>1, <2>2, DisjointUnion
  <2>4. Cardinality(Working \cup Received)
          = Cardinality(Working) + Cardinality(Received)
    BY <2>1, <2>2, DisjointUnion
  <2>5. activeCount + Cardinality(Sent) = sem + Cardinality(Received)
    BY <1>1, <2>1, <2>2, <2>3, <2>4, CallersFinite DEF IInv, CountInv
  <2>6. QED
    BY <2>5 DEF CountersReconcile, Sent, Received
<1>2. QED
  BY <1>1

\* So at all times.
THEOREM CountersLag == Spec => []CountersReconcile
BY CountersOfIInv, Invariance, PTL

\* A full count and a free place need more callers past the receive than
\* callers past the send, so at least one of them.
THEOREM FullExplained == Spec => []FullOrReleasing
<1>1. ASSUME IInv, IsFull, SlotFree
      PROVE  \E c \in Callers : pc[c] = "received"
  <2> DEFINE Sent     == {c \in Callers : pc[c] = "sent"}
             Received == {c \in Callers : pc[c] = "received"}
  <2>1. activeCount + Cardinality(Sent) = sem + Cardinality(Received)
    BY <1>1, CountersOfIInv DEF CountersReconcile
  <2>2. Sent \in SUBSET Callers /\ Received \in SUBSET Callers
    OBVIOUS
  <2>3. activeCount \in Int /\ sem \in Nat /\ MaxWorkers \in Nat
    BY <1>1, PoolAssumption DEF IInv, TypeOK
  <2>4. activeCount >= MaxWorkers /\ sem < MaxWorkers
    BY <1>1 DEF IsFull, SlotFree
  <2> HIDE DEF Sent, Received
  <2>5. Cardinality(Sent) \in Nat /\ Cardinality(Received) \in Nat
    BY <2>2, CallersFinite
  <2>6. Cardinality(Received) # 0
    BY <2>1, <2>3, <2>4, <2>5
  <2>7. Received # {}
    BY <2>6, FS_EmptySet
  <2>8. QED
    BY <2>7 DEF Received
<1>2. IInv => FullOrReleasing
  BY <1>1 DEF FullOrReleasing
<1>3. QED
  BY <1>2, Invariance, PTL

-----------------------------------------------------------------------------
\* The pool implements the abstract semaphore: every step of the pool takes,
\* gives back or passes on one slot, or leaves the holders alone.
THEOREM ImplementsSemaphore == Spec => SemaphoreSpec
<1>1. Init => Sem!Init
  BY DEF Init, Holders, Sem!Init
<1>2. ASSUME IInv, [Next]_vars PROVE [Sem!Next]_Holders
  <2>1. CASE UNCHANGED vars
    BY <1>2, <2>1, StutterStep
  <2>2. ASSUME NEW c \in Callers, TakeSlot(c) PROVE Sem!Take(c)
    <3>1. c \notin Holders /\ Holders' = Holders \cup {c}
      BY <1>2, <2>2, TakeSlotStep
    <3>2. Cardinality(Holders) < MaxWorkers
      BY <1>2, <2>2 DEF IInv, CountInv, TakeSlot, SlotFree
    <3>3. QED
      BY <3>1, <3>2 DEF Sem!Take, Sem!Cardinality, Cardinality
  <2>3. ASSUME NEW c \in Callers, Release(c) PROVE Sem!Next
    <3>1. c \in Holders
      BY <1>2, <2>3, ReleaseStep
    <3>2. CASE Holders' = Holders \ {c}
      BY <3>1, <3>2 DEF Sem!Next, Sem!Give
    <3>3. CASE \E w \in Callers \ Holders :
                 Holders' = (Holders \ {c}) \cup {w}
      BY <3>1, <3>3 DEF Sem!Next, Sem!Pass
    <3>4. QED
      BY <1>2, <2>3, <3>2, <3>3, ReleaseStep
  <2>4. ASSUME NEW c \in Callers,
               \/ AcquirePark(c) \/ AcquireGiveUp(c)
               \/ CountAcquired(c) \/ CountReleased(c)
        PROVE  Holders' = Holders
    BY <1>2, <2>4, ParkStep, GiveUpStep, CountAcquiredStep, CountReleasedStep
  <2>5. QED
    BY <1>2, <2>1, <2>2, <2>3, <2>4
       DEF Next, AcquireNow, TryAcquire, Sem!Next
<1>3. QED
  BY <1>1, <1>2, Invariance, PTL DEF Spec, SemaphoreSpec, Sem!Spec
=============================================================================
