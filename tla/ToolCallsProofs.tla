---------------------------- MODULE ToolCallsProofs ----------------------------
(***************************************************************************)
(* What the promise of tool calls gives to their clients, for every finite *)
(* set of calls and every number of workers.  ExecutorProofs carries it    *)
(* over to the executor, which implements it.                              *)
(***************************************************************************)
EXTENDS ToolCalls, FiniteSetTheorems, TLAPS

States   == {"none", "live", "ended", "over", "stray"}
Verdicts == {"none", "error", "timeout", "success", "failure"}

CallTypes ==
  /\ holders \subseteq Jobs
  /\ container \in [Jobs -> States]
  /\ exit \in [Jobs -> {NoStatus, 0, 1}]
  /\ late \subseteq Jobs
  /\ verdict \in [Jobs -> Verdicts]
  /\ answered \subseteq Jobs

\* A verdict is made when the container is over, or nobody's, and is true.
VerdictInv(j) ==
  /\ verdict[j] # "none" => container[j] \in {"over", "stray"}
  /\ verdict[j] = "timeout" => j \in late
  /\ verdict[j] \in {"success", "failure"} =>
       exit[j] # NoStatus /\ verdict[j] = Told(exit[j])
  /\ container[j] = "none" => exit[j] = NoStatus
  /\ container[j] = "live" => exit[j] = NoStatus
  /\ container[j] = "ended" => exit[j] # NoStatus

\* An answered call has its verdict and no slot; one that works, a slot.
AnswerInv(j) ==
  /\ j \in answered => verdict[j] # "none" /\ j \notin holders
  /\ container[j] \in {"live", "ended"} => j \in holders

CallsInv ==
  /\ CallTypes
  /\ Cardinality(holders) <= MaxWorkers
  /\ \A j \in Jobs : VerdictInv(j) /\ AnswerInv(j)

\* A step of one call that leaves the slots alone.
LEMMA OwnStep ==
  ASSUME CallsInv, NEW j \in Jobs,
         TurnAway(j) \/ Launch(j) \/ Withdraw(j) \/ Exit(j) \/ Retire(j) \/ Expire(j)
  PROVE  CallsInv'
<1> USE DEF CallsInv, CallTypes, VerdictInv, AnswerInv, States, Verdicts, Told,
            NoStatus, Becomes, Decide
<1>1. CASE TurnAway(j)
  BY <1>1 DEF TurnAway
<1>2. CASE Launch(j)
  BY <1>2 DEF Launch
<1>3. CASE Withdraw(j)
  BY <1>3 DEF Withdraw
<1>4. CASE Exit(j)
  BY <1>4 DEF Exit
<1>5. CASE Retire(j)
  BY <1>5 DEF Retire
<1>6. CASE Expire(j)
  BY <1>6 DEF Expire
<1>7. QED
  BY <1>1, <1>2, <1>3, <1>4, <1>5, <1>6

\* A slot is taken below the bound, given back, or lost with all the others.
LEMMA SlotStep ==
  ASSUME IsFiniteSet(Jobs), MaxWorkers \in Nat, CallsInv,
         \/ \E j \in Jobs : Admit(j) \/ Answer(j)
         \/ \E waiting \in SUBSET Jobs : Crash(waiting)
  PROVE  CallsInv'
<1> USE DEF CallsInv, CallTypes, VerdictInv, AnswerInv, States, Verdicts
<1>1. IsFiniteSet(holders) /\ Cardinality(holders) \in Nat
  BY FS_Subset, FS_CardinalityType
<1>2. ASSUME NEW j \in Jobs, Admit(j) PROVE CallsInv'
  <2>1. Cardinality(holders') = Cardinality(holders) + 1
    BY <1>1, <1>2, FS_AddElement DEF Admit
  <2>2. Cardinality(holders') <= MaxWorkers
    BY <1>1, <1>2, <2>1 DEF Admit
  <2>3. j \notin answered
    BY <1>2 DEF Admit
  <2>4. QED
    BY <1>2, <2>2, <2>3 DEF Admit
<1>3. ASSUME NEW j \in Jobs, Answer(j) PROVE CallsInv'
  <2>1. holders' \in SUBSET holders
    BY <1>3 DEF Answer
  <2>2. Cardinality(holders') <= MaxWorkers
    <3>1. IsFiniteSet(holders') /\ Cardinality(holders') <= Cardinality(holders)
      BY <1>1, <2>1, FS_Subset
    <3>2. QED
      BY <1>1, <3>1, FS_CardinalityType
  <2>3. container[j] \in {"over", "stray"}
    BY <1>3 DEF Answer
  <2>4. QED
    BY <1>3, <2>2, <2>3 DEF Answer
<1>4. ASSUME NEW waiting \in SUBSET Jobs, Crash(waiting) PROVE CallsInv'
  <2>1. Cardinality(holders') <= MaxWorkers
    BY <1>4, FS_EmptySet DEF Crash
  <2>2. CallTypes'
    BY <1>4 DEF Crash
  <2>3. \A j \in Jobs : VerdictInv(j)' /\ AnswerInv(j)'
    BY <1>4 DEF Crash
  <2>4. QED
    BY <2>1, <2>2, <2>3
<1>5. QED
  BY <1>2, <1>3, <1>4

\* At any number of calls and workers, verdicts are made late and are true.
THEOREM Invariance ==
  ASSUME IsFiniteSet(Jobs), MaxWorkers \in Nat
  PROVE  Spec => []CallsInv
<1>1. Init => CallsInv
  BY FS_EmptySet DEF Init, CallsInv, CallTypes, VerdictInv, AnswerInv, States,
     Verdicts
<1>2. CallsInv /\ [Next]_vars => CallsInv'
  <2>1. CallsInv /\ UNCHANGED vars => CallsInv'
    BY DEF vars, CallsInv, CallTypes, VerdictInv, AnswerInv
  <2>2. QED
    BY <2>1, OwnStep, SlotStep DEF Next
<1>3. QED
  BY <1>1, <1>2, PTL DEF Spec

\* So the slots bound what is at work, and every answer is true.
THEOREM PromiseKept ==
  ASSUME IsFiniteSet(Jobs), MaxWorkers \in Nat
  PROVE  Spec => [](CapacityKept /\ AnswersTrue)
<1>1. CallsInv => CapacityKept /\ AnswersTrue
  BY DEF CallsInv, CallTypes, VerdictInv, AnswerInv, CapacityKept, AnswersTrue
<1>2. QED
  BY <1>1, Invariance, PTL

\* No call has two containers, a container two exits, or a client two answers.
THEOREM LivesAreOne ==
  ASSUME IsFiniteSet(Jobs), MaxWorkers \in Nat
  PROVE  Spec => OneLifeEach
<1>1. ASSUME CallsInv, [Next]_vars PROVE [\A j \in Jobs : CallKept(j)]_vars
  <2>1. CASE UNCHANGED vars
    BY <2>1
  <2>2. SUFFICES ASSUME Next, NEW j \in Jobs PROVE CallKept(j)
    BY <1>1, <2>1
  <2> USE DEF CallsInv, CallTypes, VerdictInv, AnswerInv, CallKept, Becomes,
              Decide, States, Verdicts, NoStatus
  <2>3. ASSUME NEW k \in Jobs, TurnAway(k) \/ Admit(k) \/ Launch(k) PROVE CallKept(j)
    BY <1>1, <2>3 DEF TurnAway, Admit, Launch
  <2>4. ASSUME NEW k \in Jobs, Withdraw(k) PROVE CallKept(j)
    BY <1>1, <2>4 DEF Withdraw
  <2>5. ASSUME NEW k \in Jobs, Exit(k) PROVE CallKept(j)
    BY <1>1, <2>5 DEF Exit
  <2>6. ASSUME NEW k \in Jobs, Retire(k) PROVE CallKept(j)
    BY <1>1, <2>6 DEF Retire
  <2>7. ASSUME NEW k \in Jobs, Answer(k) \/ Expire(k) PROVE CallKept(j)
    BY <1>1, <2>7 DEF Answer, Expire
  <2>8. ASSUME NEW waiting \in SUBSET Jobs, Crash(waiting) PROVE CallKept(j)
    BY <1>1, <2>8 DEF Crash
  <2>9. QED
    BY <2>2, <2>3, <2>4, <2>5, <2>6, <2>7, <2>8 DEF Next
<1>2. QED
  BY <1>1, Invariance, PTL DEF Spec, OneLifeEach
=============================================================================
