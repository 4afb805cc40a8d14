------------------------------- MODULE ToolCalls -------------------------------
(***************************************************************************)
(* What a tool call is promised (tools/tools.go around ExecuteScript of    *)
(* executor/docker.go), whatever goes on inside: at most MaxWorkers calls  *)
(* are worked on at a time, one container is made for each at most, and    *)
(* the one answer is an error, a warning that the time was up, or what the *)
(* container really ended with.                                            *)
(***************************************************************************)
EXTENDS Integers, FiniteSets

CONSTANTS Jobs,         \* tool calls
          MaxWorkers,   \* MAX_WORKERS
          Faults        \* whether the daemon may fail

VARIABLES holders,      \* calls that are worked on
          container,    \* none yet, live, ended, over or stray, for each call
          exit,         \* exit status of each call's container
          late,         \* calls whose time is up
          verdict,      \* what each call's answer is going to be
          answered      \* calls that have their answer

vars == <<holders, container, exit, late, verdict, answered>>

NoStatus == -1

\* The verdict on a container that ended.
Told(code) == IF code = 0 THEN "success" ELSE "failure"

Init ==
  /\ holders = {}
  /\ container = [j \in Jobs |-> "none"]
  /\ exit = [j \in Jobs |-> NoStatus]
  /\ late = {}
  /\ verdict = [j \in Jobs |-> "none"]
  /\ answered = {}

\* The call's container is in another state; the verdict may fall with that.
Becomes(j, state)      == container' = [container EXCEPT ![j] = state]
Decide(j, what)        == verdict' = [verdict EXCEPT ![j] = what]

-----------------------------------------------------------------------------
\* A call that is refused, or finds no slot, is answered at once.
TurnAway(j) ==
  /\ j \notin holders /\ container[j] = "none"
  /\ Becomes(j, "over") /\ Decide(j, "error")
  /\ answered' = answered \cup {j}
  /\ UNCHANGED <<holders, exit, late>>

Admit(j) ==
  /\ j \notin holders /\ container[j] = "none"
  /\ Cardinality(holders) < MaxWorkers
  /\ holders' = holders \cup {j}
  /\ UNCHANGED <<container, exit, late, verdict, answered>>

Launch(j) ==
  /\ j \in holders /\ container[j] = "none"
  /\ Becomes(j, "live")
  /\ UNCHANGED <<holders, exit, late, verdict, answered>>

\* No container is made, or none that the call knows of: its time was up, or
\* the daemon failed, while it was being made.
Withdraw(j) ==
  /\ j \in holders /\ container[j] = "none"
  /\ Becomes(j, "over") \/ ((j \in late \/ Faults) /\ Becomes(j, "stray"))
  /\ Decide(j, "error")
  /\ UNCHANGED <<holders, exit, late, answered>>

Exit(j) ==
  /\ container[j] \in {"live", "stray"} /\ exit[j] = NoStatus
  /\ \E code \in {0, 1} : exit' = [exit EXCEPT ![j] = code]
  /\ container' = [container EXCEPT ![j] = IF @ = "live" THEN "ended" ELSE @]
  /\ UNCHANGED <<holders, late, verdict, answered>>

\* The container is removed, and what is said of it is true.
Retire(j) ==
  /\ j \in holders /\ container[j] \in {"live", "ended"}
  /\ Becomes(j, "over") \/ (Faults /\ Becomes(j, "stray"))
  /\ \/ Decide(j, "error")
     \/ j \in late /\ Decide(j, "timeout")
     \/ container[j] = "ended" /\ Decide(j, Told(exit[j]))
  /\ UNCHANGED <<holders, exit, late, answered>>

Answer(j) ==
  /\ j \in holders /\ verdict[j] # "none"
  /\ holders' = holders \ {j}
  /\ answered' = answered \cup {j}
  /\ UNCHANGED <<container, exit, late, verdict>>

Expire(j) ==
  /\ late' = late \cup {j}
  /\ UNCHANGED <<holders, container, exit, verdict, answered>>

\* The process dies: the calls in it are lost without an answer, those still
\* waiting for a slot too, and their containers are nobody's.
Crash(waiting) ==
  /\ holders' = {}
  /\ container' = [j \in Jobs |->
       CASE container[j] \in {"live", "ended"} -> "stray"
         [] container[j] = "none" /\ j \in holders \cup waiting -> "over"
         [] OTHER -> container[j]]
  /\ verdict' = [j \in Jobs |-> IF j \in answered THEN verdict[j] ELSE "none"]
  /\ UNCHANGED <<exit, late, answered>>

Next ==
  \/ \E j \in Jobs : \/ TurnAway(j) \/ Admit(j) \/ Launch(j) \/ Withdraw(j)
                     \/ Exit(j) \/ Retire(j) \/ Answer(j) \/ Expire(j)
  \/ \E waiting \in SUBSET Jobs : Crash(waiting)

Spec == Init /\ [][Next]_vars

-----------------------------------------------------------------------------
(* What follows for the clients *)

\* A container at work or ended has a slot, so there are at most MaxWorkers;
\* an answer that names an outcome names the one there was.
CapacityKept ==
  /\ Cardinality(holders) <= MaxWorkers
  /\ \A j \in Jobs : container[j] \in {"live", "ended"} => j \in holders

AnswersTrue ==
  \A j \in answered :
    /\ verdict[j] # "none" /\ container[j] \in {"over", "stray"}
    /\ verdict[j] = "timeout" => j \in late
    /\ verdict[j] \in {"success", "failure"} =>
         exit[j] # NoStatus /\ verdict[j] = Told(exit[j])

\* What a step does to one call: a container goes forward only and is never
\* made again, its exit is what it was, and so is an answer.
CallKept(j) ==
  /\ container[j] \in {"over", "stray"} => container'[j] = container[j]
  /\ container[j] = "ended" => container'[j] # "live"
  /\ container[j] # "none" => container'[j] # "none"
  /\ exit[j] # NoStatus => exit'[j] = exit[j]
  /\ j \in answered => j \in answered' /\ verdict'[j] = verdict[j]

OneLifeEach == [][\A j \in Jobs : CallKept(j)]_vars
=============================================================================
