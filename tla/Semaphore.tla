------------------------------ MODULE Semaphore ------------------------------
(***************************************************************************)
(* What the worker pool of workerpool/pool.go promises its callers: a set  *)
(* of at most MaxWorkers callers hold a slot, and a slot changes hands     *)
(* only by being taken, given back, or passed on to a waiting caller.      *)
(***************************************************************************)
EXTENDS Integers, FiniteSets

CONSTANTS Callers,      \* goroutines that run a tool handler
          MaxWorkers    \* capacity of the pool

VARIABLE holders        \* callers that hold a slot

Init == holders = {}

Take(c) ==
  /\ c \notin holders
  /\ Cardinality(holders) < MaxWorkers
  /\ holders' = holders \cup {c}

Give(c) ==
  /\ c \in holders
  /\ holders' = holders \ {c}

\* A slot given back while another caller waits goes straight to it.
Pass(c, w) ==
  /\ c \in holders
  /\ w \notin holders
  /\ holders' = (holders \ {c}) \cup {w}

Next ==
  \/ \E c \in Callers : Take(c) \/ Give(c)
  \/ \E c, w \in Callers : Pass(c, w)

Spec == Init /\ [][Next]_holders
=============================================================================
