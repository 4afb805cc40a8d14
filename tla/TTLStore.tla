------------------------------- MODULE TTLStore -------------------------------
(***************************************************************************)
(* What the two stores with a TTL promise, the upload store of             *)
(* storage/filestore.go and the output manager of executor/output.go: a    *)
(* key is put once, with an expiry no later than TTL from then, and is     *)
(* held until it has expired, until a delete names it, or, where the index *)
(* is volatile, until the process dies.  What is over never comes back.    *)
(***************************************************************************)
EXTENDS Integers

CONSTANTS Keys,
          TTL,
          Volatile,   \* whether a restart forgets what is held
          Faulty      \* whether a delete may fail

VARIABLES now,
          life,       \* each key: fresh, held or over
          expires,    \* the expiry of each key held, 0 of any other
          deleting    \* keys that deletes in progress have named

vars == <<now, life, expires, deleting>>

Init ==
  /\ now = 0
  /\ life = [k \in Keys |-> "fresh"]
  /\ expires = [k \in Keys |-> 0]
  /\ deleting = {}

\* The keys of a set are over.
End(ended) ==
  /\ life' = [k \in Keys |-> IF k \in ended THEN "over" ELSE life[k]]
  /\ expires' = [k \in Keys |-> IF k \in ended THEN 0 ELSE expires[k]]

Put(k) ==
  /\ life[k] = "fresh"
  /\ life' = [life EXCEPT ![k] = "held"]
  /\ \E t \in 0 .. now + TTL : expires' = [expires EXCEPT ![k] = t]
  /\ UNCHANGED <<now, deleting>>

\* A key that was to be put never will be.
Refuse(k) ==
  /\ life[k] = "fresh"
  /\ End({k})
  /\ UNCHANGED <<now, deleting>>

\* A delete takes a key that is held, unless it fails; before that it may come
\* too early, and after that too late.
Delete(k) ==
  /\ deleting' = deleting \cup {k}
  /\ \/ End(IF life[k] = "held" THEN {k} ELSE {})
     \/ Faulty /\ UNCHANGED <<life, expires>>
  /\ UNCHANGED now

Deleted(k) ==
  /\ deleting' = deleting \ {k}
  /\ UNCHANGED <<now, life, expires>>

Expire(keys) ==
  /\ \A k \in keys : life[k] = "held" /\ now > expires[k]
  /\ End(keys)
  /\ UNCHANGED <<now, deleting>>

Tick == now' = now + 1 /\ UNCHANGED <<life, expires, deleting>>

\* The process dies: puts and deletes in progress are lost, and with them, in
\* a volatile store, everything that is held.
Restart(lost) ==
  /\ \A k \in lost : life[k] = "held" => Volatile
  /\ End(lost)
  /\ deleting' = {}
  /\ UNCHANGED now

Next ==
  \/ \E k \in Keys : Put(k) \/ Refuse(k) \/ Delete(k) \/ Deleted(k)
  \/ \E keys \in SUBSET Keys : Expire(keys) \/ Restart(keys)
  \/ Tick

Spec == Init /\ [][Next]_vars

-----------------------------------------------------------------------------
(* What follows for the clients of a store *)

\* A key is held for TTL at most: its expiry is never further away.
ExpiryBounded == \A k \in Keys : life[k] = "held" => expires[k] \in 0 .. now + TTL

\* A key goes forward only: what is over stays over, and what is held keeps
\* its expiry and ends for one of three reasons.
KeyKept(k) ==
  /\ life[k] = "over" => life'[k] = "over"
  /\ life[k] = "held" =>
       \/ life'[k] = "held" /\ expires'[k] = expires[k]
       \/ /\ life'[k] = "over"
          /\ \/ now > expires[k]
             \/ k \in deleting'
             \/ Volatile /\ deleting' = {}

KeptAsPromised == [][\A k \in Keys : KeyKept(k)]_vars
=============================================================================
