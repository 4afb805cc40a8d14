---------------------------- MODULE TTLStoreProofs ----------------------------
(***************************************************************************)
(* What the abstract store with a TTL gives to its clients, for every set  *)
(* of keys and every TTL.  FileStoreProofs and OutputManagerProofs carry   *)
(* it over to the two stores that implement it.                            *)
(***************************************************************************)
EXTENDS TTLStore, TLAPS

StoreInv ==
  /\ now \in Nat
  /\ life \in [Keys -> {"fresh", "held", "over"}]
  /\ expires \in [Keys -> Int]
  /\ ExpiryBounded

\* The keys that end lose their expiry, the others keep theirs.
LEMMA EndKeeps ==
  ASSUME StoreInv, NEW ended \in SUBSET Keys, End(ended), UNCHANGED now
  PROVE  StoreInv'
BY DEF StoreInv, ExpiryBounded, End

\* A store's invariant: types, and expiries that are near enough.
THEOREM Invariance == ASSUME TTL \in Nat PROVE Spec => []StoreInv
<1>1. Init => StoreInv
  BY DEF Init, StoreInv, ExpiryBounded
<1>2. ASSUME TTL \in Nat, StoreInv, [Next]_vars PROVE StoreInv'
  <2>1. CASE UNCHANGED vars
    BY <1>2, <2>1 DEF vars, StoreInv, ExpiryBounded
  <2>2. ASSUME NEW k \in Keys, Put(k) PROVE StoreInv'
    BY <1>2, <2>2 DEF Put, StoreInv, ExpiryBounded
  <2>3. ASSUME NEW k \in Keys, Refuse(k) \/ Delete(k) PROVE StoreInv'
    BY <1>2, <2>3, EndKeeps DEF Refuse, Delete, StoreInv, ExpiryBounded
  <2>4. ASSUME NEW k \in Keys, Deleted(k) PROVE StoreInv'
    BY <1>2, <2>4 DEF Deleted, StoreInv, ExpiryBounded
  <2>5. ASSUME NEW keys \in SUBSET Keys, Expire(keys) \/ Restart(keys)
        PROVE  StoreInv'
    BY <1>2, <2>5, EndKeeps DEF Expire, Restart
  <2>6. CASE Tick
    BY <1>2, <2>6 DEF Tick, StoreInv, ExpiryBounded
  <2>7. QED
    BY <1>2, <2>1, <2>2, <2>3, <2>4, <2>5, <2>6 DEF Next
<1>3. QED
  BY <1>1, <1>2, PTL DEF Spec

\* Nothing is held for longer than TTL.
THEOREM HeldForTTL == ASSUME TTL \in Nat PROVE Spec => []ExpiryBounded
<1>1. StoreInv => ExpiryBounded
  BY DEF StoreInv
<1>2. QED
  BY <1>1, Invariance, PTL

\* Nothing that is over comes back, and no expiry moves.
THEOREM PromiseKept == ASSUME TTL \in Nat PROVE Spec => KeptAsPromised
<1>1. ASSUME StoreInv, [Next]_vars PROVE [\A k \in Keys : KeyKept(k)]_vars
  <2>1. CASE UNCHANGED vars
    BY <2>1
  <2>2. SUFFICES ASSUME Next, NEW k \in Keys PROVE KeyKept(k)
    BY <1>1, <2>1
  <2>3. life[k] \in {"fresh", "held", "over"}
    BY <1>1 DEF StoreInv
  <2>4. ASSUME NEW j \in Keys, Put(j) PROVE KeyKept(k)
    BY <1>1, <2>4 DEF Put, StoreInv, KeyKept
  <2>5. ASSUME NEW j \in Keys, Refuse(j) PROVE KeyKept(k)
    BY <2>5 DEF Refuse, End, KeyKept
  <2>6. ASSUME NEW j \in Keys, Delete(j) PROVE KeyKept(k)
    BY <2>6 DEF Delete, End, KeyKept
  <2>7. ASSUME NEW keys \in SUBSET Keys, Expire(keys) PROVE KeyKept(k)
    BY <2>7 DEF Expire, End, KeyKept
  <2>8. ASSUME NEW keys \in SUBSET Keys, Restart(keys) PROVE KeyKept(k)
    BY <2>8 DEF Restart, End, KeyKept
  <2>9. ASSUME NEW j \in Keys, Deleted(j) \/ Tick PROVE KeyKept(k)
    BY <2>9 DEF Deleted, Tick, KeyKept
  <2>10. QED
    BY <2>2, <2>4, <2>5, <2>6, <2>7, <2>8, <2>9 DEF Next
<1>2. QED
  BY <1>1, Invariance, PTL DEF Spec, KeptAsPromised
=============================================================================
