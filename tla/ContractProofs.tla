--------------------------- MODULE ContractProofs ---------------------------
(* What follows from the steps of the abstract specifications alone, and   *)
(* so holds of everything that implements them: of every pool of leases,   *)
(* of every user of completion contexts, of every client with futures.     *)
EXTENDS Naturals, FiniteSets, FiniteSetTheorems, TLAPS

CONSTANTS User, Region, Fits, Capacity, NoRegion, Op

VARIABLES stage, uses, progress, context, future

L == INSTANCE Lease
D == INSTANCE Delivery
F == INSTANCE Future

-----------------------------------------------------------------------------
(* Leases.                                                                 *)

(* Each step of a region's life keeps the leases exclusive.                *)
LEMMA LeaseStep ==
  ASSUME NoRegion \notin Region, L!Exclusive, [L!Next]_<<stage, uses>>
  PROVE  L!Exclusive'
<1> USE DEF L!Exclusive, L!TypeOK
<1>1. ASSUME NEW u \in User, NEW r \in Region, L!Register(u, r) \/ L!Borrow(u, r)
      PROVE  L!Exclusive'
  BY <1>1 DEF L!Register, L!Borrow, L!Obtain
<1>2. ASSUME NEW u \in User, L!Return(u) \/ L!Discard(u) PROVE L!Exclusive'
  <2>1. PICK r \in Region, s \in {"spare", "gone"} : uses[u] = r /\ L!GiveUp(u, s)
    BY <1>2 DEF L!Return, L!Discard, L!GiveUp
  <2> QED
    BY <2>1 DEF L!GiveUp
<1>3. ASSUME NEW r \in Region, L!Drop(r) PROVE L!Exclusive'
  BY <1>3 DEF L!Drop
<1>4. CASE UNCHANGED <<stage, uses>>
  BY <1>4
<1> QED
  BY <1>1, <1>2, <1>3, <1>4 DEF L!Next

(* Whoever implements the lease leases a region to one user at a time and  *)
(* knows of every lease: the promise that Acquire of fi/memory_pool.go and *)
(* the operations of client.go make.                                       *)
THEOREM LeaseIsExclusive ==
  ASSUME NoRegion \notin Region
  PROVE  L!Spec => []L!Exclusive
<1>1. L!Init => L!Exclusive
  BY DEF L!Init, L!Exclusive, L!TypeOK
<1> QED
  BY <1>1, LeaseStep, PTL DEF L!Spec

(* The instance counts as this module does.                                *)
LEMMA SameCount == \A S : L!Cardinality(S) = Cardinality(S)
BY DEF L!Cardinality, Cardinality

(* A step adds a spare only when there is room, and only one that fits.    *)
LEMMA SparesStep ==
  ASSUME IsFiniteSet(Region), Capacity \in Nat, L!TypeOK, L!SparesFit, [L!Next]_<<stage, uses>>
  PROVE  L!SparesFit'
<1>1. IsFiniteSet(L!Spares) /\ Cardinality(L!Spares) \in Nat
  <2>1. L!Spares \subseteq Region
    BY DEF L!Spares
  <2> QED
    BY <2>1, FS_Subset, FS_CardinalityType
<1>2. ASSUME NEW u \in User, L!Return(u) PROVE L!SparesFit'
  <2>1. PICK r \in Region : uses[u] = r /\ stage' = [stage EXCEPT ![r] = "spare"]
    BY <1>2 DEF L!Return, L!GiveUp
  <2>2. r \in Fits /\ Cardinality(L!Spares) < Capacity
    BY <1>2, <2>1, SameCount DEF L!Return
  <2>3. L!Spares' = L!Spares \cup {r}
    BY <2>1 DEF L!TypeOK, L!Spares
  <2>4. \/ Cardinality(L!Spares') = Cardinality(L!Spares)
        \/ Cardinality(L!Spares') = Cardinality(L!Spares) + 1
    BY <1>1, <2>3, FS_AddElement
  <2> QED
    BY <1>1, <2>2, <2>3, <2>4, SameCount DEF L!SparesFit
<1>3. ASSUME L!Spares' \subseteq L!Spares PROVE L!SparesFit'
  <2>1. Cardinality(L!Spares') <= Cardinality(L!Spares) /\ Cardinality(L!Spares') \in Nat
    BY <1>1, <1>3, FS_Subset, FS_CardinalityType
  <2> QED
    BY <1>1, <1>3, <2>1, SameCount DEF L!SparesFit
<1>4. ASSUME NEW u \in User, L!Discard(u) PROVE L!Spares' \subseteq L!Spares
  BY <1>4 DEF L!Discard, L!GiveUp, L!TypeOK, L!Spares
<1>5. ASSUME NEW u \in User, NEW r \in Region, L!Register(u, r) \/ L!Borrow(u, r)
      PROVE  L!Spares' \subseteq L!Spares
  BY <1>5 DEF L!Register, L!Borrow, L!Obtain, L!TypeOK, L!Spares
<1>6. ASSUME NEW r \in Region, L!Drop(r) PROVE L!Spares' \subseteq L!Spares
  BY <1>6 DEF L!Drop, L!TypeOK, L!Spares
<1>7. UNCHANGED <<stage, uses>> => L!Spares' \subseteq L!Spares
  BY DEF L!Spares
<1> QED
  BY <1>2, <1>3, <1>4, <1>5, <1>6, <1>7 DEF L!Next

(* Whoever implements the lease keeps no more spares than there is room    *)
(* for, and none of another size.                                          *)
THEOREM SparesAreBounded ==
  ASSUME NoRegion \notin Region, IsFiniteSet(Region), Capacity \in Nat
  PROVE  L!Spec => []L!SparesFit
<1>1. L!Init => L!SparesFit
  <2>1. L!Init => L!Spares = {}
    BY DEF L!Init, L!Spares
  <2> QED
    BY <2>1, FS_EmptySet, SameCount DEF L!SparesFit
<1>2. L!Exclusive /\ L!SparesFit /\ [L!Next]_<<stage, uses>> => L!SparesFit'
  BY SparesStep DEF L!Exclusive
<1> QED
  BY <1>1, <1>2, LeaseIsExclusive, PTL DEF L!Spec

(* No region comes back after it was given up, and none is registered      *)
(* twice.                                                                  *)
THEOREM RegionsLiveOnce ==
  ASSUME NoRegion \notin Region
  PROVE  L!Spec => L!OneLife
<1>1. L!Exclusive /\ [L!Next]_<<stage, uses>> =>
        [\A r \in Region :
           /\ stage[r] = "gone" => stage'[r] = "gone"
           /\ stage[r] # "unregistered" => stage'[r] # "unregistered"]_<<stage, uses>>
  BY DEF L!Exclusive, L!TypeOK, L!Next, L!Register, L!Borrow, L!Obtain, L!Return, L!Discard,
    L!GiveUp, L!Drop
<1> QED
  BY <1>1, LeaseIsExclusive, PTL DEF L!Spec, L!OneLife

-----------------------------------------------------------------------------
(* Deliveries.                                                             *)

(* Every step keeps the context of an operation under way.                 *)
LEMMA DeliveryStep ==
  ASSUME D!Reachable, [D!Next]_(D!vars) PROVE D!Reachable'
<1> USE DEF D!Reachable, D!TypeOK, D!Advance, D!Turn
<1>1. ASSUME NEW o \in Op, D!Register(o) \/ D!Withdraw(o) \/ D!Resolve(o) PROVE D!Reachable'
  BY <1>1 DEF D!Register, D!Withdraw, D!Resolve
<1>2. ASSUME NEW o \in Op, D!Submit(o) PROVE D!Reachable'
  BY <1>2 DEF D!Submit
<1>3. ASSUME NEW o \in Op, D!Report(o) \/ D!Read(o) PROVE D!Reachable'
  BY <1>3 DEF D!Report, D!Read
<1>4. CASE UNCHANGED D!vars
  BY <1>4 DEF D!vars
<1> QED
  BY <1>1, <1>2, <1>3, <1>4 DEF D!Next

(* Whoever implements the delivery can find the context of every operation *)
(* the provider or the queue has.                                          *)
THEOREM ContextsAreReachable == D!Spec => []D!Reachable
<1>1. D!Init => D!Reachable
  BY DEF D!Init, D!Reachable, D!TypeOK
<1> QED
  BY <1>1, DeliveryStep, PTL DEF D!Spec

(* It releases each context once per post, never under the provider.       *)
THEOREM ContextsReleasedOnce == D!Spec => D!OneRelease
<1>1. D!Reachable /\ [D!Next]_(D!vars) =>
        [\A o \in Op :
           /\ context[o] # "released" /\ context'[o] = "released"
                => progress[o] \in {"unposted", "read"} /\ progress'[o] = progress[o]
           /\ context[o] = "released" /\ context'[o] # "released"
                => progress[o] = "read" /\ progress'[o] = "posted"]_(D!vars)
  BY DEF D!Reachable, D!TypeOK, D!Next, D!Register, D!Withdraw, D!Submit, D!Report, D!Read,
    D!Resolve, D!Advance, D!Turn, D!vars
<1> QED
  BY <1>1, ContextsAreReachable, PTL DEF D!Spec, D!OneRelease

-----------------------------------------------------------------------------
(* Futures.                                                                *)

(* Whoever implements the futures never takes back what a caller was told. *)
THEOREM FutureIsFinal == F!Spec => F!Final
<1>1. F!Init => F!TypeOK
  BY DEF F!Init, F!TypeOK
<1>2. F!TypeOK /\ [F!Next]_future => F!TypeOK'
  BY DEF F!TypeOK, F!Next, F!Refuse, F!Accept, F!Resolve
<1>3. F!TypeOK /\ [F!Next]_future =>
        [\A o \in Op : future[o] \in {"refused", "ok", "error"} => future'[o] = future[o]]_future
  BY DEF F!TypeOK, F!Next, F!Refuse, F!Accept, F!Resolve
<1> QED
  BY <1>1, <1>2, <1>3, PTL DEF F!Spec, F!Final
=============================================================================
