---------------------------- MODULE MRPoolProofs ----------------------------
(* Proofs about MRPool, for every number of goroutines, every set of       *)
(* regions and every capacity.                                             *)
EXTENDS MRPool, FiniteSetTheorems, TLAPS

(* Adding one region to the channel adds at most one to its length: the    *)
(* send of Release, which the runtime only lets through below capacity.    *)
LEMMA SendKeepsCapacity ==
  ASSUME NEW P, P \subseteq Region, NEW r \in Region,
         Cardinality(P) < Capacity
  PROVE  Cardinality(P \cup {r}) <= Capacity
<1>1. IsFiniteSet(P)
  BY PoolAssumption, FS_Subset
<1>2. /\ Cardinality(P) \in Nat
      /\ Cardinality(P \cup {r}) = IF r \in P THEN Cardinality(P) ELSE Cardinality(P) + 1
  BY <1>1, FS_AddElement, FS_CardinalityType
<1> QED
  BY <1>2, PoolAssumption

(* Taking a region out of the channel does not lengthen it.                *)
LEMMA ReceiveKeepsCapacity ==
  ASSUME NEW P, P \subseteq Region, NEW r \in P,
         Cardinality(P) <= Capacity
  PROVE  Cardinality(P \ {r}) <= Capacity
<1>1. IsFiniteSet(P)
  BY PoolAssumption, FS_Subset
<1>2. /\ Cardinality(P) \in Nat
      /\ Cardinality(P \ {r}) \in Nat
      /\ Cardinality(P \ {r}) <= Cardinality(P)
  BY <1>1, FS_Subset, FS_CardinalityType
<1> QED
  BY <1>2, PoolAssumption

(* The invariant holds initially: no region exists yet.                    *)
LEMMA InitPool == Init => PoolInv
<1> SUFFICES ASSUME Init PROVE PoolInv
  OBVIOUS
<1>1. Cardinality({}) = 0
  BY FS_EmptySet
<1>2. PoolBounded
  BY <1>1, PoolAssumption DEF Init, PoolBounded
<1> QED
  BY <1>2, PoolAssumption
  DEF Init, PoolInv, TypeOK, OneOwner, OwnedIsOpen, HoldsWhenSaid

(* The invariant is inductive: every step of Acquire, Release and Close    *)
(* moves a region from one owner to the next.                              *)
LEMMA NextPool == PoolInv /\ [Next]_vars => PoolInv'
<1> SUFFICES ASSUME PoolInv, [Next]_vars PROVE PoolInv'
  OBVIOUS
<1> USE PoolAssumption
<1>1. ASSUME NEW t \in Thread, AcquireCheck(t) PROVE PoolInv'
  BY <1>1 DEF PoolInv, TypeOK, OneOwner, OwnedIsOpen, PoolBounded, HoldsWhenSaid, AcquireCheck
<1>2. ASSUME NEW t \in Thread, NEW r \in Region, AcquireTake(t, r) PROVE PoolInv'
  <2>1. PoolBounded'
    BY <1>2, ReceiveKeepsCapacity DEF PoolInv, TypeOK, PoolBounded, AcquireTake
  <2> QED
    BY <1>2, <2>1 DEF PoolInv, TypeOK, OneOwner, OwnedIsOpen, PoolBounded, HoldsWhenSaid, AcquireTake
<1>3. ASSUME NEW t \in Thread, NEW r \in Region, AcquireNew(t, r) PROVE PoolInv'
  BY <1>3 DEF PoolInv, TypeOK, OneOwner, OwnedIsOpen, PoolBounded, HoldsWhenSaid, AcquireNew, RegisterMemory
<1>4. ASSUME NEW t \in Thread, AcquireFail(t) PROVE PoolInv'
  BY <1>4 DEF PoolInv, TypeOK, OneOwner, OwnedIsOpen, PoolBounded, HoldsWhenSaid, AcquireFail
<1>5. ASSUME NEW t \in Thread, NEW r \in Region, RegisterForeign(t, r) PROVE PoolInv'
  BY <1>5 DEF PoolInv, TypeOK, OneOwner, OwnedIsOpen, PoolBounded, HoldsWhenSaid, RegisterForeign, RegisterMemory
<1>6. ASSUME NEW t \in Thread, ReleaseClose(t) PROVE PoolInv'
  BY <1>6 DEF PoolInv, TypeOK, OneOwner, OwnedIsOpen, PoolBounded, HoldsWhenSaid, ReleaseClose, CloseRegion
<1>7. ASSUME NEW t \in Thread, ReleaseCheck(t) PROVE PoolInv'
  BY <1>7 DEF PoolInv, TypeOK, OneOwner, OwnedIsOpen, PoolBounded, HoldsWhenSaid, ReleaseCheck
<1>8. ASSUME NEW t \in Thread, ReleasePut(t) PROVE PoolInv'
  <2>1. held[t] \in Region
    BY <1>8 DEF PoolInv, TypeOK, HoldsWhenSaid, ReleasePut
  <2>2. PoolBounded'
    BY <1>8, <2>1, SendKeepsCapacity DEF PoolInv, TypeOK, PoolBounded, HoldsWhenSaid, ReleasePut
  <2> QED
    BY <1>8, <2>1, <2>2 DEF PoolInv, TypeOK, OneOwner, OwnedIsOpen, HoldsWhenSaid, ReleasePut
<1>9. ASSUME NEW t \in Thread, ReleaseFull(t) PROVE PoolInv'
  BY <1>9 DEF PoolInv, TypeOK, OneOwner, OwnedIsOpen, PoolBounded, HoldsWhenSaid, ReleaseFull, CloseRegion
<1>10. CASE CloseSwap
  BY <1>10 DEF PoolInv, TypeOK, OneOwner, OwnedIsOpen, PoolBounded, HoldsWhenSaid, CloseSwap
<1>11. ASSUME NEW r \in Region, CloseDrain(r) PROVE PoolInv'
  <2>1. PoolBounded'
    BY <1>11, ReceiveKeepsCapacity DEF PoolInv, TypeOK, PoolBounded, CloseDrain
  <2> QED
    BY <1>11, <2>1 DEF PoolInv, TypeOK, OneOwner, OwnedIsOpen, HoldsWhenSaid, CloseDrain, CloseRegion
<1>12. CASE CloseReturn
  BY <1>12 DEF PoolInv, TypeOK, OneOwner, OwnedIsOpen, PoolBounded, HoldsWhenSaid, CloseReturn
<1>13. CASE UNCHANGED vars
  BY <1>13 DEF PoolInv, TypeOK, OneOwner, OwnedIsOpen, PoolBounded, HoldsWhenSaid, vars
<1> QED
  BY <1>1, <1>2, <1>3, <1>4, <1>5, <1>6, <1>7, <1>8, <1>9, <1>10, <1>11, <1>12, <1>13
  DEF Next, Acquire, Release, Close

(* Every behaviour of the pool keeps the invariant.                        *)
THEOREM PoolCorrect == Spec => []PoolInv
BY InitPool, NextPool, PTL DEF Spec

(* No region ever has two owners, in memory_pool.go's Acquire, Release and *)
(* Close taken in any interleaving of any number of goroutines.            *)
THEOREM RegionHasOneOwner == Spec => []OneOwner
<1>1. PoolInv => OneOwner
  BY DEF PoolInv
<1> QED
  BY <1>1, PoolCorrect, PTL

(* A region that is held or pooled has not been deregistered: a goroutine  *)
(* whose check of closed went stale still only closes what it holds.       *)
THEOREM OwnedRegionIsOpen == Spec => []OwnedIsOpen
<1>1. PoolInv => OwnedIsOpen
  BY DEF PoolInv
<1> QED
  BY <1>1, PoolCorrect, PTL

(* The channel stays within its capacity and holds no region of another    *)
(* size, whatever regions the callers release.                             *)
THEOREM PoolStaysBounded == Spec => []PoolBounded
<1>1. PoolInv => PoolBounded
  BY DEF PoolInv
<1> QED
  BY <1>1, PoolCorrect, PTL

(* What is sendable does not grow when one goroutine steps, what it then   *)
(* sends was sendable before, and the channel gets no other region.        *)
LEMMA OneMoves ==
  ASSUME NEW t \in Thread, pool' \subseteq Sendable,
         \A u \in Thread \ {t} : pc'[u] = pc[u] /\ held'[u] = held[u],
         pc'[t] = "put" => held'[t] \in Sendable
  PROVE  Sendable' \subseteq Sendable
BY DEF Sendable

(* A goroutine gets past the check of closed only while the pool is open,  *)
(* and what it sends it held before: Close has no more to drain than what  *)
(* was in the channel or on its way when it set closed, and each region    *)
(* it takes out stays out.                                                 *)
LEMMA DrainStep ==
  ASSUME PoolInv, [Next]_vars, closed
  PROVE  /\ Sendable' \subseteq Sendable
         /\ \A r \in Region : CloseDrain(r) => r \notin Sendable'
<1> USE PoolAssumption DEF PoolInv, TypeOK
<1>1. Sendable' \subseteq Sendable
  <2>1. pool \subseteq Sendable /\ \A t \in Thread : pc[t] = "put" => held[t] \in Sendable
    BY DEF Sendable
  <2>2. ASSUME NEW t \in Thread, Acquire(t) \/ \E r \in Region : RegisterForeign(t, r)
        PROVE  Sendable' \subseteq Sendable
    <3>1. /\ pool' \subseteq pool /\ pc'[t] # "put"
          /\ \A u \in Thread \ {t} : pc'[u] = pc[u] /\ held'[u] = held[u]
      BY <2>2 DEF Acquire, AcquireCheck, AcquireTake, AcquireNew, RegisterMemory, AcquireFail,
        RegisterForeign
    <3> QED
      BY <2>1, <3>1, OneMoves
  <2>3. ASSUME NEW t \in Thread, Release(t) PROVE Sendable' \subseteq Sendable
    <3>1. /\ pool' \subseteq pool \cup {held[t]} /\ (pc[t] # "put" => pool' = pool)
          /\ pc'[t] # "put"
          /\ \A u \in Thread \ {t} : pc'[u] = pc[u] /\ held'[u] = held[u]
      BY <2>3 DEF Release, ReleaseClose, ReleaseCheck, ReleasePut, ReleaseFull
    <3> QED
      BY <2>1, <3>1, OneMoves
  <2>4. CASE Close \/ UNCHANGED vars
    BY <2>4 DEF Close, CloseSwap, CloseDrain, CloseReturn, vars, Sendable
  <2> QED
    BY <2>2, <2>3, <2>4 DEF Next
<1>2. ASSUME NEW r \in Region, CloseDrain(r) PROVE r \notin Sendable'
  BY <1>2 DEF CloseDrain, OneOwner, Sendable
<1> QED
  BY <1>1, <1>2

(* Close drains a bounded number of regions: the part of CloseTerminates   *)
(* that needs no fairness.                                                 *)
THEOREM CloseDrainsBounded == Spec => DrainBounded
<1>1. PoolInv /\ [Next]_vars =>
        [closed => /\ Sendable' \subseteq Sendable
                   /\ \A r \in Region : CloseDrain(r) => r \notin Sendable']_vars
  BY DrainStep
<1> QED
  BY <1>1, PoolCorrect, PTL DEF Spec, DrainBounded

(* What the refinement mapping makes of a state that keeps the invariant.  *)
LEMMA StageOfRegion ==
  ASSUME PoolInv
  PROVE  /\ L!Spares = pool
         /\ \A r \in Region : state[r] = "open" <=> Stage(r) \in {"leased", "spare"}
         /\ \A t \in Thread : held[t] # NoRegion => held[t] \in Region /\ Stage(held[t]) = "leased"
BY DEF PoolInv, TypeOK, OneOwner, OwnedIsOpen, L!Spares, Stage

(* A step that changes one region changes one value of the mapping.        *)
LEMMA OneRegionMoves ==
  ASSUME NEW r \in Region, NEW s, Stage(r)' = s,
         \A q \in Region \ {r} : Stage(q)' = Stage(q)
  PROVE  [q \in Region |-> Stage(q)]' = [[q \in Region |-> Stage(q)] EXCEPT ![r] = s]
OBVIOUS

(* A step that registers a region for t is the abstract registration.      *)
LEMMA RegisterIsLease ==
  ASSUME PoolInv, NEW t \in Thread, NEW r \in Region, held[t] = NoRegion, RegisterMemory(t, r)
  PROVE  L!Register(t, r)
<1>1. /\ r \notin pool /\ Stage(r) = "unregistered" /\ Stage(r)' = "leased"
      /\ \A q \in Region \ {r} : Stage(q)' = Stage(q)
  BY PoolAssumption DEF PoolInv, TypeOK, OwnedIsOpen, RegisterMemory, Stage
<1>2. /\ held' = [held EXCEPT ![t] = r]
      /\ [q \in Region |-> Stage(q)]' = [[q \in Region |-> Stage(q)] EXCEPT ![r] = "leased"]
  BY <1>1 DEF RegisterMemory
<1> QED
  BY <1>1, <1>2 DEF L!Register, L!Obtain

(* A step of t that closes what it holds is the abstract discarding.       *)
LEMMA CloseHeldIsDiscard ==
  ASSUME PoolInv, NEW t \in Thread, NEW r \in Region, held[t] = r, CloseRegion(r),
         held' = [held EXCEPT ![t] = NoRegion], UNCHANGED pool
  PROVE  L!Discard(t)
<1>1. /\ Stage(r)' = "gone"
      /\ \A q \in Region \ {r} : Stage(q)' = Stage(q)
  BY DEF PoolInv, TypeOK, CloseRegion, Stage
<1>2. [q \in Region |-> Stage(q)]' = [[q \in Region |-> Stage(q)] EXCEPT ![r] = "gone"]
  BY <1>1, OneRegionMoves
<1> QED
  BY <1>2 DEF L!Discard, L!GiveUp

(* Every step of the pool is a step of the lease or leaves it alone.       *)
LEMMA StepIsLease == PoolInv /\ [Next]_vars => [L!Next]_<<[r \in Region |-> Stage(r)], held>>
<1> SUFFICES ASSUME PoolInv, [Next]_vars
             PROVE  [L!Next]_<<[r \in Region |-> Stage(r)], held>>
  OBVIOUS
<1> DEFINE stages == [r \in Region |-> Stage(r)]
<1>1. ASSUME UNCHANGED <<pool, state, held>> PROVE UNCHANGED <<stages, held>>
  BY <1>1 DEF Stage
<1>2. ASSUME NEW t \in Thread, NEW r \in Region, AcquireTake(t, r) PROVE L!Next
  <2>1. held[t] = NoRegion /\ Stage(r) = "spare" /\ Stage(r)' = "leased"
    BY <1>2 DEF PoolInv, TypeOK, HoldsWhenSaid, OwnedIsOpen, AcquireTake, Stage
  <2>2. \A q \in Region \ {r} : Stage(q)' = Stage(q)
    BY <1>2 DEF AcquireTake, Stage
  <2>3. stages' = [stages EXCEPT ![r] = "leased"] /\ held' = [held EXCEPT ![t] = r]
    BY <1>2, <2>1, <2>2, OneRegionMoves DEF AcquireTake
  <2> QED
    BY <2>1, <2>3 DEF L!Next, L!Borrow, L!Obtain
<1>3. ASSUME NEW t \in Thread, NEW r \in Region, AcquireNew(t, r) \/ RegisterForeign(t, r)
      PROVE  L!Next
  <2>1. held[t] = NoRegion /\ RegisterMemory(t, r)
    BY <1>3 DEF PoolInv, TypeOK, HoldsWhenSaid, AcquireNew, RegisterForeign
  <2> QED
    BY <2>1, RegisterIsLease DEF L!Next
<1>4. ASSUME NEW t \in Thread, ReleaseClose(t) \/ ReleaseFull(t) PROVE L!Next
  <2>1. PICK r \in Region : held[t] = r
    BY <1>4, StageOfRegion DEF PoolInv, HoldsWhenSaid, ReleaseClose, ReleaseFull
  <2>2. L!Discard(t)
    BY <1>4, <2>1, CloseHeldIsDiscard DEF ReleaseClose, ReleaseFull
  <2> QED
    BY <2>2 DEF L!Next
<1>5. ASSUME NEW t \in Thread, ReleasePut(t) PROVE L!Next
  <2>1. PICK r \in Region \ Foreign : held[t] = r
    BY <1>5, StageOfRegion DEF PoolInv, HoldsWhenSaid, ReleasePut
  <2>2. Stage(r)' = "spare" /\ \A q \in Region \ {r} : Stage(q)' = Stage(q)
    BY <1>5, <2>1 DEF PoolInv, HoldsWhenSaid, OwnedIsOpen, ReleasePut, Stage
  <2>3. stages' = [stages EXCEPT ![r] = "spare"] /\ held' = [held EXCEPT ![t] = NoRegion]
    BY <1>5, <2>1, <2>2, OneRegionMoves DEF ReleasePut
  <2>4. Cardinality(L!Spares) < Capacity
    BY <1>5, StageOfRegion DEF ReleasePut
  <2>5. L!GiveUp(t, "spare")
    BY <2>1, <2>3 DEF L!GiveUp
  <2>6. L!Return(t)
    BY <2>1, <2>4, <2>5 DEF L!Return, L!Cardinality, Cardinality
  <2> QED
    BY <2>6 DEF L!Next
<1>6. ASSUME NEW r \in Region, CloseDrain(r) PROVE L!Next
  <2>1. Stage(r) = "spare" /\ Stage(r)' = "gone"
    BY <1>6 DEF PoolInv, TypeOK, OwnedIsOpen, CloseDrain, CloseRegion, Stage
  <2>2. \A q \in Region \ {r} : Stage(q)' = Stage(q)
    BY <1>6 DEF PoolInv, TypeOK, CloseDrain, CloseRegion, Stage
  <2>3. stages' = [stages EXCEPT ![r] = "gone"] /\ UNCHANGED held
    BY <1>6, <2>1, <2>2, OneRegionMoves DEF CloseDrain
  <2> QED
    BY <2>1, <2>3 DEF L!Next, L!Drop
<1> HIDE DEF stages
<1>7. \/ L!Next
      \/ UNCHANGED <<pool, state, held>>
  BY <1>2, <1>3, <1>4, <1>5, <1>6
  DEF Next, Acquire, Release, Close, vars, AcquireCheck, AcquireFail, ReleaseCheck, CloseSwap, CloseReturn
<1> QED
  BY <1>1, <1>7 DEF stages

(* The channel of fi/memory_pool.go, the flag and the steps of Acquire,    *)
(* Release and Close implement the lease, for any number of goroutines.    *)
THEOREM PoolImplementsLease == Spec => ImplementsLease
<1>1. Init => L!Init
  BY DEF Init, L!Init, Stage
<1> QED
  BY <1>1, StepIsLease, PoolCorrect, PTL DEF Spec, ImplementsLease, L!Spec
=============================================================================
