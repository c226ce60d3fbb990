------------------------------- MODULE MRPool -------------------------------
(***************************************************************************)
(* The pool of registered memory regions of package fi (fi/memory_pool.go) *)
(* as goroutines use it: a buffered channel of regions and an atomic       *)
(* closed flag.  Acquire and Release first load the flag and then touch    *)
(* the channel, and Close swaps the flag and then drains the channel, so   *)
(* each of them is two atomic steps here and other goroutines run between  *)
(* the two.                                                                *)
(*                                                                         *)
(* The channel is the set of the regions in it: the order in which regions *)
(* come out is never observed by a caller.                                 *)
(***************************************************************************)
EXTENDS Naturals, FiniteSets

CONSTANTS
  Thread,    \* goroutines that acquire and release regions
  Region,    \* every MemoryRegion that may be registered in a behaviour
  Foreign,   \* the regions of another size, registered by callers themselves
  Capacity,  \* capacity of the channel
  NoRegion   \* a nil *MemoryRegion

ASSUME PoolAssumption ==
  /\ IsFiniteSet(Region)
  /\ Foreign \subseteq Region
  /\ Capacity \in Nat
  /\ NoRegion \notin Region

VARIABLES
  closed,    \* MRPool.closed
  closer,    \* progress of the call of Close that won the swap
  pool,      \* the regions in the channel MRPool.pool
  state,     \* life of each region: "fresh", "open", "closed", "abandoned"
  pc,        \* where each goroutine is
  held       \* the region each goroutine holds

vars == <<closed, closer, pool, state, pc, held>>

TypeOK ==
  /\ closed \in BOOLEAN
  /\ closer \in {"idle", "draining", "done"}
  /\ pool \subseteq Region
  /\ state \in [Region -> {"fresh", "open", "closed", "abandoned"}]
  /\ pc \in [Thread -> {"idle", "acquire", "holding", "put"}]
  /\ held \in [Thread -> Region \cup {NoRegion}]

Init ==
  /\ closed = FALSE
  /\ closer = "idle"
  /\ pool = {}
  /\ state = [r \in Region |-> "fresh"]
  /\ pc = [t \in Thread |-> "idle"]
  /\ held = [t \in Thread |-> NoRegion]

-----------------------------------------------------------------------------
(* MemoryRegion.Close deregisters the region.  When the provider refuses,  *)
(* every caller here ignores the error and drops the pointer: the region   *)
(* stays registered and nobody can reach it any more.                      *)
CloseRegion(r) ==
  \E s \in {"closed", "abandoned"} : state' = [state EXCEPT ![r] = s]

(* Acquire, first half: the load of closed.  On a closed pool the call     *)
(* returns an error and changes nothing.                                   *)
AcquireCheck(t) ==
  /\ pc[t] = "idle"
  /\ ~closed
  /\ pc' = [pc EXCEPT ![t] = "acquire"]
  /\ UNCHANGED <<closed, closer, pool, state, held>>

(* Acquire, second half: a region waiting in the channel is taken.         *)
AcquireTake(t, r) ==
  /\ pc[t] = "acquire"
  /\ r \in pool
  /\ pool' = pool \ {r}
  /\ held' = [held EXCEPT ![t] = r]
  /\ pc' = [pc EXCEPT ![t] = "holding"]
  /\ UNCHANGED <<closed, closer, state>>

(* RegisterMemory succeeds for a new region r.                             *)
RegisterMemory(t, r) ==
  /\ state[r] = "fresh"
  /\ state' = [state EXCEPT ![r] = "open"]
  /\ held' = [held EXCEPT ![t] = r]
  /\ pc' = [pc EXCEPT ![t] = "holding"]
  /\ UNCHANGED <<closed, closer, pool>>

(* Acquire, second half: the channel is empty and a region is provisioned. *)
AcquireNew(t, r) ==
  /\ pc[t] = "acquire"
  /\ pool = {}
  /\ r \notin Foreign
  /\ RegisterMemory(t, r)

(* Acquire, second half: the channel is empty and registration fails.      *)
AcquireFail(t) ==
  /\ pc[t] = "acquire"
  /\ pool = {}
  /\ pc' = [pc EXCEPT ![t] = "idle"]
  /\ UNCHANGED <<closed, closer, pool, state, held>>

(* A caller registers a region of another size by itself.                  *)
RegisterForeign(t, r) ==
  /\ pc[t] = "idle"
  /\ r \in Foreign
  /\ RegisterMemory(t, r)

(* Release, the early return: the pool is closed or the size differs, and  *)
(* the region is closed.                                                   *)
ReleaseClose(t) ==
  /\ pc[t] = "holding"
  /\ closed \/ held[t] \in Foreign
  /\ CloseRegion(held[t])
  /\ held' = [held EXCEPT ![t] = NoRegion]
  /\ pc' = [pc EXCEPT ![t] = "idle"]
  /\ UNCHANGED <<closed, closer, pool>>

\* Mutant: Release does not compare the sizes.
ReleaseCheck_AnySize(t) ==
  /\ pc[t] = "holding"
  /\ ~closed
  /\ pc' = [pc EXCEPT ![t] = "put"]
  /\ UNCHANGED <<closed, closer, pool, state, held>>

\* Mutant: Release does not look at closed.
ReleaseCheck_Late(t) ==
  /\ pc[t] = "holding"
  /\ held[t] \notin Foreign
  /\ pc' = [pc EXCEPT ![t] = "put"]
  /\ UNCHANGED <<closed, closer, pool, state, held>>

(* Release, first half: the checks pass.                                   *)
ReleaseCheck(t) ==
  /\ pc[t] = "holding"
  /\ ~closed
  /\ held[t] \notin Foreign
  /\ pc' = [pc EXCEPT ![t] = "put"]
  /\ UNCHANGED <<closed, closer, pool, state, held>>

(* Release, second half: the region enters the channel when there is room. *)
ReleasePut(t) ==
  /\ pc[t] = "put"
  /\ Cardinality(pool) < Capacity
  /\ pool' = pool \cup {held[t]}
  /\ held' = [held EXCEPT ![t] = NoRegion]
  /\ pc' = [pc EXCEPT ![t] = "idle"]
  /\ UNCHANGED <<closed, closer, state>>

\* Mutant: a full channel swallows the region, which stays registered.
ReleaseFull_Forgets(t) ==
  /\ pc[t] = "put"
  /\ Cardinality(pool) >= Capacity
  /\ held' = [held EXCEPT ![t] = NoRegion]
  /\ pc' = [pc EXCEPT ![t] = "idle"]
  /\ UNCHANGED <<closed, closer, pool, state>>

(* Release, second half: the channel is full and the region is closed.     *)
ReleaseFull(t) ==
  /\ pc[t] = "put"
  /\ Cardinality(pool) >= Capacity
  /\ CloseRegion(held[t])
  /\ held' = [held EXCEPT ![t] = NoRegion]
  /\ pc' = [pc EXCEPT ![t] = "idle"]
  /\ UNCHANGED <<closed, closer, pool>>

(* Close: the compare-and-swap; a later call of Close returns at once.     *)
CloseSwap ==
  /\ ~closed
  /\ closed' = TRUE
  /\ closer' = "draining"
  /\ UNCHANGED <<pool, state, pc, held>>

(* Close: one turn of the loop takes a region and closes it.               *)
CloseDrain(r) ==
  /\ closer = "draining"
  /\ r \in pool
  /\ pool' = pool \ {r}
  /\ CloseRegion(r)
  /\ UNCHANGED <<closed, closer, pc, held>>

\* Mutant: the loop of Close receives without a default branch.
CloseReturn_Blocks ==
  /\ closer = "draining"
  /\ pool # {}
  /\ closer' = "done"
  /\ UNCHANGED <<closed, pool, state, pc, held>>

(* Close: the channel is found empty and Close returns.                    *)
CloseReturn ==
  /\ closer = "draining"
  /\ pool = {}
  /\ closer' = "done"
  /\ UNCHANGED <<closed, pool, state, pc, held>>

-----------------------------------------------------------------------------
Acquire(t) ==
  \/ AcquireCheck(t)
  \/ \E r \in Region : AcquireTake(t, r) \/ AcquireNew(t, r)
  \/ AcquireFail(t)

Release(t) ==
  \/ ReleaseClose(t)
  \/ ReleaseCheck(t)
  \/ ReleasePut(t)
  \/ ReleaseFull(t)

Close ==
  \/ CloseSwap
  \/ \E r \in Region : CloseDrain(r)
  \/ CloseReturn

Next ==
  \/ \E t \in Thread : Acquire(t) \/ Release(t)
  \/ \E t \in Thread, r \in Region : RegisterForeign(t, r)
  \/ Close

Spec == Init /\ [][Next]_vars

(* A goroutine inside Acquire, Release or Close keeps running: none of the *)
(* three blocks.  Nobody is forced to call one of them.                    *)
Fairness ==
  /\ \A t \in Thread : WF_vars(pc[t] \in {"acquire", "put"} /\ (Acquire(t) \/ Release(t)))
  /\ WF_vars(closed /\ Close)

FairSpec == Spec /\ Fairness

-----------------------------------------------------------------------------
(* A region has one owner: no two goroutines hold it and it is not in the  *)
(* channel while somebody holds it (Acquire hands out what it received,    *)
(* Release gives up what it sends).  Two owners would give two operations  *)
(* the same buffer.                                                        *)
OneOwner ==
  /\ \A t, u \in Thread : t # u /\ held[t] # NoRegion => held[t] # held[u]
  /\ \A t \in Thread : held[t] \notin pool

(* What is held or pooled is still registered: no goroutine and no Close   *)
(* deregisters a region that another goroutine was given or will be given. *)
OwnedIsOpen ==
  /\ \A t \in Thread : held[t] # NoRegion => state[held[t]] = "open"
  /\ \A r \in pool : state[r] = "open"

\* The channel keeps to its capacity and to regions of the pool's size.
PoolBounded ==
  /\ Cardinality(pool) <= Capacity
  /\ pool \cap Foreign = {}

\* A region as its users see it: leased while somebody has it, a spare while
\* it waits in the channel, gone once Close was called on it, also if that
\* failed and left it registered.
Stage(r) ==
  CASE state[r] = "fresh"                  -> "unregistered"
    [] state[r] = "open" /\ r \in pool     -> "spare"
    [] state[r] = "open" /\ r \notin pool  -> "leased"
    [] state[r] \in {"closed", "abandoned"} -> "gone"

L == INSTANCE Lease WITH User <- Thread, Fits <- Region \ Foreign,
                         stage <- [r \in Region |-> Stage(r)], uses <- held

(* The pool leases regions: each step of Acquire, Release and Close, taken *)
(* in any interleaving, is a step of one region's life.  No region is held *)
(* by two goroutines, a Release puts its region into the channel or closes *)
(* it, the channel never exceeds its capacity and holds no region of       *)
(* another size.  This does not say that every region is deregistered in   *)
(* the end: one whose deregistration failed ("abandoned") is gone for the  *)
(* pool although still registered, and one sent after the drain of Close   *)
(* stays a spare of the closed pool for ever.                              *)
ImplementsLease == L!Spec

(* Close comes to an end although goroutines that loaded closed before the *)
(* swap still send regions into the channel it drains.                     *)
CloseTerminates == closed ~> (closer = "done")

\* The regions in the channel and those on their way into it.
Sendable == pool \cup {held[t] : t \in {u \in Thread : pc[u] = "put"}}

(* Behind CloseTerminates: once the pool is closed, what Close may have to *)
(* drain only shrinks, whatever goroutines with a stale check of closed    *)
(* still send, and every turn of its loop shrinks it.                      *)
DrainBounded ==
  [][closed => /\ Sendable' \subseteq Sendable
               /\ \A r \in Region : CloseDrain(r) => r \notin Sendable']_vars

(* A goroutine holds a region exactly while it is between the return of    *)
(* Acquire and the end of Release, and it only sends regions that passed   *)
(* the size test of Release.                                               *)
HoldsWhenSaid ==
  /\ \A t \in Thread : pc[t] \in {"holding", "put"} <=> held[t] # NoRegion
  /\ \A t \in Thread : pc[t] = "put" => held[t] \notin Foreign

(* The inductive invariant behind the theorems of MRPoolProofs.            *)
PoolInv ==
  /\ TypeOK
  /\ OneOwner
  /\ OwnedIsOpen
  /\ PoolBounded
  /\ HoldsWhenSaid
=============================================================================
