------------------------------- MODULE Lease --------------------------------
(***************************************************************************)
(* What a pool of registered memory promises to those who take regions     *)
(* from it: a region is registered once, leased to one user at a time, and *)
(* kept as a spare between two leases if it fits and there is room.  What  *)
(* is gone is never leased again; it is not promised that a spare goes, or *)
(* that the provider has deregistered what is gone.  Package fi implements *)
(* it with a channel (MRPool), and so does package client with the regions *)
(* of its operations (Client).                                             *)
(***************************************************************************)
EXTENDS Naturals, FiniteSets

CONSTANTS
  User,      \* those who hold regions
  Region,    \* the regions
  Fits,      \* the regions of the size the pool keeps
  Capacity,  \* how many spares are kept
  NoRegion   \* no region

VARIABLES
  stage,     \* where each region is in its life
  uses       \* the region each user has

TypeOK ==
  /\ stage \in [Region -> {"unregistered", "leased", "spare", "gone"}]
  /\ uses \in [User -> Region \cup {NoRegion}]

Spares == {r \in Region : stage[r] = "spare"}

Init ==
  /\ stage = [r \in Region |-> "unregistered"]
  /\ uses = [u \in User |-> NoRegion]

\* The user gets a region that is in stage s.
Obtain(u, r, s) ==
  /\ uses[u] = NoRegion /\ stage[r] = s
  /\ uses' = [uses EXCEPT ![u] = r]
  /\ stage' = [stage EXCEPT ![r] = "leased"]

Register(u, r) == Obtain(u, r, "unregistered")

Borrow(u, r) == Obtain(u, r, "spare")

\* The user gives its region up, to stage s.
GiveUp(u, s) ==
  /\ uses[u] \in Region
  /\ stage' = [stage EXCEPT ![uses[u]] = s]
  /\ uses' = [uses EXCEPT ![u] = NoRegion]

Return(u) == uses[u] \in Fits /\ Cardinality(Spares) < Capacity /\ GiveUp(u, "spare")

Discard(u) == GiveUp(u, "gone")

\* The pool takes a spare out and closes it.
Drop(r) ==
  /\ stage[r] = "spare"
  /\ stage' = [stage EXCEPT ![r] = "gone"]
  /\ UNCHANGED uses

Next ==
  \/ \E u \in User : Return(u) \/ Discard(u)
  \/ \E u \in User, r \in Region : Register(u, r) \/ Borrow(u, r)
  \/ \E r \in Region : Drop(r)

Spec == Init /\ [][Next]_<<stage, uses>>

(* A region is leased exactly while somebody has it, and nobody shares it: *)
(* what Acquire of a pool promises to its caller.                          *)
Exclusive ==
  /\ TypeOK
  /\ \A r \in Region : stage[r] = "leased" <=> \E u \in User : uses[u] = r
  /\ \A u, v \in User : uses[u] = uses[v] /\ uses[u] # NoRegion => u = v

(* The pool keeps only regions of its size, and not more than it has room  *)
(* for: what the channel of MRPool is made for.                            *)
SparesFit == Spares \subseteq Fits /\ Cardinality(Spares) <= Capacity

(* A region is registered once, and one the pool gave up never comes back. *)
OneLife ==
  [][\A r \in Region :
       /\ stage[r] = "gone" => stage'[r] = "gone"
       /\ stage[r] # "unregistered" => stage'[r] # "unregistered"]_<<stage, uses>>
=============================================================================
