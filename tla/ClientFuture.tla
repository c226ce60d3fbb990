---------------------------- MODULE ClientFuture ----------------------------
(***************************************************************************)
(* The client of module Client implements the futures of module Future,    *)
(* and leases the memory of its operations as module Lease says.           *)
(* A caller sees the result of an operation through its done channel, so   *)
(* the record that complete fills in becomes visible when comp is "done".  *)
(***************************************************************************)
EXTENDS Client

\* The caller of o has nothing yet: its call is still before the post.
BeforePost(o) == pc[o] \in {"idle", "open", "prepare", "acquire", "ready", "undo"}

Observed(o) ==
  IF pc[o] = "failed" THEN "refused"
  ELSE IF BeforePost(o) THEN "none"
  ELSE IF comp[o] = "done" THEN res[o] ELSE "open"

F == INSTANCE Future WITH future <- [o \in Op |-> Observed(o)]

(* Every behaviour of the client is one of the abstract futures: a call is *)
(* refused or accepted, never both, an accepted operation resolves at most *)
(* once, and what Await returned does not change (sendAsync, ReceiveAsync, *)
(* operation.complete, Await).                                             *)
ImplementsFuture == F!Spec

\* A region as the operations see it.
Stage(r) ==
  CASE region[r] = "fresh"  -> "unregistered"
    [] region[r] = "held"   -> "leased"
    [] region[r] = "pooled" -> "spare"
    [] region[r] = "closed" -> "gone"

L == INSTANCE Lease WITH User <- Op, Fits <- Region, Capacity <- PoolCapacity,
                         stage <- [r \in Region |-> Stage(r)], uses <- mem

(* The client leases registered memory to its operations: a region is      *)
(* obtained by one call, stays leased to that operation while the caller,  *)
(* the provider, the dispatcher and Close take their turns, and is         *)
(* returned to the pool or closed once, by whoever runs release.           *)
ImplementsLease == L!Spec

\* An operation and its context as the completion path sees them.
Progress(o) ==
  CASE prov[o] = "none"                      -> "unposted"
    [] prov[o] = "pending"                   -> "posted"
    [] prov[o] \in {"event", "error"}        -> "reported"
    [] prov[o] \in {"readEvent", "readError"} -> "read"

Standing(o) ==
  IF ctx[o] = "registered" THEN "registered"
  ELSE IF prov[o] = "none" THEN "none" ELSE "released"

D == INSTANCE Delivery WITH progress <- [o \in Op |-> Progress(o)],
                            context <- [o \in Op |-> Standing(o)]

(* The client uses completion contexts as module Delivery says: the        *)
(* dispatcher resolves the context of every completion it reads, once, and *)
(* neither a failed post nor Close releases one the provider still has.    *)
ImplementsDelivery == D!Spec
=============================================================================
