------------------------------ MODULE Delivery ------------------------------
(***************************************************************************)
(* What the completion path promises for each posted operation: its        *)
(* context is registered before the provider has the operation, stays so   *)
(* until somebody has read the completion, and is then released, once.     *)
(* Package fi implements it with pointers, a registry and a swap (Context);*)
(* the dispatcher of package client (Client) and the blocking helpers      *)
(* (SyncWait) rely on it for the contexts of their operations.             *)
(***************************************************************************)
CONSTANT Op  \* operations

VARIABLES
  progress,  \* how far the operation is with the provider
  context    \* its completion context

vars == <<progress, context>>

TypeOK ==
  /\ progress \in [Op -> {"unposted", "posted", "reported", "read"}]
  /\ context \in [Op -> {"none", "registered", "released"}]

Init ==
  /\ progress = [o \in Op |-> "unposted"]
  /\ context = [o \in Op |-> "none"]

Advance(o, p) == progress' = [progress EXCEPT ![o] = p]
Turn(o, c) == context' = [context EXCEPT ![o] = c]

\* A context is made for the operation.
Register(o) ==
  /\ progress[o] = "unposted" /\ context[o] = "none"
  /\ Turn(o, "registered") /\ UNCHANGED progress

\* The post fails.
Withdraw(o) ==
  /\ progress[o] = "unposted" /\ context[o] = "registered"
  /\ Turn(o, "released") /\ UNCHANGED progress

\* The provider takes the operation, which may have been through before.
Submit(o) ==
  /\ \/ progress[o] = "unposted" /\ context[o] \in {"none", "registered"}
     \/ progress[o] = "read" /\ context[o] = "released"
  /\ Advance(o, "posted") /\ Turn(o, "registered")

\* The provider puts a completion or an error entry into the queue.
Report(o) ==
  /\ progress[o] = "posted"
  /\ Advance(o, "reported") /\ UNCHANGED context

\* Somebody takes the entry out of the queue.
Read(o) ==
  /\ progress[o] = "reported"
  /\ Advance(o, "read") /\ UNCHANGED context

\* Whoever read it resolves and releases the context.
Resolve(o) ==
  /\ progress[o] = "read" /\ context[o] = "registered"
  /\ Turn(o, "released") /\ UNCHANGED progress

Next == \E o \in Op :
  Register(o) \/ Withdraw(o) \/ Submit(o) \/ Report(o) \/ Read(o) \/ Resolve(o)

Spec == Init /\ [][Next]_vars

(* While the provider or the queue has an operation, its context is        *)
(* registered: the pointer that comes back with the completion leads to it.*)
Reachable ==
  /\ TypeOK
  /\ \A o \in Op : progress[o] \in {"posted", "reported"} => context[o] = "registered"

(* A context that is released was withdrawn before the provider had the    *)
(* operation or resolved after its completion was read, and only a new     *)
(* post of the operation brings one back.                                  *)
OneRelease ==
  [][\A o \in Op :
       /\ context[o] # "released" /\ context'[o] = "released"
            => progress[o] \in {"unposted", "read"} /\ progress'[o] = progress[o]
       /\ context[o] = "released" /\ context'[o] # "released"
            => progress[o] = "read" /\ progress'[o] = "posted"]_vars
=============================================================================
