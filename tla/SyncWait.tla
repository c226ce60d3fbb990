------------------------------ MODULE SyncWait ------------------------------
(***************************************************************************)
(* The blocking helpers of package fi (SendSync, RecvSync, ReadSync, ...):  *)
(* each posts one operation and then polls a completion queue in           *)
(* waitForCompletion (fi/wait.go) until its own context comes out.  Several *)
(* calls share a queue, and operations that nobody waits for are posted on *)
(* it too; whoever reads a completion resolves its context, whosever it is.*)
(*                                                                         *)
(* Operations and their contexts are one: an element of Call is a blocking *)
(* call and what it posted, an element of Background is an operation that  *)
(* is posted again and again and whose poster does not read the queue.     *)
(*                                                                         *)
(* The queue may be closed under its users.  That evt.Resolve finds no     *)
(* context (ErrContextUnknown) has no action: the contexts of all entries  *)
(* are registered until they are resolved (ContextInv, OneResolver).       *)
(***************************************************************************)
CONSTANTS
  Call,        \* calls of the blocking helpers
  Background,  \* operations whose poster does not wait
  NoOp,        \* no operation
  MayFail      \* whether operations may fail

ASSUME SyncAssumption ==
  /\ NoOp \notin Call \cup Background
  /\ Call \cap Background = {}
  /\ MayFail \in BOOLEAN

Op == Call \cup Background

VARIABLES
  pc,         \* where each call is
  mode,       \* its timeout: zero "poll", positive "bounded", negative "forever"
  expired,    \* its deadline has passed
  cancelled,  \* its context.Context is done
  result,     \* what it returned
  hand,       \* the operation whose completion it has read and not yet resolved
  prov,       \* what the provider did with each operation
  ctx,        \* whether each CompletionContext is registered
  reader,     \* the call that read the completion of each operation
  open        \* the handle of the queue is not nil

vars == <<pc, mode, expired, cancelled, result, hand, prov, ctx, reader, open>>

TypeOK ==
  /\ pc \in [Call -> {"idle", "top", "read", "sleep", "resolve", "returned"}]
  /\ mode \in [Call -> {"poll", "bounded", "forever"}]
  /\ expired \in [Call -> BOOLEAN]
  /\ cancelled \in [Call -> BOOLEAN]
  /\ result \in [Call -> {"none", "refused", "ok", "timeout", "cancelled", "error"}]
  /\ hand \in [Call -> Op \cup {NoOp}]
  /\ prov \in [Op -> {"none", "injected", "pending", "event", "error", "read"}]
  /\ ctx \in [Op -> {"absent", "registered", "released"}]
  /\ reader \in [Op -> Call \cup {NoOp}]
  /\ open \in BOOLEAN

Init ==
  /\ pc = [c \in Call |-> "idle"]
  /\ mode = [c \in Call |-> "forever"]
  /\ expired = [c \in Call |-> FALSE]
  /\ cancelled = [c \in Call |-> FALSE]
  /\ result = [c \in Call |-> "none"]
  /\ hand = [c \in Call |-> NoOp]
  /\ prov = [o \in Op |-> "none"]
  /\ ctx = [o \in Op |-> "absent"]
  /\ reader = [o \in Op |-> NoOp]
  /\ open = TRUE

-----------------------------------------------------------------------------
Return(c, r) ==
  /\ pc' = [pc EXCEPT ![c] = "returned"]
  /\ result' = [result EXCEPT ![c] = r]

\* A context is registered and the provider accepts operation o.
Posted(o) ==
  /\ prov' = [prov EXCEPT ![o] = "pending"]
  /\ ctx' = [ctx EXCEPT ![o] = "registered"]
  /\ reader' = [reader EXCEPT ![o] = NoOp]

\* The call posts its operation and starts to poll.
Post(c, m) ==
  /\ pc[c] = "idle" /\ open
  /\ mode' = [mode EXCEPT ![c] = m]
  /\ pc' = [pc EXCEPT ![c] = "top"]
  /\ Posted(c)
  /\ UNCHANGED <<expired, cancelled, result, hand, open>>

\* The call posts its operation, and only then finds the queue closed.
PostNoQueue(c) ==
  /\ pc[c] = "idle" /\ ~open
  /\ Posted(c)
  /\ Return(c, "error")
  /\ UNCHANGED <<mode, expired, cancelled, hand, open>>

\* SendSync of a payload that was injected: there is no context to wait for.
PostInject(c) ==
  /\ pc[c] = "idle"
  /\ prov' = [prov EXCEPT ![c] = "injected"]
  /\ Return(c, "ok")
  /\ UNCHANGED <<mode, expired, cancelled, hand, ctx, reader, open>>

\* The post fails and its context is released.
PostFails(c) ==
  /\ pc[c] = "idle"
  /\ Return(c, "refused")
  /\ UNCHANGED <<mode, expired, cancelled, hand, prov, ctx, reader, open>>

\* Somebody else posts an operation on an endpoint bound to the queue.
PostBackground(b) ==
  /\ prov[b] \in {"none", "read"}
  /\ ctx[b] # "registered"
  /\ Posted(b)
  /\ UNCHANGED <<pc, mode, expired, cancelled, result, hand, open>>

\* Somebody closes the queue.
CloseQueue ==
  /\ open
  /\ open' = FALSE
  /\ UNCHANGED <<pc, mode, expired, cancelled, result, hand, prov, ctx, reader>>

-----------------------------------------------------------------------------
\* The provider reports operation o, by a completion or by an error entry.
\* The order in which the entries of the queue come out is left open.
Deliver(o) ==
  /\ prov[o] = "pending"
  /\ prov' = [prov EXCEPT ![o] = "event"]
  /\ UNCHANGED <<pc, mode, expired, cancelled, result, hand, ctx, reader, open>>

DeliverError(o) ==
  /\ MayFail
  /\ prov[o] = "pending"
  /\ prov' = [prov EXCEPT ![o] = "error"]
  /\ UNCHANGED <<pc, mode, expired, cancelled, result, hand, ctx, reader, open>>

ErrorWaits == \E o \in Op : prov[o] = "error"
EventWaits == \E o \in Op : prov[o] = "event"

\* The deadline of a positive timeout passes.
Expire(c) ==
  /\ pc[c] \notin {"idle", "returned"}
  /\ mode[c] = "bounded" /\ ~expired[c]
  /\ expired' = [expired EXCEPT ![c] = TRUE]
  /\ UNCHANGED <<pc, mode, cancelled, result, hand, prov, ctx, reader, open>>

\* The caller's context.Context is cancelled.
Cancel(c) ==
  /\ pc[c] \notin {"idle", "returned"}
  /\ ~cancelled[c]
  /\ cancelled' = [cancelled EXCEPT ![c] = TRUE]
  /\ UNCHANGED <<pc, mode, expired, result, hand, prov, ctx, reader, open>>

-----------------------------------------------------------------------------
(* waitForCompletion.                                                      *)

\* The select at the top of the loop.
CheckCancelled(c) ==
  /\ pc[c] = "top"
  /\ IF cancelled[c]
     THEN Return(c, "cancelled")
     ELSE pc' = [pc EXCEPT ![c] = "read"] /\ UNCHANGED result
  /\ UNCHANGED <<mode, expired, cancelled, hand, prov, ctx, reader, open>>

\* Mutant: the completion is looked at and stays in the queue.
ReadEvent_Peeks(c, o) ==
  /\ pc[c] = "read" /\ open
  /\ prov[o] = "event"
  /\ reader' = [reader EXCEPT ![o] = c]
  /\ hand' = [hand EXCEPT ![c] = o]
  /\ pc' = [pc EXCEPT ![c] = "resolve"]
  /\ UNCHANGED <<mode, expired, cancelled, result, prov, ctx, open>>

\* cq.ReadContext returns the completion of o.
ReadEvent(c, o) ==
  /\ pc[c] = "read" /\ open
  /\ prov[o] = "event"
  /\ prov' = [prov EXCEPT ![o] = "read"]
  /\ reader' = [reader EXCEPT ![o] = c]
  /\ hand' = [hand EXCEPT ![c] = o]
  /\ pc' = [pc EXCEPT ![c] = "resolve"]
  /\ UNCHANGED <<mode, expired, cancelled, result, ctx, open>>

\* cq.ReadContext meets an error entry or a nil handle: the call returns the
\* error of the read, and the entry stays where it is.
ReadFails(c) ==
  /\ pc[c] = "read"
  /\ ErrorWaits \/ ~open
  /\ Return(c, "error")
  /\ UNCHANGED <<mode, expired, cancelled, hand, prov, ctx, reader, open>>

TimedOut(c) == mode[c] = "poll" \/ (mode[c] = "bounded" /\ expired[c])

\* Mutant: the deadline of a positive timeout is never compared.
ReadEmpty_NoDeadline(c) ==
  /\ pc[c] = "read" /\ open
  /\ ~EventWaits /\ ~ErrorWaits
  /\ IF mode[c] = "poll"
     THEN Return(c, "timeout")
     ELSE pc' = [pc EXCEPT ![c] = "sleep"] /\ UNCHANGED result
  /\ UNCHANGED <<mode, expired, cancelled, hand, prov, ctx, reader, open>>

\* Mutant: a call that gives up releases the context it posted with.
ReadEmpty_Releases(c) ==
  /\ pc[c] = "read" /\ open
  /\ ~EventWaits /\ ~ErrorWaits
  /\ TimedOut(c)
  /\ Return(c, "timeout")
  /\ ctx' = [ctx EXCEPT ![c] = "released"]
  /\ UNCHANGED <<mode, expired, cancelled, hand, prov, reader, open>>

\* The queue is empty: only now the timeout is looked at.
ReadEmpty(c) ==
  /\ pc[c] = "read" /\ open
  /\ ~EventWaits /\ ~ErrorWaits
  /\ IF TimedOut(c)
     THEN Return(c, "timeout")
     ELSE pc' = [pc EXCEPT ![c] = "sleep"] /\ UNCHANGED result
  /\ UNCHANGED <<mode, expired, cancelled, hand, prov, ctx, reader, open>>

\* time.Sleep returns.
Wake(c) ==
  /\ pc[c] = "sleep"
  /\ pc' = [pc EXCEPT ![c] = "top"]
  /\ UNCHANGED <<mode, expired, cancelled, result, hand, prov, ctx, reader, open>>

\* Mutant: any completion ends the wait.
Resolve_AnyContext(c) ==
  /\ pc[c] = "resolve"
  /\ ctx' = [ctx EXCEPT ![hand[c]] = "released"]
  /\ hand' = [hand EXCEPT ![c] = NoOp]
  /\ Return(c, "ok")
  /\ UNCHANGED <<mode, expired, cancelled, prov, reader, open>>

\* evt.Resolve removes and releases the context.  When it is the target the
\* call returns, otherwise the completion is gone and the call polls on.
Resolve(c) ==
  /\ pc[c] = "resolve"
  /\ ctx' = [ctx EXCEPT ![hand[c]] = "released"]
  /\ hand' = [hand EXCEPT ![c] = NoOp]
  /\ IF hand[c] = c
     THEN Return(c, "ok")
     ELSE pc' = [pc EXCEPT ![c] = "top"] /\ UNCHANGED result
  /\ UNCHANGED <<mode, expired, cancelled, prov, reader, open>>

-----------------------------------------------------------------------------
Wait(c) ==
  \/ CheckCancelled(c)
  \/ \E o \in Op : ReadEvent(c, o)
  \/ ReadFails(c)
  \/ ReadEmpty(c)
  \/ Wake(c)
  \/ Resolve(c)

Next ==
  \/ \E c \in Call, m \in {"poll", "bounded", "forever"} : Post(c, m)
  \/ \E c \in Call : PostNoQueue(c) \/ PostInject(c) \/ PostFails(c) \/ Expire(c) \/ Cancel(c) \/ Wait(c)
  \/ \E b \in Background : PostBackground(b)
  \/ CloseQueue
  \/ \E o \in Op : Deliver(o) \/ DeliverError(o)

Spec == Init /\ [][Next]_vars

(* A waiting goroutine is scheduled and time passes.  The provider need    *)
(* not complete anything and nobody need cancel.                           *)
Fairness == \A c \in Call : WF_vars(Wait(c)) /\ WF_vars(Expire(c))

FairSpec == Spec /\ Fairness

-----------------------------------------------------------------------------
\* The call is between its post and its return.
Waiting(c) == pc[c] \notin {"idle", "returned"}

(* A blocking call reports success exactly when its operation succeeded    *)
(* and it read the completion itself, whatever other completions it        *)
(* consumed on the way (the comparison with target).                       *)
OwnVerdict ==
  \A c \in Call : pc[c] = "returned" =>
    (result[c] = "ok" <=> prov[c] = "injected" \/ (prov[c] = "read" /\ reader[c] = c))

(* A context stays registered, its C allocation alive, until its           *)
(* completion has been read: a call that timed out, was cancelled, met     *)
(* another operation's error or found the queue closed leaves it to the    *)
(* provider.                                                               *)
ContextWhilePending ==
  \A o \in Op : prov[o] \in {"pending", "event", "error"} => ctx[o] = "registered"

(* One completion is in one hand: two goroutines polling the queue never   *)
(* resolve the same context, which would free it twice.                    *)
OneResolver ==
  \A c \in Call : hand[c] # NoOp =>
    /\ ctx[hand[c]] = "registered"
    /\ \A d \in Call \ {c} : hand[d] # hand[c]

\* No completion of an operation nobody waits for is in the queue.
NoForeignEvent == \A b \in Background : prov[b] # "event"

(* A call with a deadline returns once it has passed, provided the other   *)
(* users of the queue come to rest: the deadline is compared only when the *)
(* queue is empty, so one who keeps it busy keeps the call polling.        *)
DeadlineReturns ==
  <>[]NoForeignEvent => \A c \in Call : expired[c] /\ Waiting(c) ~> ~Waiting(c)

(* A call returns once its context has been resolved.                      *)
ResolvedReturns == \A c \in Call : ctx[c] = "released" ~> pc[c] = "returned"

(* When it does not, another call has read its completion: what the missed *)
(* return takes is a second call on the queue.                             *)
ReadElsewhere ==
  \A c \in Call : ctx[c] = "released" /\ Waiting(c) => reader[c] \in Call \ {c}

\* The hand and the place of a call go together.
HandInv ==
  \A c \in Call :
    /\ hand[c] # NoOp <=> pc[c] = "resolve"
    /\ hand[c] # NoOp => prov[hand[c]] = "read" /\ reader[hand[c]] = c

\* What a call has done shows in its operation.
CallInv ==
  \A c \in Call :
    /\ pc[c] = "idle" => prov[c] = "none" /\ ctx[c] = "absent"
    /\ Waiting(c) => prov[c] \in {"pending", "event", "error", "read"}
    /\ reader[c] = c => prov[c] = "read" /\ pc[c] # "idle"
    /\ reader[c] = c /\ Waiting(c) => hand[c] = c

\* The context of an operation exists from its post on, and is released by
\* the call that read the completion.
ContextInv ==
  \A o \in Op :
    /\ ctx[o] = "absent" <=> prov[o] \in {"none", "injected"}
    /\ ctx[o] = "released" => prov[o] = "read"
    /\ prov[o] = "read" => reader[o] \in Call

\* The inductive invariant behind the theorems of SyncWaitProofs.
SyncInv ==
  /\ TypeOK
  /\ HandInv
  /\ CallInv
  /\ OwnVerdict
  /\ ContextWhilePending
  /\ OneResolver
  /\ ContextInv

-----------------------------------------------------------------------------
Progress(o) ==
  CASE prov[o] \in {"none", "injected"} -> "unposted"
    [] prov[o] = "pending"              -> "posted"
    [] prov[o] \in {"event", "error"}   -> "reported"
    [] prov[o] = "read"                 -> "read"

Standing(o) == IF ctx[o] = "absent" THEN "none" ELSE ctx[o]

D == INSTANCE Delivery WITH progress <- [o \in Op |-> Progress(o)],
                            context <- [o \in Op |-> Standing(o)]

(* Calls that time out, are cancelled or consume each other's completions  *)
(* use contexts as module Delivery says: none is released before its       *)
(* completion was read or a second time, whoever resolves it.              *)
ImplementsDelivery == D!Spec
=============================================================================
