------------------------------- MODULE Client -------------------------------
(***************************************************************************)
(* The high-level client of client/client.go: goroutines post sends and    *)
(* receives, the dispatcher goroutine reads the completion queue and       *)
(* completes them, Close stops the dispatcher and tears the client down.   *)
(*                                                                         *)
(* An element of Op is one call of SendAsync (or Send, SendTo,             *)
(* SendToAsync) or ReceiveAsync (Receive, ReceiveFrom), the goroutine that *)
(* makes it, the operation record it creates and the completion context of *)
(* the post.  A step of the model ends where another goroutine, the        *)
(* provider or the dispatcher can observe or change something: an atomic   *)
(* load, a lock, the post, a channel operation.                            *)
(*                                                                         *)
(* The provider and its completion queue are libfabric, modelled from how  *)
(* the client uses them: a posted operation is reported at most once,      *)
(* either by an entry of the completion queue or by an error entry, and a  *)
(* read of the queue fails when it meets an error entry that waits.        *)
(***************************************************************************)
EXTENDS Naturals, FiniteSets

CONSTANTS
  Op,           \* calls of the client's send and receive methods
  Handler,      \* handlers that users register
  Region,       \* every memory region that may be registered
  NoOp,         \* no operation
  NoRegion,     \* a nil region
  Lens,         \* lengths of the buffers passed by the callers
  PoolSize,     \* size of the regions of mrPool, 0 when mrPool is nil
  PoolCapacity, \* capacity of mrPool
  InjectLimit,  \* Endpoint.injectLimit
  RequiresMR,   \* Client.requiresMR
  MayFault      \* whether the completion queue itself may break down

ASSUME ClientAssumption ==
  /\ IsFiniteSet(Op)
  /\ NoOp \notin Op
  /\ NoRegion \notin Region
  /\ Lens \subseteq Nat
  /\ PoolSize \in Nat /\ PoolCapacity \in Nat /\ InjectLimit \in Nat
  /\ RequiresMR \in BOOLEAN /\ MayFault \in BOOLEAN

Kinds == {"send", "receive"}

VARIABLES
  \* The calls.
  pc,        \* where the calling goroutine is
  kind,      \* operation.kind
  len,       \* operation.size, the length of the caller's buffer
  mem,       \* the region the operation uses, until it is released
  rel,       \* progress of operation.release: "no", "check", "put", "yes"
  filled,    \* whether the caller's receive buffer holds the message
  \* The completion contexts.
  ctx,       \* "absent" or "registered" in contextRegistry
  value,     \* whether SetValue attached the operation
  \* The operation records.
  comp,      \* progress of operation.complete
  res,       \* operation.result: "none", "ok" or "error"
  \* The provider.
  prov,      \* what the provider did with the operation
  cqFault,   \* the completion queue is broken
  \* The client.
  dpc,       \* where the dispatcher is
  dop,       \* the operation the dispatcher handles
  dispErr,   \* Client.dispatcherErr is set
  closePC,   \* progress of Close
  region,    \* life of each region: "fresh", "held", "pooled", "closed"
  handlers,  \* Client.sendHandlers and Client.receiveHandlers
  fired,     \* <<operation, handler>> pairs whose goroutine was started
  posted,    \* stats.sendPosted and stats.recvPosted
  succeeded, \* stats.sendCompleted and stats.recvMatched
  errored    \* stats.sendErrored and stats.recvErrored

callVars   == <<kind, len>>
memVars    == <<mem, rel, region>>
ctxVars    == <<ctx, value, filled>>
opVars     == <<comp, res>>
dispVars   == <<dpc, dop, dispErr>>
userVars   == <<handlers, fired>>
statVars   == <<posted, succeeded, errored>>
vars == <<pc, callVars, memVars, ctxVars, opVars, prov, cqFault, dispVars,
          closePC, userVars, statVars>>

TypeOK ==
  /\ pc \in [Op -> {"idle", "open", "prepare", "acquire", "ready", "posted",
                    "counted", "injected", "complete", "completing", "undo",
                    "returned", "failed"}]
  /\ kind \in [Op -> Kinds]
  /\ len \in [Op -> Nat]
  /\ mem \in [Op -> Region \cup {NoRegion}]
  /\ rel \in [Op -> {"no", "check", "put", "yes"}]
  /\ region \in [Region -> {"fresh", "held", "pooled", "closed"}]
  /\ ctx \in [Op -> {"absent", "registered"}]
  /\ value \in [Op -> BOOLEAN]
  /\ filled \in [Op -> BOOLEAN]
  /\ comp \in [Op -> {"none", "recorded", "emitted", "done"}]
  /\ res \in [Op -> {"none", "ok", "error"}]
  /\ prov \in [Op -> {"none", "pending", "event", "error", "readEvent", "readError"}]
  /\ cqFault \in BOOLEAN
  /\ dpc \in {"top", "read", "readerr", "resolve", "value", "completing", "sleep", "stopped"}
  /\ dop \in Op \cup {NoOp}
  /\ dispErr \in BOOLEAN
  /\ closePC \in {"open", "stopping", "joined", "pool", "draining", "endpoint", "queues", "done"}
  /\ handlers \in [Kinds -> SUBSET Handler]
  /\ fired \subseteq Op \X Handler
  /\ posted \in [Kinds -> Nat]
  /\ succeeded \in [Kinds -> Nat]
  /\ errored \in [Kinds -> Nat]

\* What Dial returns: nothing posted, the dispatcher started, no handler yet.
Init ==
  /\ pc = [o \in Op |-> "idle"]
  /\ kind = [o \in Op |-> "send"]
  /\ len = [o \in Op |-> 0]
  /\ mem = [o \in Op |-> NoRegion]
  /\ rel = [o \in Op |-> "no"]
  /\ region = [r \in Region |-> "fresh"]
  /\ ctx = [o \in Op |-> "absent"]
  /\ value = [o \in Op |-> FALSE]
  /\ filled = [o \in Op |-> FALSE]
  /\ comp = [o \in Op |-> "none"]
  /\ res = [o \in Op |-> "none"]
  /\ prov = [o \in Op |-> "none"]
  /\ cqFault = FALSE
  /\ dpc = "top"
  /\ dop = NoOp
  /\ dispErr = FALSE
  /\ closePC = "open"
  /\ handlers = [k \in Kinds |-> {}]
  /\ fired = {}
  /\ posted = [k \in Kinds |-> 0]
  /\ succeeded = [k \in Kinds |-> 0]
  /\ errored = [k \in Kinds |-> 0]

-----------------------------------------------------------------------------
(* What the progress of Close says about the client.                       *)

\* Client.closed, and stopCh, which Close closes right after the swap.
Closed == closePC # "open"
\* MRPool.closed of mrPool.
PoolClosed == closePC \in {"draining", "endpoint", "queues", "done"}
\* Endpoint.handle is nil, and the address vector is closed.
EndpointClosed == closePC \in {"queues", "done"}

\* The regions waiting in the channel of mrPool.
PooledRegions == {r \in Region : region[r] = "pooled"}

\* prepareSend and prepareReceive take a region of mrPool for this buffer.
UsesPool(o) == PoolSize > 0 /\ len[o] <= PoolSize

Goto(o, label) == pc' = [pc EXCEPT ![o] = label]

-----------------------------------------------------------------------------
(* sendAsync and ReceiveAsync: the calling goroutine.                      *)

\* ensureOpen, then the test for an empty buffer, which is local.
Enter(o, k, n) ==
  /\ pc[o] = "idle"
  /\ kind' = [kind EXCEPT ![o] = k]
  /\ len' = [len EXCEPT ![o] = n]
  /\ Goto(o, IF Closed \/ n = 0 THEN "failed" ELSE "open")
  /\ UNCHANGED <<memVars, ctxVars, opVars, prov, cqFault, dispVars, closePC, userVars, statVars>>

SendAsync(o, n) == Enter(o, "send", n)

ReceiveAsync(o, n) == Enter(o, "receive", n)

\* dispatchFailure: a recorded dispatcher error refuses every further call.
DispatchFailure(o) ==
  /\ pc[o] = "open"
  /\ Goto(o, IF dispErr THEN "failed" ELSE "prepare")
  /\ UNCHANGED <<callVars, memVars, ctxVars, opVars, prov, cqFault, dispVars, closePC, userVars, statVars>>

\* prepareSend of an RDM or datagram endpoint refuses an unspecified address.
RefuseDestination(o) ==
  /\ pc[o] = "prepare"
  /\ kind[o] = "send"
  /\ Goto(o, "failed")
  /\ UNCHANGED <<callVars, memVars, ctxVars, opVars, prov, cqFault, dispVars, closePC, userVars, statVars>>

\* prepareSend, prepareReceive: MRPool.Acquire loads the pool's closed flag.
AcquireCheck(o) ==
  /\ pc[o] = "prepare"
  /\ UsesPool(o)
  /\ Goto(o, IF PoolClosed THEN "failed" ELSE "acquire")
  /\ UNCHANGED <<callVars, memVars, ctxVars, opVars, prov, cqFault, dispVars, closePC, userVars, statVars>>

\* The operation gets region r.
TakeRegion(o, r) ==
  /\ mem' = [mem EXCEPT ![o] = r]
  /\ region' = [region EXCEPT ![r] = "held"]
  /\ Goto(o, "ready")
  /\ UNCHANGED <<callVars, rel, ctxVars, opVars, prov, cqFault, dispVars, closePC, userVars, statVars>>

\* MRPool.Acquire receives a region from the channel.
AcquirePooled(o, r) ==
  /\ pc[o] = "acquire"
  /\ r \in PooledRegions
  /\ TakeRegion(o, r)

\* MRPool.Acquire finds the channel empty and registers a region.
AcquireNew(o, r) ==
  /\ pc[o] = "acquire"
  /\ PooledRegions = {}
  /\ region[r] = "fresh"
  /\ TakeRegion(o, r)

\* The buffer does not fit the pool and the domain requires registration.
RegisterOwn(o, r) ==
  /\ pc[o] = "prepare"
  /\ ~UsesPool(o) /\ RequiresMR
  /\ region[r] = "fresh"
  /\ TakeRegion(o, r)

\* RegisterMemory fails, for the pool or for the call itself.
RegisterFails(o) ==
  /\ \/ pc[o] = "acquire" /\ PooledRegions = {}
     \/ pc[o] = "prepare" /\ ~UsesPool(o) /\ RequiresMR
  /\ Goto(o, "failed")
  /\ UNCHANGED <<callVars, memVars, ctxVars, opVars, prov, cqFault, dispVars, closePC, userVars, statVars>>

\* Neither pool nor registration: the post copies the buffer itself.
UseBuffer(o) ==
  /\ pc[o] = "prepare"
  /\ ~UsesPool(o) /\ ~RequiresMR
  /\ Goto(o, "ready")
  /\ UNCHANGED <<callVars, memVars, ctxVars, opVars, prov, cqFault, dispVars, closePC, userVars, statVars>>

\* PostSend: a small payload is injected; the context is released at once.
PostInject(o) ==
  /\ pc[o] = "ready"
  /\ kind[o] = "send" /\ len[o] <= InjectLimit
  /\ ~EndpointClosed
  /\ Goto(o, "injected")
  /\ UNCHANGED <<callVars, memVars, ctxVars, opVars, prov, cqFault, dispVars, closePC, userVars, statVars>>

\* Mutant: the operation is attached before the post, not after the counter.
Post_AttachesFirst(o) ==
  /\ pc[o] = "ready"
  /\ ~EndpointClosed
  /\ ctx' = [ctx EXCEPT ![o] = "registered"]
  /\ value' = [value EXCEPT ![o] = TRUE]
  /\ prov' = [prov EXCEPT ![o] = "pending"]
  /\ Goto(o, "posted")
  /\ UNCHANGED <<callVars, memVars, filled, opVars, cqFault, dispVars, closePC, userVars, statVars>>

\* PostSend, PostRecv: a context is registered and the provider accepts.
Post(o) ==
  /\ pc[o] = "ready"
  /\ ~EndpointClosed
  /\ ctx' = [ctx EXCEPT ![o] = "registered"]
  /\ prov' = [prov EXCEPT ![o] = "pending"]
  /\ Goto(o, "posted")
  /\ UNCHANGED <<callVars, memVars, value, filled, opVars, cqFault, dispVars, closePC, userVars, statVars>>

\* PostSend, PostRecv fail: a nil handle, or the provider refuses and the
\* context is released.  The caller then releases what it prepared.
PostFails(o) ==
  /\ pc[o] = "ready"
  /\ rel' = [rel EXCEPT ![o] = "check"]
  /\ Goto(o, "undo")
  /\ UNCHANGED <<callVars, mem, region, ctxVars, opVars, prov, cqFault, dispVars, closePC, userVars, statVars>>

\* The error returns to the caller once release is through.
PostFailed(o) ==
  /\ pc[o] = "undo"
  /\ rel[o] = "yes"
  /\ Goto(o, "failed")
  /\ UNCHANGED <<callVars, memVars, ctxVars, opVars, prov, cqFault, dispVars, closePC, userVars, statVars>>

\* stats.sendPosted.Add, stats.recvPosted.Add.
CountPosted(o) ==
  /\ pc[o] \in {"posted", "injected"}
  /\ posted' = [posted EXCEPT ![kind[o]] = @ + 1]
  /\ Goto(o, IF pc[o] = "posted" THEN "counted" ELSE "complete")
  /\ UNCHANGED <<callVars, memVars, ctxVars, opVars, prov, cqFault, dispVars, closePC, userVars, succeeded, errored>>

\* Mutant: release is deferred in sendAsync, so it runs on success too.
SetValue_DefersRelease(o) ==
  /\ pc[o] = "counted"
  /\ value' = [value EXCEPT ![o] = TRUE]
  /\ rel' = [rel EXCEPT ![o] = "check"]
  /\ Goto(o, "returned")
  /\ UNCHANGED <<callVars, mem, region, ctx, filled, opVars, prov, cqFault, dispVars, closePC, userVars, statVars>>

\* ctx.SetValue(op), after the provider already has the operation.
SetValue(o) ==
  /\ pc[o] = "counted"
  /\ value' = [value EXCEPT ![o] = TRUE]
  /\ Goto(o, "returned")
  /\ UNCHANGED <<callVars, memVars, ctx, filled, opVars, prov, cqFault, dispVars, closePC, userVars, statVars>>

-----------------------------------------------------------------------------
(* operation.complete, run by the dispatcher or, for an injected send, by  *)
(* the caller.                                                             *)

\* Mutant: the result is never stored under the lock.
Record_Forgets(o, r) ==
  /\ comp[o] = "none"
  /\ comp' = [comp EXCEPT ![o] = "recorded"]
  /\ UNCHANGED res

\* once.Do and the section under op.mu: the result is recorded.
Record(o, r) ==
  /\ comp[o] = "none"
  /\ comp' = [comp EXCEPT ![o] = "recorded"]
  /\ res' = [res EXCEPT ![o] = r]

\* An injected send completes in the calling goroutine.
CompleteInjected(o) ==
  /\ pc[o] = "complete"
  /\ Record(o, "ok")
  /\ Goto(o, "completing")
  /\ UNCHANGED <<callVars, memVars, ctxVars, prov, cqFault, dispVars, closePC, userVars, statVars>>

\* emit: the counters, and a goroutine for every registered handler.
Emit(o) ==
  /\ comp[o] = "recorded"
  /\ comp' = [comp EXCEPT ![o] = "emitted"]
  /\ rel' = [rel EXCEPT ![o] = "check"]
  /\ fired' = fired \cup ({o} \X handlers[kind[o]])
  /\ IF res[o] = "ok"
     THEN /\ succeeded' = [succeeded EXCEPT ![kind[o]] = @ + 1]
          /\ UNCHANGED errored
     ELSE /\ errored' = [errored EXCEPT ![kind[o]] = @ + 1]
          /\ UNCHANGED succeeded
  /\ UNCHANGED <<pc, callVars, mem, region, ctxVars, res, prov, cqFault, dispVars, closePC, handlers, posted>>

\* The region of o leaves it for state s.
GiveRegion(o, s) ==
  /\ region' = [r \in Region |-> IF r = mem[o] THEN s ELSE region[r]]
  /\ mem' = [mem EXCEPT ![o] = NoRegion]
  /\ rel' = [rel EXCEPT ![o] = "yes"]
  /\ UNCHANGED <<pc, callVars, ctxVars, opVars, prov, cqFault, dispVars, closePC, userVars, statVars>>

\* operation.release closes the region the call registered, or the pool is
\* closed, or there is no release function.
ReleaseClose(o) ==
  /\ rel[o] = "check"
  /\ ~UsesPool(o) \/ PoolClosed
  /\ GiveRegion(o, "closed")

\* operation.release is MRPool.Release: the pool's closed flag is loaded.
ReleaseCheck(o) ==
  /\ rel[o] = "check"
  /\ UsesPool(o) /\ ~PoolClosed
  /\ rel' = [rel EXCEPT ![o] = "put"]
  /\ UNCHANGED <<pc, callVars, mem, region, ctxVars, opVars, prov, cqFault, dispVars, closePC, userVars, statVars>>

\* Mutant: a region that finds the channel full is forgotten, not closed.
ReleasePut_Forgets(o) ==
  /\ rel[o] = "put"
  /\ GiveRegion(o, IF Cardinality(PooledRegions) < PoolCapacity THEN "pooled" ELSE "held")

\* MRPool.Release sends the region, or closes it when the channel is full.
ReleasePut(o) ==
  /\ rel[o] = "put"
  /\ GiveRegion(o, IF Cardinality(PooledRegions) < PoolCapacity THEN "pooled" ELSE "closed")

\* Mutant: the channel is closed before release has run.
CloseDone_BeforeRelease(o) ==
  /\ comp[o] = "emitted"
  /\ comp' = [comp EXCEPT ![o] = "done"]
  /\ pc' = IF pc[o] = "completing" THEN [pc EXCEPT ![o] = "returned"] ELSE pc
  /\ dpc' = IF dpc = "completing" /\ dop = o THEN "top" ELSE dpc
  /\ UNCHANGED <<callVars, memVars, ctxVars, res, prov, cqFault, dop, dispErr, closePC, userVars, statVars>>

\* close(op.done); the dispatcher, or the caller of an injected send, goes on.
CloseDone(o) ==
  /\ comp[o] = "emitted"
  /\ rel[o] = "yes"
  /\ comp' = [comp EXCEPT ![o] = "done"]
  /\ pc' = IF pc[o] = "completing" THEN [pc EXCEPT ![o] = "returned"] ELSE pc
  /\ dpc' = IF dpc = "completing" /\ dop = o THEN "top" ELSE dpc
  /\ UNCHANGED <<callVars, memVars, ctxVars, res, prov, cqFault, dop, dispErr, closePC, userVars, statVars>>

-----------------------------------------------------------------------------
(* The provider and the completion queue.                                  *)

\* Operation o succeeds: its completion enters the queue.
Deliver(o) ==
  /\ prov[o] = "pending"
  /\ ~EndpointClosed
  /\ prov' = [prov EXCEPT ![o] = "event"]
  /\ UNCHANGED <<pc, callVars, memVars, ctxVars, opVars, cqFault, dispVars, closePC, userVars, statVars>>

\* Operation o fails: an error entry enters the queue.
DeliverError(o) ==
  /\ prov[o] = "pending"
  /\ ~EndpointClosed
  /\ prov' = [prov EXCEPT ![o] = "error"]
  /\ UNCHANGED <<pc, callVars, memVars, ctxVars, opVars, cqFault, dispVars, closePC, userVars, statVars>>

\* The completion queue breaks down: every read fails from now on.
Fault ==
  /\ MayFault /\ ~cqFault
  /\ cqFault' = TRUE
  /\ UNCHANGED <<pc, callVars, memVars, ctxVars, opVars, prov, dispVars, closePC, userVars, statVars>>

ErrorWaits == \E o \in Op : prov[o] = "error"
EventWaits == \E o \in Op : prov[o] = "event"

-----------------------------------------------------------------------------
(* dispatch and handleCompletion.                                          *)

\* Mutant: the loop does not look at stopCh before it reads.
DispatchTop_NoStop ==
  /\ dpc = "top"
  /\ dpc' = "read"
  /\ UNCHANGED <<pc, callVars, memVars, ctxVars, opVars, prov, cqFault, dop, dispErr, closePC, userVars, statVars>>

\* The select at the top of the loop.
DispatchTop ==
  /\ dpc = "top"
  /\ dpc' = IF Closed THEN "stopped" ELSE "read"
  /\ UNCHANGED <<pc, callVars, memVars, ctxVars, opVars, prov, cqFault, dop, dispErr, closePC, userVars, statVars>>

\* cq.ReadContext returns the completion of o.
ReadContext(o) ==
  /\ dpc = "read"
  /\ ~cqFault /\ prov[o] = "event"
  /\ prov' = [prov EXCEPT ![o] = "readEvent"]
  /\ dop' = o
  /\ dpc' = "resolve"
  /\ UNCHANGED <<pc, callVars, memVars, ctxVars, opVars, cqFault, dispErr, closePC, userVars, statVars>>

\* cq.ReadContext returns ErrUnavailable (an error entry waits) or the error
\* of a broken queue; either is recorded as the dispatcher's failure.
ReadContextFails ==
  /\ dpc = "read"
  /\ cqFault \/ ErrorWaits
  /\ dispErr' = TRUE
  /\ dpc' = "readerr"
  /\ UNCHANGED <<pc, callVars, memVars, ctxVars, opVars, prov, cqFault, dop, closePC, userVars, statVars>>

\* cq.ReadContext returns ErrNoCompletion.
ReadContextEmpty ==
  /\ dpc = "read"
  /\ ~cqFault /\ ~ErrorWaits /\ ~EventWaits
  /\ dpc' = "readerr"
  /\ UNCHANGED <<pc, callVars, memVars, ctxVars, opVars, prov, cqFault, dop, dispErr, closePC, userVars, statVars>>

\* Mutant: an error entry is read and thrown away.
ReadError_Discards(o) ==
  /\ dpc = "readerr"
  /\ ~cqFault /\ prov[o] = "error"
  /\ prov' = [prov EXCEPT ![o] = "readError"]
  /\ dpc' = "top"
  /\ UNCHANGED <<pc, callVars, memVars, ctxVars, opVars, cqFault, dop, dispErr, closePC, userVars, statVars>>

\* cq.ReadError returns the error entry of o.
ReadError(o) ==
  /\ dpc = "readerr"
  /\ ~cqFault /\ prov[o] = "error"
  /\ prov' = [prov EXCEPT ![o] = "readError"]
  /\ dop' = o
  /\ dpc' = "resolve"
  /\ UNCHANGED <<pc, callVars, memVars, ctxVars, opVars, cqFault, dispErr, closePC, userVars, statVars>>

\* cq.ReadError returns no entry, or the error of a broken queue.
ReadErrorEmpty ==
  /\ dpc = "readerr"
  /\ cqFault \/ ~ErrorWaits
  /\ dispErr' = (dispErr \/ cqFault)
  /\ dpc' = "sleep"
  /\ UNCHANGED <<pc, callVars, memVars, ctxVars, opVars, prov, cqFault, dop, closePC, userVars, statVars>>

\* The timer of the backoff fires.
Wake ==
  /\ dpc = "sleep"
  /\ dpc' = "top"
  /\ UNCHANGED <<pc, callVars, memVars, ctxVars, opVars, prov, cqFault, dop, dispErr, closePC, userVars, statVars>>

\* stopCh is closed while the dispatcher waits.
StopInSleep ==
  /\ dpc = "sleep"
  /\ Closed
  /\ dpc' = "stopped"
  /\ UNCHANGED <<pc, callVars, memVars, ctxVars, opVars, prov, cqFault, dop, dispErr, closePC, userVars, statVars>>

\* Mutant: the context's buffer is freed before the copy back.
Resolve_FreesFirst ==
  /\ dpc = "resolve"
  /\ ctx' = [ctx EXCEPT ![dop] = "absent"]
  /\ dpc' = IF ctx[dop] = "registered" THEN "value" ELSE "top"
  /\ UNCHANGED <<pc, callVars, memVars, value, filled, opVars, prov, cqFault, dop, dispErr, closePC, userVars, statVars>>

\* Resolve removes the context from the registry and releases it: a receive
\* staged in the context's buffer is copied back to the caller's; a receive
\* into a region is not, since such a context has no buffer.
Resolve ==
  /\ dpc = "resolve"
  /\ ctx' = [ctx EXCEPT ![dop] = "absent"]
  /\ filled' = [filled EXCEPT ![dop] =
                  kind[dop] = "receive" /\ mem[dop] = NoRegion /\ prov[dop] = "readEvent"]
  /\ dpc' = IF ctx[dop] = "registered" THEN "value" ELSE "top"
  /\ UNCHANGED <<pc, callVars, memVars, value, opVars, prov, cqFault, dop, dispErr, closePC, userVars, statVars>>

\* Mutant: handleCompletion does not look at the error entry.
HandleCompletion_AlwaysOk ==
  /\ dpc = "value"
  /\ value[dop]
  /\ Record(dop, "ok")
  /\ dpc' = "completing"
  /\ UNCHANGED <<pc, callVars, memVars, ctxVars, prov, cqFault, dop, dispErr, closePC, userVars, statVars>>

\* ctx.Value() is the operation: complete runs with the provider's verdict.
HandleCompletion ==
  /\ dpc = "value"
  /\ value[dop]
  /\ Record(dop, IF prov[dop] = "readEvent" THEN "ok" ELSE "error")
  /\ dpc' = "completing"
  /\ UNCHANGED <<pc, callVars, memVars, ctxVars, prov, cqFault, dop, dispErr, closePC, userVars, statVars>>

\* ctx.Value() is still nil: the completion is dropped.
DropCompletion ==
  /\ dpc = "value"
  /\ ~value[dop]
  /\ dpc' = "top"
  /\ UNCHANGED <<pc, callVars, memVars, ctxVars, opVars, prov, cqFault, dop, dispErr, closePC, userVars, statVars>>

-----------------------------------------------------------------------------
(* Close.  A later call finds closed set and returns without effect.       *)

CloseStep(from, to) ==
  /\ closePC = from
  /\ closePC' = to
  /\ UNCHANGED <<pc, callVars, mem, rel, ctxVars, opVars, prov, cqFault, dispVars, fired, statVars>>

\* The swap of closed, and close(stopCh).
CloseSwap == CloseStep("open", "stopping") /\ UNCHANGED <<region, handlers>>

\* Mutant: Close does not wait for the dispatcher.
CloseJoin_NoWait == CloseStep("stopping", "joined") /\ UNCHANGED <<region, handlers>>

\* wg.Wait returns when the dispatcher has returned.
CloseJoin == dpc = "stopped" /\ CloseStep("stopping", "joined") /\ UNCHANGED <<region, handlers>>

\* Both handler maps are set to nil.
CloseHandlers ==
  /\ CloseStep("joined", "pool")
  /\ handlers' = [k \in Kinds |-> {}]
  /\ UNCHANGED region

\* MRPool.Close: the swap of the pool's closed flag.
ClosePool == CloseStep("pool", "draining") /\ UNCHANGED <<region, handlers>>

\* MRPool.Close: a pooled region is closed.
CloseDrain(r) ==
  /\ r \in PooledRegions
  /\ CloseStep("draining", "draining")
  /\ region' = [region EXCEPT ![r] = "closed"]
  /\ UNCHANGED handlers

\* MRPool.Close finds the channel empty.
CloseDrained ==
  /\ PooledRegions = {}
  /\ CloseStep("draining", "endpoint")
  /\ UNCHANGED <<region, handlers>>

\* Mutant: contexts of operations that are still pending go with the endpoint.
CloseEndpoint_FreesContexts ==
  /\ closePC = "endpoint" /\ closePC' = "queues"
  /\ ctx' = [o \in Op |-> "absent"]
  /\ UNCHANGED <<pc, callVars, memVars, value, filled, opVars, prov, cqFault, dispVars,
                 userVars, statVars>>

\* The address vector and the endpoint are closed.
CloseEndpoint == CloseStep("endpoint", "queues") /\ UNCHANGED <<region, handlers>>

\* The completion queue, the event queue, the domain and the fabric are.
CloseQueues == CloseStep("queues", "done") /\ UNCHANGED <<region, handlers>>

-----------------------------------------------------------------------------
(* RegisterSendHandler, RegisterReceiveHandler, and the function they      *)
(* return.  Neither looks at closed.                                       *)
RegisterHandler(k, h) ==
  /\ h \notin handlers[k]
  /\ handlers' = [handlers EXCEPT ![k] = @ \cup {h}]
  /\ UNCHANGED <<pc, callVars, memVars, ctxVars, opVars, prov, cqFault, dispVars, closePC, fired, statVars>>

UnregisterHandler(k, h) ==
  /\ h \in handlers[k]
  /\ handlers' = [handlers EXCEPT ![k] = @ \ {h}]
  /\ UNCHANGED <<pc, callVars, memVars, ctxVars, opVars, prov, cqFault, dispVars, closePC, fired, statVars>>

-----------------------------------------------------------------------------
Call(o) == \E n \in Lens : SendAsync(o, n) \/ ReceiveAsync(o, n)

\* The rest of a call of sendAsync or ReceiveAsync.
Caller(o) ==
  \/ DispatchFailure(o)
  \/ RefuseDestination(o)
  \/ AcquireCheck(o)
  \/ \E r \in Region : AcquirePooled(o, r) \/ AcquireNew(o, r) \/ RegisterOwn(o, r)
  \/ RegisterFails(o)
  \/ UseBuffer(o)
  \/ PostInject(o)
  \/ Post(o)
  \/ PostFails(o)
  \/ PostFailed(o)
  \/ CountPosted(o)
  \/ SetValue(o)
  \/ CompleteInjected(o)

Complete(o) ==
  \/ Emit(o)
  \/ ReleaseClose(o)
  \/ ReleaseCheck(o)
  \/ ReleasePut(o)
  \/ CloseDone(o)

Provider ==
  \/ \E o \in Op : Deliver(o) \/ DeliverError(o)
  \/ Fault

Dispatch ==
  \/ DispatchTop
  \/ \E o \in Op : ReadContext(o) \/ ReadError(o)
  \/ ReadContextFails
  \/ ReadContextEmpty
  \/ ReadErrorEmpty
  \/ Wake
  \/ StopInSleep
  \/ Resolve
  \/ HandleCompletion
  \/ DropCompletion

Closing ==
  \/ CloseJoin
  \/ CloseHandlers
  \/ ClosePool
  \/ \E r \in Region : CloseDrain(r)
  \/ CloseDrained
  \/ CloseEndpoint
  \/ CloseQueues

Next ==
  \/ \E o \in Op : Call(o) \/ Caller(o) \/ Complete(o)
  \/ Provider
  \/ Dispatch
  \/ CloseSwap \/ Closing
  \/ \E k \in Kinds, h \in Handler : RegisterHandler(k, h) \/ UnregisterHandler(k, h)

Spec == Init /\ [][Next]_vars

(* The Go scheduler runs every goroutine that can run: the calls under     *)
(* way, the dispatcher and Close go on.  Nothing makes users call, close   *)
(* or register, and nothing makes the provider complete an operation.      *)
Fairness ==
  /\ \A o \in Op : WF_vars(Caller(o)) /\ WF_vars(Complete(o))
  /\ WF_vars(Dispatch)
  /\ WF_vars(Closing)

FairSpec == Spec /\ Fairness

-----------------------------------------------------------------------------
(* Correctness.                                                            *)

\* The operation was counted by stats.sendPosted or stats.recvPosted.
Counted(o) == pc[o] \in {"counted", "complete", "completing", "returned"}

\* The operation works on registered memory.
UsesRegion(o) == UsesPool(o) \/ RequiresMR

(* While the provider may read or write an operation's memory, its region  *)
(* is not pooled, not deregistered and not given to another operation,     *)
(* whatever the callers, the dispatcher and Close do: sendAsync and        *)
(* ReceiveAsync hand release to the operation, and only complete and a     *)
(* failed post run it.                                                     *)
MemoryWhilePending ==
  \A o \in Op : prov[o] = "pending" /\ UsesRegion(o) =>
    /\ mem[o] \in Region
    /\ region[mem[o]] = "held"
    /\ \A p \in Op \ {o} : mem[p] # mem[o]

(* The counters never show more finished operations than posted ones: the  *)
(* posted counter is raised before SetValue, and until SetValue no         *)
(* completion of the operation is counted.                                 *)
StatsOrdered == \A k \in Kinds : succeeded[k] + errored[k] <= posted[k]

(* A future reports what the provider said of its own operation: success   *)
(* for a completion or an inject, an error for an error entry (dispatch,   *)
(* handleCompletion, complete).                                            *)
VerdictMatches ==
  \A o \in Op : comp[o] # "none" =>
    \/ res[o] = "ok" /\ prov[o] = "readEvent"
    \/ res[o] = "ok" /\ prov[o] = "none" /\ pc[o] \in {"completing", "returned"}
    \/ res[o] = "error" /\ prov[o] = "readError"

(* Whoever sees the done channel closed finds everything behind it: the    *)
(* operation counted, its memory given back and its context gone           *)
(* (operation.complete closes the channel last).                           *)
DoneIsFinal ==
  \A o \in Op : comp[o] = "done" =>
    Counted(o) /\ mem[o] = NoRegion /\ ctx[o] = "absent"

(* Close takes the client apart only after the dispatcher has returned, so *)
(* no queue is read and no pooled region is handed back by it afterwards.  *)
TornDownAfterDispatcher ==
  closePC \notin {"open", "stopping"} => dpc = "stopped"

(* After Close has joined the dispatcher, the only operations that still   *)
(* complete are sends whose caller injected them.                          *)
QuietAfterJoin ==
  [][\A o \in Op : closePC \notin {"open", "stopping"} /\ comp'[o] # comp[o]
                     => prov[o] = "none"]_vars

(* Close returns, however many completions keep arriving and whatever its  *)
(* queue reports; that the drain of the pool ends under callers that are   *)
(* still inside it is CloseTerminates of module MRPool.                    *)
CloseTerminates == Closed ~> (closePC = "done")

\* libfabric has reported the operation, successfully or not.
Reported(o) == prov[o] \in {"event", "error"}

(* A completion that arrives after the operation was attached resolves the *)
(* future, unless the client is closed first or its queue is broken.       *)
AttachedCompletes ==
  \A o \in Op : (Reported(o) /\ value[o]) ~> (comp[o] = "done" \/ Closed \/ cqFault)

(* What sendAsync and ReceiveAsync promise: the future resolves when       *)
(* libfabric reports the operation.                                        *)
ReportedCompletes ==
  \A o \in Op : Reported(o) ~> (comp[o] = "done" \/ Closed \/ cqFault)

(* A receive that resolves without an error has filled the caller's        *)
(* buffer (PostRecv, CompletionContext.release).                           *)
ReceiveFilled ==
  \A o \in Op : comp[o] = "done" /\ kind[o] = "receive" /\ res[o] = "ok" => filled[o]

(* The dispatcher only counts as failed when the queue itself is broken,   *)
(* not because an operation failed.                                        *)
FailureIsQueueFault == dispErr => cqFault

(* What it takes to count as failed: the queue broke down, or an operation *)
(* has failed before.                                                      *)
FailureHasCause ==
  dispErr => cqFault \/ \E o \in Op : prov[o] \in {"error", "readError"}

-----------------------------------------------------------------------------
(* The invariant behind the theorems of ClientProofs: how the places of    *)
(* caller, provider, dispatcher and completion go together.                *)

Read(o) == prov[o] \in {"readEvent", "readError"}

(* What AttachedCompletes rests on: the completion of an operation that    *)
(* was attached before it was read is not dropped.  From the read on the   *)
(* dispatcher is about to complete it, or has recorded the result.         *)
Kept(o) == Read(o) => comp[o] # "none" \/ (dpc \in {"resolve", "value"} /\ dop = o)

AttachedIsKept == \A o \in Op : [](value[o] /\ ~Read(o) => []Kept(o))

\* The caller's side of an operation.
CallInv ==
  \A o \in Op :
    /\ pc[o] \in {"posted", "counted"} => prov[o] # "none" /\ ~value[o]
    /\ prov[o] # "none" => pc[o] \in {"posted", "counted", "returned"}
    /\ value[o] => pc[o] = "returned" /\ prov[o] # "none"
    /\ pc[o] = "returned" /\ prov[o] = "none" => comp[o] = "done"
    /\ pc[o] = "completing" <=> prov[o] = "none" /\ comp[o] \in {"recorded", "emitted"}
    /\ pc[o] = "undo" => rel[o] # "no"

\* A completion runs once, for an operation that was read or injected.
CompletionInv ==
  \A o \in Op :
    /\ comp[o] # "none" => \/ Read(o) /\ value[o]
                           \/ prov[o] = "none" /\ pc[o] \in {"completing", "returned"}
    /\ Read(o) => ctx[o] = "absent" \/ (dpc = "resolve" /\ dop = o)
    /\ ctx[o] = "registered" => prov[o] # "none"
    /\ comp[o] \in {"none", "recorded"} => rel[o] = "no" \/ pc[o] \in {"undo", "failed"}
    /\ pc[o] = "failed" => comp[o] = "none" /\ prov[o] = "none"
    /\ comp[o] \in {"emitted", "done"} => rel[o] # "no"
    /\ comp[o] = "done" => rel[o] = "yes"

\* What the dispatcher has in hand.
DispatcherInv ==
  /\ dpc \in {"resolve", "value", "completing"} => dop \in Op /\ Read(dop)
  /\ dpc \in {"resolve", "value"} => comp[dop] = "none"
  /\ dpc = "completing" => comp[dop] \in {"recorded", "emitted"}
  /\ \A o \in Op : comp[o] \in {"recorded", "emitted"} /\ prov[o] # "none"
                   => dpc = "completing" /\ dop = o

\* The context of an operation is registered until the dispatcher resolves it.
RegisteredInv ==
  \A o \in Op : prov[o] # "none" /\ (Read(o) => dpc = "resolve" /\ dop = o)
                 => ctx[o] = "registered"

\* Who has which region.
RegionInv ==
  \A o \in Op :
    /\ mem[o] # NoRegion => region[mem[o]] = "held"
    /\ \A p \in Op : mem[o] = mem[p] /\ mem[o] # NoRegion => o = p
    /\ rel[o] = "yes" => mem[o] = NoRegion
    /\ pc[o] \in {"idle", "open", "prepare", "acquire"} => mem[o] = NoRegion
    /\ pc[o] \notin {"idle", "open", "prepare", "acquire", "failed"} /\ UsesRegion(o)
       /\ rel[o] # "yes" => mem[o] # NoRegion

\* emit has counted the operation as completed or errored.
Finished(o) == comp[o] \in {"emitted", "done"}

CountedOps(k)  == {o \in Op : Counted(o) /\ kind[o] = k}
FinishedOps(k) == {o \in Op : Finished(o) /\ kind[o] = k}

\* The counters count the operations that passed them.
StatsExact ==
  \A k \in Kinds :
    /\ posted[k] = Cardinality(CountedOps(k))
    /\ succeeded[k] + errored[k] = Cardinality(FinishedOps(k))

ClientInv ==
  /\ TypeOK
  /\ CallInv
  /\ CompletionInv
  /\ DispatcherInv
  /\ RegionInv
  /\ VerdictMatches
  /\ TornDownAfterDispatcher
  /\ StatsExact

(* What makes a receive good in a client without pool and registration: no *)
(* region ever comes between the post and the caller's buffer, so the one  *)
(* Resolve of a completed receive copies the message; what completes       *)
(* without the provider is a send.                                         *)
FilledInv ==
  \A o \in Op :
    /\ mem[o] = NoRegion /\ pc[o] # "acquire"
    /\ kind[o] = "receive" /\ prov[o] = "readEvent" =>
         filled[o] \/ (dpc = "resolve" /\ dop = o)
    /\ prov[o] = "none" /\ pc[o] \in {"injected", "complete", "completing", "returned"} =>
         kind[o] = "send"

=============================================================================
