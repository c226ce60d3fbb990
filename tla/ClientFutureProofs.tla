------------------------- MODULE ClientFutureProofs -------------------------
(* The client implements the abstract futures, for every configuration:    *)
(* each step of Client maps to a step of Future or leaves what every       *)
(* caller observes as it was.                                              *)
EXTENDS ClientFuture, ClientProofs

(* What nobody observes differently is a stuttering step of Future.        *)
LEMMA ObservedKept ==
  ASSUME \A p \in Op : Observed(p)' = Observed(p)
  PROVE  [o \in Op |-> Observed(o)]' = [o \in Op |-> Observed(o)]
OBVIOUS

(* What one caller observes differently is a step of that caller's future. *)
LEMMA ObservedMoves ==
  ASSUME NEW o \in Op,
         \A p \in Op \ {o} : Observed(p)' = Observed(p),
         \/ Observed(o) = "none" /\ Observed(o)' \in {"refused", "open"}
         \/ Observed(o) = "open" /\ Observed(o)' \in {"ok", "error"}
  PROVE  F!Next
<1>1. [p \in Op |-> Observed(p)]' = [[p \in Op |-> Observed(p)] EXCEPT ![o] = Observed(o)']
  OBVIOUS
<1>2. [p \in Op |-> Observed(p)][o] = Observed(o)
  OBVIOUS
<1>3. F!Refuse(o) \/ F!Accept(o) \/ \E verdict \in {"ok", "error"} : F!Resolve(o, verdict)
  BY <1>1, <1>2 DEF F!Refuse, F!Accept, F!Resolve
<1> QED
  BY <1>3 DEF F!Next

(* The calling goroutine refuses the call or accepts it with the post.     *)
LEMMA CallerObserved ==
  ASSUME ClientInv, NEW o \in Op, Call(o) \/ Caller(o)
  PROVE  F!Next \/ \A p \in Op : Observed(p)' = Observed(p)
<1> USE DEF Goto, opVars
<1>1. comp[o] = "none" \/ pc[o] \in {"completing", "returned"}
  BY DEF ClientInv, CallInv, CompletionInv
<1>2. \A p \in Op \ {o} : pc'[p] = pc[p] /\ comp'[p] = comp[p] /\ res'[p] = res[p]
  BY DEF ClientInv, TypeOK, Call, Caller, SendAsync, ReceiveAsync, Enter, DispatchFailure,
    RefuseDestination, AcquireCheck, AcquirePooled, AcquireNew, RegisterOwn, TakeRegion,
    RegisterFails, UseBuffer, PostInject, Post, PostFails, PostFailed, CountPosted, SetValue,
    CompleteInjected, Record
<1>3. \A p \in Op \ {o} : Observed(p)' = Observed(p)
  BY <1>2 DEF Observed, BeforePost
<1>4. CASE CompleteInjected(o)
  <2>1. Observed(o)' = Observed(o)
    BY <1>4 DEF CompleteInjected, Record, ClientInv, TypeOK, Observed, BeforePost
  <2> QED
    BY <1>3, <2>1
<1>5. CASE CountPosted(o) \/ SetValue(o)
  <2>1. Observed(o)' = Observed(o)
    BY <1>5 DEF CountPosted, SetValue, ClientInv, TypeOK, Observed, BeforePost
  <2> QED
    BY <1>3, <2>1
<1>6. CASE PostInject(o) \/ Post(o)
  <2>1. Observed(o) = "none" /\ Observed(o)' = "open"
    BY <1>1, <1>6 DEF PostInject, Post, ClientInv, TypeOK, Observed, BeforePost
  <2> QED
    BY <1>3, <2>1, ObservedMoves
<1>7. CASE \/ Call(o) \/ DispatchFailure(o) \/ RefuseDestination(o) \/ AcquireCheck(o)
           \/ (\E r \in Region : AcquirePooled(o, r) \/ AcquireNew(o, r) \/ RegisterOwn(o, r))
           \/ RegisterFails(o) \/ UseBuffer(o) \/ PostFails(o) \/ PostFailed(o)
  <2>1. Observed(o) = "none" /\ Observed(o)' \in {"none", "refused"}
    BY <1>7 DEF ClientInv, TypeOK, Observed, BeforePost, Call, SendAsync, ReceiveAsync, Enter,
      DispatchFailure, RefuseDestination, AcquireCheck, AcquirePooled, AcquireNew, RegisterOwn,
      TakeRegion, RegisterFails, UseBuffer, PostFails, PostFailed
  <2> QED
    BY <1>3, <2>1, ObservedMoves
<1> QED
  BY <1>4, <1>5, <1>6, <1>7 DEF Caller

(* Closing the done channel resolves the future; nothing before it shows.  *)
LEMMA CompleteObserved ==
  ASSUME ClientInv, NEW o \in Op, Complete(o)
  PROVE  F!Next \/ \A p \in Op : Observed(p)' = Observed(p)
<1>1. CASE CloseDone(o)
  <2>1. pc[o] \in {"completing", "returned"} /\ comp[o] = "emitted" /\ res[o] \in {"ok", "error"}
    BY <1>1 DEF CloseDone, ClientInv, CallInv, CompletionInv, VerdictMatches
  <2>2. Observed(o) = "open" /\ Observed(o)' \in {"ok", "error"}
    BY <1>1, <2>1 DEF CloseDone, ClientInv, TypeOK, Observed, BeforePost
  <2>3. \A p \in Op \ {o} : Observed(p)' = Observed(p)
    BY <1>1 DEF CloseDone, ClientInv, TypeOK, Observed, BeforePost
  <2> QED
    BY <2>2, <2>3, ObservedMoves
<1>2. CASE Emit(o)
  BY <1>2 DEF Emit, ClientInv, TypeOK, Observed, BeforePost
<1>3. CASE ReleaseClose(o) \/ ReleaseCheck(o) \/ ReleasePut(o)
  BY <1>3 DEF ReleaseClose, ReleaseCheck, ReleasePut, GiveRegion, opVars, Observed, BeforePost
<1> QED
  BY <1>1, <1>2, <1>3 DEF Complete

(* The provider, the dispatcher, Close and the handlers show nothing.      *)
LEMMA OthersObserved ==
  ASSUME ClientInv,
         \/ Provider \/ Dispatch \/ CloseSwap \/ Closing
         \/ \E k \in Kinds, h \in Handler : RegisterHandler(k, h) \/ UnregisterHandler(k, h)
  PROVE  \A p \in Op : Observed(p)' = Observed(p)
<1>1. CASE HandleCompletion
  <2>1. dop \in Op /\ comp[dop] = "none" /\ pc[dop] = "returned"
    BY <1>1 DEF HandleCompletion, ClientInv, DispatcherInv, CallInv
  <2> QED
    BY <1>1, <2>1 DEF HandleCompletion, Record, ClientInv, TypeOK, Observed, BeforePost
<1>2. CASE Provider
  BY <1>2 DEF Provider, Deliver, DeliverError, Fault, opVars, Observed, BeforePost
<1>3. CASE Dispatch /\ ~HandleCompletion
  BY <1>3 DEF Dispatch, DispatchTop, ReadContext, ReadContextFails, ReadContextEmpty, ReadError,
    ReadErrorEmpty, Wake, StopInSleep, Resolve, DropCompletion, opVars, Observed, BeforePost
<1>4. CASE CloseSwap \/ Closing
  BY <1>4 DEF CloseSwap, Closing, CloseStep, CloseJoin, CloseHandlers, ClosePool, CloseDrain,
    CloseDrained, CloseEndpoint, CloseQueues, opVars, Observed, BeforePost
<1>5. CASE \E k \in Kinds, h \in Handler : RegisterHandler(k, h) \/ UnregisterHandler(k, h)
  BY <1>5 DEF RegisterHandler, UnregisterHandler, opVars, Observed, BeforePost
<1> QED
  BY <1>1, <1>2, <1>3, <1>4, <1>5

(* The client implements the futures it promises: a call is refused or     *)
(* accepted once, and its result is published once and never changes.      *)
THEOREM ClientImplementsFuture == Spec => ImplementsFuture
<1>1. Init => F!Init
  BY DEF Init, F!Init, Observed, BeforePost
<1>2. ClientInv /\ [Next]_vars => [F!Next]_([o \in Op |-> Observed(o)])
  <2> SUFFICES ASSUME ClientInv, [Next]_vars
               PROVE  F!Next \/ \A p \in Op : Observed(p)' = Observed(p)
    BY ObservedKept
  <2>1. ASSUME NEW o \in Op, Call(o) \/ Caller(o)
        PROVE  F!Next \/ \A p \in Op : Observed(p)' = Observed(p)
    BY <2>1, CallerObserved
  <2>2. ASSUME NEW o \in Op, Complete(o)
        PROVE  F!Next \/ \A p \in Op : Observed(p)' = Observed(p)
    BY <2>2, CompleteObserved
  <2>3. CASE \/ Provider \/ Dispatch \/ CloseSwap \/ Closing
             \/ \E k \in Kinds, h \in Handler : RegisterHandler(k, h) \/ UnregisterHandler(k, h)
    BY <2>3, OthersObserved
  <2>4. CASE UNCHANGED vars
    BY <2>4 DEF vars, opVars, Observed, BeforePost
  <2> QED
    BY <2>1, <2>2, <2>3, <2>4 DEF Next
<1> QED
  BY <1>1, <1>2, ClientCorrect, PTL DEF Spec, ImplementsFuture, F!Spec

(* What the refinement mapping of the lease makes of a good state.         *)
LEMMA StageOfRegion ==
  ASSUME ClientInv
  PROVE  /\ L!Spares = PooledRegions
         /\ \A o \in Op : mem[o] # NoRegion => mem[o] \in Region /\ region[mem[o]] = "held"
BY DEF ClientInv, TypeOK, RegionInv, L!Spares, PooledRegions, Stage

(* A step that changes one region changes one value of the mapping.        *)
LEMMA OneRegionMoves ==
  ASSUME NEW r \in Region, NEW s, Stage(r)' = s,
         \A q \in Region \ {r} : Stage(q)' = Stage(q)
  PROVE  [q \in Region |-> Stage(q)]' = [[q \in Region |-> Stage(q)] EXCEPT ![r] = s]
OBVIOUS

(* A step that touches no region leaves the mapping alone.                 *)
LEMMA RegionsKept ==
  ASSUME UNCHANGED <<region, mem>>
  PROVE  UNCHANGED <<[r \in Region |-> Stage(r)], mem>>
<1>1. \A r \in Region : Stage(r)' = Stage(r)
  BY DEF Stage
<1> QED
  BY <1>1

(* A call that gets a region obtains a lease.                              *)
LEMMA TakeIsObtain ==
  ASSUME ClientInv, NEW o \in Op, NEW r \in Region, mem[o] = NoRegion, TakeRegion(o, r)
  PROVE  L!Obtain(o, r, Stage(r))
<1>1. Stage(r)' = "leased" /\ \A q \in Region \ {r} : Stage(q)' = Stage(q)
  BY DEF ClientInv, TypeOK, TakeRegion, Stage
<1> QED
  BY <1>1, OneRegionMoves DEF L!Obtain, TakeRegion

(* release gives the region up, unless the operation never had one.        *)
LEMMA GiveIsGiveUp ==
  ASSUME ClientInv, NEW o \in Op, NEW s \in {"pooled", "closed"}, GiveRegion(o, s)
  PROVE  \/ mem[o] = NoRegion /\ UNCHANGED <<mem, region>>
         \/ mem[o] \in Region /\ L!GiveUp(o, IF s = "pooled" THEN "spare" ELSE "gone")
<1>1. CASE mem[o] = NoRegion
  BY <1>1, ClientAssumption DEF GiveRegion, ClientInv, TypeOK
<1>2. ASSUME NEW r \in Region, mem[o] = r
      PROVE  mem[o] \in Region /\ L!GiveUp(o, IF s = "pooled" THEN "spare" ELSE "gone")
  <2>1. /\ Stage(r)' = (IF s = "pooled" THEN "spare" ELSE "gone")
        /\ \A q \in Region \ {r} : Stage(q)' = Stage(q)
    BY <1>2 DEF GiveRegion, ClientInv, TypeOK, Stage
  <2> QED
    BY <1>2, <2>1, OneRegionMoves DEF L!GiveUp, GiveRegion
<1> QED
  BY <1>1, <1>2 DEF ClientInv, TypeOK

(* Every step of the client is a step of the lease or leaves it alone.     *)
LEMMA StepIsLease ==
  ClientInv /\ [Next]_vars => [L!Next]_<<[r \in Region |-> Stage(r)], mem>>
<1> SUFFICES ASSUME ClientInv, [Next]_vars PROVE L!Next \/ UNCHANGED <<region, mem>>
  BY RegionsKept
<1>1. ASSUME NEW o \in Op, NEW r \in Region, AcquirePooled(o, r) \/ AcquireNew(o, r) \/ RegisterOwn(o, r)
      PROVE  L!Next
  <2>1. mem[o] = NoRegion /\ TakeRegion(o, r) /\ Stage(r) \in {"unregistered", "spare"}
    BY <1>1 DEF ClientInv, RegionInv, AcquirePooled, AcquireNew, RegisterOwn, PooledRegions, Stage
  <2>2. L!Register(o, r) \/ L!Borrow(o, r)
    BY <2>1, TakeIsObtain DEF L!Register, L!Borrow
  <2> QED
    BY <2>2 DEF L!Next
<1>2. ASSUME NEW o \in Op, ReleaseClose(o) PROVE L!Next \/ UNCHANGED <<region, mem>>
  BY <1>2, GiveIsGiveUp DEF ReleaseClose, L!Next, L!Discard
<1>3. ASSUME NEW o \in Op, ReleasePut(o) PROVE L!Next \/ UNCHANGED <<region, mem>>
  <2>1. CASE Cardinality(PooledRegions) < PoolCapacity
    <3>1. GiveRegion(o, "pooled")
      BY <1>3, <2>1 DEF ReleasePut
    <3>2. Cardinality(L!Spares) < PoolCapacity
      BY <2>1, StageOfRegion
    <3>3. UNCHANGED <<region, mem>> \/ L!Return(o)
      BY <3>1, <3>2, GiveIsGiveUp DEF L!Return, L!Cardinality, Cardinality
    <3> QED
      BY <3>3 DEF L!Next
  <2>2. CASE ~(Cardinality(PooledRegions) < PoolCapacity)
    <3>1. GiveRegion(o, "closed")
      BY <1>3, <2>2 DEF ReleasePut
    <3> QED
      BY <3>1, GiveIsGiveUp DEF L!Next, L!Discard
  <2> QED
    BY <2>1, <2>2
<1>4. ASSUME NEW r \in Region, CloseDrain(r) PROVE L!Next
  <2>1. Stage(r) = "spare" /\ Stage(r)' = "gone" /\ \A q \in Region \ {r} : Stage(q)' = Stage(q)
    BY <1>4 DEF ClientInv, TypeOK, CloseDrain, PooledRegions, Stage
  <2>2. [q \in Region |-> Stage(q)]' = [[q \in Region |-> Stage(q)] EXCEPT ![r] = "gone"]
    BY <2>1, OneRegionMoves
  <2>3. L!Drop(r)
    BY <1>4, <2>1, <2>2 DEF L!Drop, CloseDrain, CloseStep
  <2> QED
    BY <2>3 DEF L!Next
<1>5. ASSUME NEW o \in Op, \/ Call(o) \/ DispatchFailure(o) \/ RefuseDestination(o) \/ AcquireCheck(o)
                           \/ RegisterFails(o) \/ UseBuffer(o) \/ PostInject(o) \/ Post(o) \/ PostFails(o)
                           \/ PostFailed(o) \/ CountPosted(o) \/ SetValue(o) \/ CompleteInjected(o)
      PROVE  UNCHANGED <<region, mem>>
  BY <1>5 DEF memVars, Call, SendAsync, ReceiveAsync, Enter, DispatchFailure, RefuseDestination,
    AcquireCheck, RegisterFails, UseBuffer, PostInject, Post, PostFails, PostFailed, CountPosted,
    SetValue, CompleteInjected
<1>6. ASSUME NEW o \in Op, Emit(o) \/ ReleaseCheck(o) \/ CloseDone(o) PROVE UNCHANGED <<region, mem>>
  BY <1>6 DEF memVars, Emit, ReleaseCheck, CloseDone
<1>7. CASE Provider
  BY <1>7 DEF memVars, Provider, Deliver, DeliverError, Fault
<1>8. CASE Dispatch
  BY <1>8 DEF memVars, Dispatch, DispatchTop, ReadContext, ReadContextFails, ReadContextEmpty, ReadError,
    ReadErrorEmpty, Wake, StopInSleep, Resolve, HandleCompletion, DropCompletion
<1>9. CASE CloseSwap \/ CloseJoin \/ CloseHandlers \/ ClosePool \/ CloseDrained \/ CloseEndpoint \/ CloseQueues
  BY <1>9 DEF CloseSwap, CloseStep, CloseJoin, CloseHandlers, ClosePool, CloseDrained, CloseEndpoint, CloseQueues
<1>10. CASE \/ UNCHANGED vars
            \/ \E k \in Kinds, h \in Handler : RegisterHandler(k, h) \/ UnregisterHandler(k, h)
  BY <1>10 DEF vars, memVars, RegisterHandler, UnregisterHandler
<1> QED
  BY <1>1, <1>2, <1>3, <1>4, <1>5, <1>6, <1>7, <1>8, <1>9, <1>10 DEF Next, Caller, Complete, Closing

(* The client leases the memory of its operations as module Lease says,    *)
(* whatever callers, provider, dispatcher and Close do, for every number   *)
(* of operations and regions and every capacity of the pool.               *)
THEOREM ClientImplementsLease == Spec => ImplementsLease
<1>1. Init => L!Init
  BY DEF Init, L!Init, Stage
<1> QED
  BY <1>1, StepIsLease, ClientCorrect, PTL DEF Spec, ImplementsLease, L!Spec

-----------------------------------------------------------------------------
(* The client implements the abstract delivery (module Delivery).          *)

(* A step that moves one operation changes one value of a mapping.         *)
LEMMA Advanced ==
  ASSUME NEW o \in Op, NEW v, Progress(o)' = v,
         \A p \in Op \ {o} : prov'[p] = prov[p]
  PROVE  D!Advance(o, v)
<1>1. \A p \in Op \ {o} : Progress(p)' = Progress(p)
  BY DEF Progress
<1> QED
  BY <1>1 DEF D!Advance

LEMMA Turned ==
  ASSUME NEW o \in Op, NEW v, Standing(o)' = v,
         \A p \in Op \ {o} : Standing(p)' = Standing(p)
  PROVE  D!Turn(o, v)
BY DEF D!Turn

(* One that leaves provider and contexts alone changes neither.            *)
LEMMA ProgressKept ==
  ASSUME UNCHANGED prov PROVE UNCHANGED [o \in Op |-> Progress(o)]
<1>1. \A o \in Op : Progress(o)' = Progress(o)
  BY DEF Progress
<1> QED
  BY <1>1

LEMMA StandingsKept ==
  ASSUME \A o \in Op : Standing(o)' = Standing(o)
  PROVE  UNCHANGED [o \in Op |-> Standing(o)]
OBVIOUS

LEMMA DeliveryKept ==
  ASSUME UNCHANGED <<ctx, prov>> PROVE UNCHANGED D!vars
<1>1. \A o \in Op : Standing(o)' = Standing(o)
  BY DEF Standing
<1> QED
  BY <1>1, ProgressKept, StandingsKept DEF D!vars

(* The caller's post registers the context and hands the operation over.   *)
LEMMA CallerDelivery ==
  ASSUME ClientInv, NEW o \in Op, Call(o) \/ Caller(o)
  PROVE  D!Next \/ UNCHANGED D!vars
<1>1. CASE Post(o)
  <2>1. prov[o] = "none" /\ ctx[o] = "absent"
    BY <1>1 DEF Post, ClientInv, TypeOK, CallInv, CompletionInv
  <2>2. /\ ctx' = [ctx EXCEPT ![o] = "registered"]
        /\ prov' = [prov EXCEPT ![o] = "pending"]
    BY <1>1 DEF Post
  <2>3. /\ Progress(o) = "unposted" /\ Standing(o) = "none"
        /\ Progress(o)' = "posted" /\ Standing(o)' = "registered"
        /\ \A p \in Op \ {o} : prov'[p] = prov[p] /\ Standing(p)' = Standing(p)
    BY <2>1, <2>2 DEF ClientInv, TypeOK, Progress, Standing
  <2> QED
    BY <2>3, Advanced, Turned DEF D!Submit, D!Next
<1>2. CASE ~Post(o)
  <2>1. UNCHANGED <<ctx, prov>>
    BY <1>2 DEF Call, Caller, SendAsync, ReceiveAsync, Enter, DispatchFailure, RefuseDestination,
      AcquireCheck, AcquirePooled, AcquireNew, RegisterOwn, TakeRegion, RegisterFails, UseBuffer,
      PostInject, PostFails, PostFailed, CountPosted, SetValue, CompleteInjected, ctxVars
  <2> QED
    BY <2>1, DeliveryKept
<1> QED
  BY <1>1, <1>2

(* The provider reports an operation.                                      *)
LEMMA ProviderDelivery ==
  ASSUME ClientInv, Provider PROVE D!Next \/ UNCHANGED D!vars
<1>1. ASSUME NEW o \in Op, Deliver(o) \/ DeliverError(o) PROVE D!Report(o)
  <2>1. /\ prov[o] = "pending" /\ prov'[o] \in {"event", "error"} /\ UNCHANGED ctx
        /\ \A p \in Op \ {o} : prov'[p] = prov[p]
    BY <1>1 DEF Deliver, DeliverError, ClientInv, TypeOK, ctxVars
  <2>2. /\ Progress(o) = "posted" /\ Progress(o)' = "reported"
        /\ \A p \in Op : Standing(p)' = Standing(p)
    BY <2>1 DEF Progress, Standing
  <2> QED
    BY <2>1, <2>2, Advanced, StandingsKept DEF D!Report
<1> QED
  BY <1>1, DeliveryKept DEF Provider, Fault, ctxVars, D!Next

(* The dispatcher reads a completion or an error entry and resolves it.    *)
LEMMA DispatchDelivery ==
  ASSUME ClientInv, Dispatch PROVE D!Next \/ UNCHANGED D!vars
<1>1. ASSUME NEW o \in Op, ReadContext(o) \/ ReadError(o) PROVE D!Read(o)
  <2>1. /\ prov[o] \in {"event", "error"} /\ prov'[o] \in {"readEvent", "readError"} /\ UNCHANGED ctx
        /\ \A p \in Op \ {o} : prov'[p] = prov[p]
    BY <1>1 DEF ReadContext, ReadError, ClientInv, TypeOK, ctxVars
  <2>2. /\ Progress(o) = "reported" /\ Progress(o)' = "read"
        /\ \A p \in Op : Standing(p)' = Standing(p)
    BY <2>1 DEF Progress, Standing
  <2> QED
    BY <2>1, <2>2, Advanced, StandingsKept DEF D!Read
<1>2. CASE Resolve
  <2>1. PICK o \in Op : dop = o /\ prov[o] \in {"readEvent", "readError"}
    BY <1>2 DEF Resolve, ClientInv, DispatcherInv, Read
  <2>2. ctx' = [ctx EXCEPT ![o] = "absent"] /\ UNCHANGED prov
    BY <1>2, <2>1 DEF Resolve
  <2>3. /\ Progress(o) = "read" /\ Standing(o)' = "released"
        /\ \A p \in Op \ {o} : Standing(p)' = Standing(p)
    BY <2>1, <2>2 DEF ClientInv, TypeOK, Progress, Standing
  <2>4. CASE ctx[o] = "registered"
    <3>1. Standing(o) = "registered"
      BY <2>4 DEF Standing
    <3>2. D!Resolve(o)
      BY <2>2, <2>3, <3>1, Turned, ProgressKept DEF D!Resolve
    <3> QED
      BY <3>2 DEF D!Next
  <2>5. CASE ctx[o] # "registered"
    <3>1. \A p \in Op : Standing(p)' = Standing(p)
      BY <2>1, <2>3, <2>5 DEF Standing
    <3> QED
      BY <2>2, <3>1, ProgressKept, StandingsKept DEF D!vars
  <2> QED
    BY <2>4, <2>5
<1>3. CASE \/ DispatchTop \/ ReadContextFails \/ ReadContextEmpty \/ ReadErrorEmpty
           \/ Wake \/ StopInSleep \/ HandleCompletion \/ DropCompletion
  BY <1>3, DeliveryKept DEF DispatchTop, ReadContextFails, ReadContextEmpty, ReadErrorEmpty, Wake,
    StopInSleep, HandleCompletion, DropCompletion, ctxVars
<1> QED
  BY <1>1, <1>2, <1>3 DEF Dispatch, D!Next

(* Every step is one of the abstract delivery, or changes no operation.    *)
LEMMA StepIsDelivery ==
  ASSUME ClientInv, [Next]_vars PROVE D!Next \/ UNCHANGED D!vars
<1>1. ASSUME NEW o \in Op, Complete(o) PROVE UNCHANGED D!vars
  BY <1>1, DeliveryKept DEF Complete, Emit, ReleaseClose, ReleaseCheck, ReleasePut, GiveRegion,
    CloseDone, ctxVars
<1>2. CASE CloseSwap \/ Closing
  BY <1>2, DeliveryKept DEF CloseSwap, Closing, CloseStep, CloseJoin, CloseHandlers, ClosePool,
    CloseDrain, CloseDrained, CloseEndpoint, CloseQueues, ctxVars
<1>3. CASE \E k \in Kinds, h \in Handler : RegisterHandler(k, h) \/ UnregisterHandler(k, h)
  BY <1>3, DeliveryKept DEF RegisterHandler, UnregisterHandler, ctxVars
<1>4. CASE UNCHANGED vars
  BY <1>4, DeliveryKept DEF vars, ctxVars
<1> QED
  BY <1>1, <1>2, <1>3, <1>4, CallerDelivery, ProviderDelivery, DispatchDelivery DEF Next

(* The client resolves the context of every completion it reads, once, and *)
(* leaves to the provider those it has not read, also when it is closed.   *)
THEOREM ClientImplementsDelivery == Spec => ImplementsDelivery
<1>1. Init => D!Init
  BY DEF Init, D!Init, Progress, Standing
<1>2. ClientInv /\ [Next]_vars => [D!Next]_(D!vars)
  BY StepIsDelivery
<1> QED
  BY <1>1, <1>2, ClientCorrect, PTL DEF Spec, ImplementsDelivery, D!Spec
=============================================================================
