--------------------------- MODULE SyncWaitProofs ---------------------------
(* Proofs about SyncWait, for any number of blocking calls and of other    *)
(* operations on the same queue.                                           *)
EXTENDS SyncWait, TLAPS

LEMMA InitSync == Init => SyncInv
BY SyncAssumption DEF Init, SyncInv, TypeOK, HandInv, CallInv, OwnVerdict, ContextWhilePending,
  OneResolver, ContextInv, Op, Waiting

(* Every step keeps the invariant.                                         *)
LEMMA NextSync == SyncInv /\ [Next]_vars => SyncInv'
<1> SUFFICES ASSUME SyncInv, [Next]_vars PROVE SyncInv'
  OBVIOUS
<1> USE SyncAssumption DEF SyncInv, TypeOK, HandInv, CallInv, OwnVerdict, ContextWhilePending,
  OneResolver, ContextInv, Op, Waiting
<1>1. ASSUME NEW c \in Call, NEW m \in {"poll", "bounded", "forever"}, Post(c, m) PROVE SyncInv'
  BY <1>1 DEF Post, Posted
<1>2. ASSUME NEW c \in Call, PostInject(c) PROVE SyncInv'
  BY <1>2 DEF PostInject, Return
<1>3. ASSUME NEW c \in Call, PostFails(c) PROVE SyncInv'
  BY <1>3 DEF PostFails, Return
<1>4. ASSUME NEW b \in Background, PostBackground(b) PROVE SyncInv'
  BY <1>4 DEF PostBackground, Posted
<1>5. ASSUME NEW o \in Op, Deliver(o) \/ DeliverError(o) PROVE SyncInv'
  BY <1>5 DEF Deliver, DeliverError
<1>6. ASSUME NEW c \in Call, Expire(c) PROVE SyncInv'
  <2>1. expired' \in [Call -> BOOLEAN]
    BY <1>6 DEF Expire
  <2> QED
    BY <1>6, <2>1 DEF Expire
<1>7. ASSUME NEW c \in Call, Cancel(c) PROVE SyncInv'
  <2>1. cancelled' \in [Call -> BOOLEAN]
    BY <1>7 DEF Cancel
  <2> QED
    BY <1>7, <2>1 DEF Cancel
<1>8. ASSUME NEW c \in Call, Wait(c) PROVE SyncInv'
  <2>1. CASE CheckCancelled(c)
    BY <2>1 DEF CheckCancelled, Return
  <2>2. ASSUME NEW o \in Op, ReadEvent(c, o) PROVE SyncInv'
    BY <2>2 DEF ReadEvent
  <2>3. CASE ReadFails(c)
    BY <2>3 DEF ReadFails, Return
  <2>4. CASE ReadEmpty(c)
    BY <2>4 DEF ReadEmpty, Return
  <2>5. CASE Wake(c)
    BY <2>5 DEF Wake
  <2>6. CASE Resolve(c)
    BY <2>6 DEF Resolve, Return
  <2> QED
    BY <1>8, <2>1, <2>2, <2>3, <2>4, <2>5, <2>6 DEF Wait
<1>9. CASE UNCHANGED vars
  BY <1>9 DEF vars
<1>10. ASSUME NEW c \in Call, PostNoQueue(c) PROVE SyncInv'
  BY <1>10 DEF PostNoQueue, Posted, Return
<1>11. CASE CloseQueue
  <2>1. open' \in BOOLEAN
    BY <1>11 DEF CloseQueue
  <2> QED
    BY <1>11, <2>1 DEF CloseQueue
<1> QED
  BY <1>1, <1>2, <1>3, <1>4, <1>5, <1>6, <1>7, <1>8, <1>9, <1>10, <1>11 DEF Next

(* The invariant holds in every behaviour of any number of calls.          *)
THEOREM SyncCorrect == Spec => []SyncInv
BY InitSync, NextSync, PTL DEF Spec

(* Success is reported exactly by the call that read its own completion.   *)
THEOREM SuccessIsOwn == Spec => []OwnVerdict
<1>1. SyncInv => OwnVerdict
  BY DEF SyncInv
<1> QED
  BY <1>1, SyncCorrect, PTL

(* The provider never holds the pointer of a context that was freed.       *)
THEOREM ContextOutlivesPost == Spec => []ContextWhilePending
<1>1. SyncInv => ContextWhilePending
  BY DEF SyncInv
<1> QED
  BY <1>1, SyncCorrect, PTL

(* No two calls resolve the same completion.                               *)
THEOREM ResolvedByOne == Spec => []OneResolver
<1>1. SyncInv => OneResolver
  BY DEF SyncInv
<1> QED
  BY <1>1, SyncCorrect, PTL

(* A call that waits on although its context was resolved lost its         *)
(* completion to another call.                                             *)
THEOREM MissedReturnIsTheft == Spec => []ReadElsewhere
<1>1. SyncInv => ReadElsewhere
  BY SyncAssumption DEF SyncInv, TypeOK, HandInv, CallInv, OneResolver, ContextInv, ReadElsewhere, Op
<1> QED
  BY <1>1, SyncCorrect, PTL

(* So a call that has the queue to itself, apart from operations nobody    *)
(* waits for, has returned when its context is released: ResolvedReturns   *)
(* takes a second call to fail.                                            *)
THEOREM SoleCallerReturns ==
  ASSUME NEW c \in Call, Call = {c}
  PROVE  Spec => [](ctx[c] = "released" => pc[c] = "returned")
<1>1. SyncInv /\ ReadElsewhere => (ctx[c] = "released" => pc[c] = "returned")
  BY DEF SyncInv, TypeOK, CallInv, ReadElsewhere, Waiting
<1> QED
  BY <1>1, SyncCorrect, MissedReturnIsTheft, PTL

-----------------------------------------------------------------------------
(* Blocking calls implement the abstract delivery (module Delivery).       *)

\* One operation gets further, its context is turned over, or neither.
LEMMA Advanced ==
  ASSUME NEW o \in Op, NEW v, Progress(o)' = v,
         \A p \in Op \ {o} : prov'[p] = prov[p]
  PROVE  D!Advance(o, v)
<1>1. \A p \in Op \ {o} : Progress(p)' = Progress(p)
  BY DEF Progress
<1> QED
  BY <1>1 DEF D!Advance

LEMMA Turned ==
  ASSUME NEW o \in Op, NEW v, Standing(o)' = v,
         \A p \in Op \ {o} : ctx'[p] = ctx[p]
  PROVE  D!Turn(o, v)
<1>1. \A p \in Op \ {o} : Standing(p)' = Standing(p)
  BY DEF Standing
<1> QED
  BY <1>1 DEF D!Turn

LEMMA ProgressKept ==
  ASSUME \A o \in Op : Progress(o)' = Progress(o)
  PROVE  UNCHANGED [o \in Op |-> Progress(o)]
OBVIOUS

LEMMA StandingsKept ==
  ASSUME UNCHANGED ctx PROVE UNCHANGED [o \in Op |-> Standing(o)]
<1>1. \A o \in Op : Standing(o)' = Standing(o)
  BY DEF Standing
<1> QED
  BY <1>1

\* Whoever posts an operation had no context of it, or a released one.
LEMMA PostedIsPost ==
  ASSUME SyncInv, NEW o \in Op, Posted(o), prov[o] \in {"none", "read"}, ctx[o] # "registered"
  PROVE  D!Submit(o)
<1>1. \/ Progress(o) = "unposted" /\ Standing(o) = "none"
      \/ Progress(o) = "read" /\ Standing(o) = "released"
  BY DEF SyncInv, TypeOK, ContextInv, Progress, Standing
<1>2. /\ Progress(o)' = "posted" /\ Standing(o)' = "registered"
      /\ \A p \in Op \ {o} : prov'[p] = prov[p] /\ ctx'[p] = ctx[p]
  BY DEF SyncInv, TypeOK, Posted, Progress, Standing
<1> QED
  BY <1>1, <1>2, Advanced, Turned DEF D!Submit

(* Every step is one of the abstract delivery, or changes no operation.    *)
LEMMA StepIsDelivery ==
  ASSUME SyncInv, [Next]_vars PROVE D!Next \/ UNCHANGED D!vars
<1> USE SyncAssumption DEF SyncInv, TypeOK, Op
<1>1. ASSUME NEW o \in Op, Posted(o), prov[o] \in {"none", "read"}, ctx[o] # "registered"
      PROVE  D!Next
  BY <1>1, PostedIsPost DEF D!Next
<1>2. ASSUME NEW o \in Op, UNCHANGED ctx, prov[o] = "none", prov' = [prov EXCEPT ![o] = "injected"]
      PROVE  UNCHANGED D!vars
  <2>1. \A p \in Op : Progress(p)' = Progress(p)
    BY <1>2 DEF Progress
  <2> QED
    BY <1>2, <2>1, ProgressKept, StandingsKept DEF D!vars
<1>3. ASSUME NEW o \in Op, Deliver(o) \/ DeliverError(o) PROVE D!Report(o)
  <2>1. /\ Progress(o) = "posted" /\ Progress(o)' = "reported" /\ UNCHANGED ctx
        /\ \A p \in Op \ {o} : prov'[p] = prov[p]
    BY <1>3 DEF Deliver, DeliverError, Progress
  <2> QED
    BY <2>1, Advanced, StandingsKept DEF D!Report
<1>4. ASSUME NEW c \in Call, NEW o \in Op, ReadEvent(c, o) PROVE D!Read(o)
  <2>1. /\ Progress(o) = "reported" /\ Progress(o)' = "read" /\ UNCHANGED ctx
        /\ \A p \in Op \ {o} : prov'[p] = prov[p]
    BY <1>4 DEF ReadEvent, Progress
  <2> QED
    BY <2>1, Advanced, StandingsKept DEF D!Read
<1>5. ASSUME NEW c \in Call, Resolve(c) PROVE \E o \in Op : D!Resolve(o)
  <2>1. PICK o \in Op : hand[c] = o /\ prov[o] = "read" /\ ctx[o] = "registered"
    BY <1>5 DEF Resolve, HandInv, OneResolver
  <2>2. ctx' = [ctx EXCEPT ![o] = "released"] /\ UNCHANGED prov
    BY <1>5, <2>1 DEF Resolve
  <2>3. /\ Progress(o) = "read" /\ Standing(o) = "registered" /\ Standing(o)' = "released"
        /\ \A p \in Op : Progress(p)' = Progress(p)
    BY <2>1, <2>2 DEF Progress, Standing
  <2> QED
    BY <2>2, <2>3, Turned, ProgressKept DEF D!Resolve
<1>6. ASSUME UNCHANGED <<prov, ctx>> PROVE UNCHANGED D!vars
  <2>1. \A o \in Op : Progress(o)' = Progress(o)
    BY <1>6 DEF Progress
  <2> QED
    BY <1>6, <2>1, ProgressKept, StandingsKept DEF D!vars
<1>7. ASSUME NEW c \in Call, NEW m \in {"poll", "bounded", "forever"}, Post(c, m) PROVE D!Next
  BY <1>1, <1>7 DEF Post, CallInv
<1>8. ASSUME NEW b \in Background, PostBackground(b) PROVE D!Next
  BY <1>1, <1>8 DEF PostBackground
<1>11. ASSUME NEW c \in Call, PostNoQueue(c) PROVE D!Next
  BY <1>1, <1>11 DEF PostNoQueue, CallInv
<1>12. ASSUME CloseQueue PROVE UNCHANGED <<prov, ctx>>
  BY <1>12 DEF CloseQueue
<1>9. ASSUME NEW c \in Call, PostInject(c) PROVE UNCHANGED D!vars
  BY <1>2, <1>9 DEF PostInject, CallInv
<1>10. ASSUME NEW c \in Call,
              PostFails(c) \/ Expire(c) \/ Cancel(c) \/ CheckCancelled(c) \/ ReadFails(c)
              \/ ReadEmpty(c) \/ Wake(c)
       PROVE  UNCHANGED <<prov, ctx>>
  BY <1>10 DEF PostFails, Expire, Cancel, CheckCancelled, ReadFails, ReadEmpty, Wake
<1> QED
  BY <1>3, <1>4, <1>5, <1>6, <1>7, <1>8, <1>9, <1>10, <1>11, <1>12 DEF Next, Wait, vars, D!Next

(* Calls that time out, are cancelled or read each other's completions     *)
(* release every context once, after its completion was read.              *)
THEOREM CallsImplementDelivery == Spec => ImplementsDelivery
<1>1. Init => D!Init
  BY DEF Init, D!Init, Progress, Standing
<1>2. SyncInv /\ [Next]_vars => [D!Next]_(D!vars)
  BY StepIsDelivery
<1> QED
  BY <1>1, <1>2, SyncCorrect, PTL DEF Spec, ImplementsDelivery, D!Spec
=============================================================================
