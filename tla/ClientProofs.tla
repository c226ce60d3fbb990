---------------------------- MODULE ClientProofs ----------------------------
(* Proofs about Client, for every set of operations, regions and handlers  *)
(* and every configuration of pool, inject limit and memory registration.  *)
EXTENDS Client, FiniteSetTheorems, TLAPS

(* Every part of the invariant except the counters.                        *)
Links ==
  /\ TypeOK
  /\ CallInv
  /\ CompletionInv
  /\ DispatcherInv
  /\ RegionInv
  /\ VerdictMatches
  /\ TornDownAfterDispatcher

(* A step that counts nothing and changes the kind of no counted operation *)
(* keeps the counters exact.                                               *)
LEMMA StatsKept ==
  ASSUME StatsExact, UNCHANGED statVars,
         \A o \in Op : (Counted(o)' <=> Counted(o)) /\ (Finished(o)' <=> Finished(o)),
         \A o \in Op : Counted(o) \/ Finished(o) => kind'[o] = kind[o]
  PROVE  StatsExact'
<1>1. \A k \in Kinds : CountedOps(k)' = CountedOps(k) /\ FinishedOps(k)' = FinishedOps(k)
  BY DEF CountedOps, FinishedOps
<1> QED
  BY <1>1 DEF StatsExact, statVars

(* sendAsync and ReceiveAsync keep the invariant.                          *)
LEMMA CallerStep ==
  ASSUME ClientInv, NEW o \in Op,
         \/ \E k \in Kinds, n \in Lens : Enter(o, k, n)
         \/ DispatchFailure(o)
         \/ RefuseDestination(o)
         \/ AcquireCheck(o)
         \/ \E r \in Region : AcquirePooled(o, r)
         \/ \E r \in Region : AcquireNew(o, r)
         \/ \E r \in Region : RegisterOwn(o, r)
         \/ RegisterFails(o)
         \/ UseBuffer(o)
         \/ PostInject(o)
         \/ Post(o)
         \/ PostFails(o)
         \/ PostFailed(o)
         \/ SetValue(o)
         \/ CompleteInjected(o)
  PROVE  ClientInv'
<1> USE ClientAssumption DEF ClientInv, callVars, memVars, ctxVars, opVars, dispVars, userVars, statVars, Goto, Read, UsesPool, UsesRegion
<1>1. ASSUME NEW k \in Kinds, NEW n \in Lens, Enter(o, k, n) PROVE ClientInv'
  <2>1. Links'
    BY <1>1 DEF Enter, Closed, Links, TypeOK, CallInv, CompletionInv, DispatcherInv, RegionInv, VerdictMatches, TornDownAfterDispatcher
  <2>2. StatsExact'
    BY <1>1, StatsKept DEF Enter, Closed, TypeOK, CallInv, CompletionInv, Counted, Finished
  <2> QED
    BY <2>1, <2>2 DEF Links
<1>2. ASSUME DispatchFailure(o) PROVE ClientInv'
  <2>1. Links'
    BY <1>2 DEF DispatchFailure, Links, TypeOK, CallInv, CompletionInv, DispatcherInv, RegionInv, VerdictMatches, TornDownAfterDispatcher
  <2>2. StatsExact'
    BY <1>2, StatsKept DEF DispatchFailure, TypeOK, CallInv, CompletionInv, Counted, Finished
  <2> QED
    BY <2>1, <2>2 DEF Links
<1>3. ASSUME RefuseDestination(o) PROVE ClientInv'
  <2>1. Links'
    BY <1>3 DEF RefuseDestination, Links, TypeOK, CallInv, CompletionInv, DispatcherInv, RegionInv, VerdictMatches, TornDownAfterDispatcher
  <2>2. StatsExact'
    BY <1>3, StatsKept DEF RefuseDestination, TypeOK, CallInv, CompletionInv, Counted, Finished
  <2> QED
    BY <2>1, <2>2 DEF Links
<1>4. ASSUME AcquireCheck(o) PROVE ClientInv'
  <2>1. Links'
    BY <1>4 DEF AcquireCheck, Links, TypeOK, CallInv, CompletionInv, DispatcherInv, RegionInv, VerdictMatches, TornDownAfterDispatcher
  <2>2. StatsExact'
    BY <1>4, StatsKept DEF AcquireCheck, TypeOK, CallInv, CompletionInv, Counted, Finished
  <2> QED
    BY <2>1, <2>2 DEF Links
<1>5. ASSUME NEW r \in Region, AcquirePooled(o, r) PROVE ClientInv'
  <2>1. Links'
    BY <1>5 DEF AcquirePooled, TakeRegion, PooledRegions, Links, TypeOK, CallInv, CompletionInv, DispatcherInv, RegionInv, VerdictMatches, TornDownAfterDispatcher
  <2>2. StatsExact'
    BY <1>5, StatsKept DEF AcquirePooled, TakeRegion, PooledRegions, TypeOK, CallInv, CompletionInv, Counted, Finished
  <2> QED
    BY <2>1, <2>2 DEF Links
<1>6. ASSUME NEW r \in Region, AcquireNew(o, r) PROVE ClientInv'
  <2>1. Links'
    BY <1>6 DEF AcquireNew, TakeRegion, PooledRegions, Links, TypeOK, CallInv, CompletionInv, DispatcherInv, RegionInv, VerdictMatches, TornDownAfterDispatcher
  <2>2. StatsExact'
    BY <1>6, StatsKept DEF AcquireNew, TakeRegion, PooledRegions, TypeOK, CallInv, CompletionInv, Counted, Finished
  <2> QED
    BY <2>1, <2>2 DEF Links
<1>7. ASSUME NEW r \in Region, RegisterOwn(o, r) PROVE ClientInv'
  <2>1. Links'
    BY <1>7 DEF RegisterOwn, TakeRegion, PooledRegions, Links, TypeOK, CallInv, CompletionInv, DispatcherInv, RegionInv, VerdictMatches, TornDownAfterDispatcher
  <2>2. StatsExact'
    BY <1>7, StatsKept DEF RegisterOwn, TakeRegion, PooledRegions, TypeOK, CallInv, CompletionInv, Counted, Finished
  <2> QED
    BY <2>1, <2>2 DEF Links
<1>8. ASSUME RegisterFails(o) PROVE ClientInv'
  <2>1. Links'
    BY <1>8 DEF RegisterFails, Links, TypeOK, CallInv, CompletionInv, DispatcherInv, RegionInv, VerdictMatches, TornDownAfterDispatcher
  <2>2. StatsExact'
    BY <1>8, StatsKept DEF RegisterFails, TypeOK, CallInv, CompletionInv, Counted, Finished
  <2> QED
    BY <2>1, <2>2 DEF Links
<1>9. ASSUME UseBuffer(o) PROVE ClientInv'
  <2>1. Links'
    BY <1>9 DEF UseBuffer, Links, TypeOK, CallInv, CompletionInv, DispatcherInv, RegionInv, VerdictMatches, TornDownAfterDispatcher
  <2>2. StatsExact'
    BY <1>9, StatsKept DEF UseBuffer, TypeOK, CallInv, CompletionInv, Counted, Finished
  <2> QED
    BY <2>1, <2>2 DEF Links
<1>10. ASSUME PostInject(o) PROVE ClientInv'
  <2>1. Links'
    BY <1>10 DEF PostInject, Links, TypeOK, CallInv, CompletionInv, DispatcherInv, RegionInv, VerdictMatches, TornDownAfterDispatcher
  <2>2. StatsExact'
    BY <1>10, StatsKept DEF PostInject, TypeOK, CallInv, CompletionInv, Counted, Finished
  <2> QED
    BY <2>1, <2>2 DEF Links
<1>11. ASSUME Post(o) PROVE ClientInv'
  <2>1. Links'
    BY <1>11 DEF Post, Links, TypeOK, CallInv, CompletionInv, DispatcherInv, RegionInv, VerdictMatches, TornDownAfterDispatcher
  <2>2. StatsExact'
    BY <1>11, StatsKept DEF Post, TypeOK, CallInv, CompletionInv, Counted, Finished
  <2> QED
    BY <2>1, <2>2 DEF Links
<1>12. ASSUME PostFails(o) PROVE ClientInv'
  <2>1. Links'
    BY <1>12 DEF PostFails, Links, TypeOK, CallInv, CompletionInv, DispatcherInv, RegionInv, VerdictMatches, TornDownAfterDispatcher
  <2>2. StatsExact'
    BY <1>12, StatsKept DEF PostFails, TypeOK, CallInv, CompletionInv, Counted, Finished
  <2> QED
    BY <2>1, <2>2 DEF Links
<1>13. ASSUME PostFailed(o) PROVE ClientInv'
  <2>1. Links'
    BY <1>13 DEF PostFailed, Links, TypeOK, CallInv, CompletionInv, DispatcherInv, RegionInv, VerdictMatches, TornDownAfterDispatcher
  <2>2. StatsExact'
    BY <1>13, StatsKept DEF PostFailed, TypeOK, CallInv, CompletionInv, Counted, Finished
  <2> QED
    BY <2>1, <2>2 DEF Links
<1>14. ASSUME SetValue(o) PROVE ClientInv'
  <2>1. Links'
    BY <1>14 DEF SetValue, Links, TypeOK, CallInv, CompletionInv, DispatcherInv, RegionInv, VerdictMatches, TornDownAfterDispatcher
  <2>2. StatsExact'
    BY <1>14, StatsKept DEF SetValue, TypeOK, CallInv, CompletionInv, Counted, Finished
  <2> QED
    BY <2>1, <2>2 DEF Links
<1>15. ASSUME CompleteInjected(o) PROVE ClientInv'
  <2>1. Links'
    BY <1>15 DEF CompleteInjected, Record, Links, TypeOK, CallInv, CompletionInv, DispatcherInv, RegionInv, VerdictMatches, TornDownAfterDispatcher
  <2>2. StatsExact'
    BY <1>15, StatsKept DEF CompleteInjected, Record, TypeOK, CallInv, CompletionInv, Counted, Finished
  <2> QED
    BY <2>1, <2>2 DEF Links
<1> QED
  BY <1>1, <1>2, <1>3, <1>4, <1>5, <1>6, <1>7, <1>8, <1>9, <1>10, <1>11, <1>12, <1>13, <1>14, <1>15

(* operation.complete keeps the invariant.                                 *)
LEMMA CompleteStep ==
  ASSUME ClientInv, NEW o \in Op,
         \/ ReleaseClose(o)
         \/ ReleaseCheck(o)
         \/ ReleasePut(o)
         \/ CloseDone(o)
  PROVE  ClientInv'
<1> USE ClientAssumption DEF ClientInv, callVars, memVars, ctxVars, opVars, dispVars, userVars, statVars, Goto, Read, UsesPool, UsesRegion
<1>1. ASSUME ReleaseClose(o) PROVE ClientInv'
  <2>1. Links'
    BY <1>1 DEF ReleaseClose, GiveRegion, Links, TypeOK, CallInv, CompletionInv, DispatcherInv, RegionInv, VerdictMatches, TornDownAfterDispatcher
  <2>2. StatsExact'
    BY <1>1, StatsKept DEF ReleaseClose, GiveRegion, TypeOK, CallInv, CompletionInv, Counted, Finished
  <2> QED
    BY <2>1, <2>2 DEF Links
<1>2. ASSUME ReleaseCheck(o) PROVE ClientInv'
  <2>1. Links'
    BY <1>2 DEF ReleaseCheck, Links, TypeOK, CallInv, CompletionInv, DispatcherInv, RegionInv, VerdictMatches, TornDownAfterDispatcher
  <2>2. StatsExact'
    BY <1>2, StatsKept DEF ReleaseCheck, TypeOK, CallInv, CompletionInv, Counted, Finished
  <2> QED
    BY <2>1, <2>2 DEF Links
<1>3. ASSUME ReleasePut(o) PROVE ClientInv'
  <2>1. Links'
    BY <1>3 DEF ReleasePut, GiveRegion, Links, TypeOK, CallInv, CompletionInv, DispatcherInv, RegionInv, VerdictMatches, TornDownAfterDispatcher
  <2>2. StatsExact'
    BY <1>3, StatsKept DEF ReleasePut, GiveRegion, TypeOK, CallInv, CompletionInv, Counted, Finished
  <2> QED
    BY <2>1, <2>2 DEF Links
<1>4. ASSUME CloseDone(o) PROVE ClientInv'
  <2>1. Links'
    BY <1>4 DEF CloseDone, Links, TypeOK, CallInv, CompletionInv, DispatcherInv, RegionInv, VerdictMatches, TornDownAfterDispatcher
  <2>2. StatsExact'
    BY <1>4, StatsKept DEF CloseDone, TypeOK, CallInv, CompletionInv, Counted, Finished
  <2> QED
    BY <2>1, <2>2 DEF Links
<1> QED
  BY <1>1, <1>2, <1>3, <1>4

(* The provider keeps the invariant.                                       *)
LEMMA ProviderStep ==
  ASSUME ClientInv,
         \/ \E o \in Op : Deliver(o)
         \/ \E o \in Op : DeliverError(o)
         \/ Fault
  PROVE  ClientInv'
<1> USE ClientAssumption DEF ClientInv, callVars, memVars, ctxVars, opVars, dispVars, userVars, statVars, Goto, Read, UsesPool, UsesRegion
<1>1. ASSUME NEW o \in Op, Deliver(o) PROVE ClientInv'
  <2>1. Links'
    BY <1>1 DEF Deliver, Links, TypeOK, CallInv, CompletionInv, DispatcherInv, RegionInv, VerdictMatches, TornDownAfterDispatcher
  <2>2. StatsExact'
    BY <1>1, StatsKept DEF Deliver, TypeOK, CallInv, CompletionInv, Counted, Finished
  <2> QED
    BY <2>1, <2>2 DEF Links
<1>2. ASSUME NEW o \in Op, DeliverError(o) PROVE ClientInv'
  <2>1. Links'
    BY <1>2 DEF DeliverError, Links, TypeOK, CallInv, CompletionInv, DispatcherInv, RegionInv, VerdictMatches, TornDownAfterDispatcher
  <2>2. StatsExact'
    BY <1>2, StatsKept DEF DeliverError, TypeOK, CallInv, CompletionInv, Counted, Finished
  <2> QED
    BY <2>1, <2>2 DEF Links
<1>3. ASSUME Fault PROVE ClientInv'
  <2>1. Links'
    BY <1>3 DEF Fault, Links, TypeOK, CallInv, CompletionInv, DispatcherInv, RegionInv, VerdictMatches, TornDownAfterDispatcher
  <2>2. StatsExact'
    BY <1>3, StatsKept DEF Fault, TypeOK, CallInv, CompletionInv, Counted, Finished
  <2> QED
    BY <2>1, <2>2 DEF Links
<1> QED
  BY <1>1, <1>2, <1>3

(* The dispatcher keeps the invariant.                                     *)
LEMMA DispatchStep ==
  ASSUME ClientInv,
         \/ DispatchTop
         \/ \E o \in Op : ReadContext(o)
         \/ ReadContextFails
         \/ ReadContextEmpty
         \/ \E o \in Op : ReadError(o)
         \/ ReadErrorEmpty
         \/ Wake
         \/ StopInSleep
         \/ Resolve
         \/ HandleCompletion
         \/ DropCompletion
  PROVE  ClientInv'
<1> USE ClientAssumption DEF ClientInv, callVars, memVars, ctxVars, opVars, dispVars, userVars, statVars, Goto, Read, UsesPool, UsesRegion
<1>1. ASSUME DispatchTop PROVE ClientInv'
  <2>1. Links'
    BY <1>1 DEF DispatchTop, Closed, Links, TypeOK, CallInv, CompletionInv, DispatcherInv, RegionInv, VerdictMatches, TornDownAfterDispatcher
  <2>2. StatsExact'
    BY <1>1, StatsKept DEF DispatchTop, Closed, TypeOK, CallInv, CompletionInv, Counted, Finished
  <2> QED
    BY <2>1, <2>2 DEF Links
<1>2. ASSUME NEW o \in Op, ReadContext(o) PROVE ClientInv'
  <2>1. Links'
    BY <1>2 DEF ReadContext, Links, TypeOK, CallInv, CompletionInv, DispatcherInv, RegionInv, VerdictMatches, TornDownAfterDispatcher
  <2>2. StatsExact'
    BY <1>2, StatsKept DEF ReadContext, TypeOK, CallInv, CompletionInv, Counted, Finished
  <2> QED
    BY <2>1, <2>2 DEF Links
<1>3. ASSUME ReadContextFails PROVE ClientInv'
  <2>1. Links'
    BY <1>3 DEF ReadContextFails, Links, TypeOK, CallInv, CompletionInv, DispatcherInv, RegionInv, VerdictMatches, TornDownAfterDispatcher
  <2>2. StatsExact'
    BY <1>3, StatsKept DEF ReadContextFails, TypeOK, CallInv, CompletionInv, Counted, Finished
  <2> QED
    BY <2>1, <2>2 DEF Links
<1>4. ASSUME ReadContextEmpty PROVE ClientInv'
  <2>1. Links'
    BY <1>4 DEF ReadContextEmpty, Links, TypeOK, CallInv, CompletionInv, DispatcherInv, RegionInv, VerdictMatches, TornDownAfterDispatcher
  <2>2. StatsExact'
    BY <1>4, StatsKept DEF ReadContextEmpty, TypeOK, CallInv, CompletionInv, Counted, Finished
  <2> QED
    BY <2>1, <2>2 DEF Links
<1>5. ASSUME NEW o \in Op, ReadError(o) PROVE ClientInv'
  <2>1. Links'
    BY <1>5 DEF ReadError, Links, TypeOK, CallInv, CompletionInv, DispatcherInv, RegionInv, VerdictMatches, TornDownAfterDispatcher
  <2>2. StatsExact'
    BY <1>5, StatsKept DEF ReadError, TypeOK, CallInv, CompletionInv, Counted, Finished
  <2> QED
    BY <2>1, <2>2 DEF Links
<1>6. ASSUME ReadErrorEmpty PROVE ClientInv'
  <2>1. Links'
    BY <1>6 DEF ReadErrorEmpty, Links, TypeOK, CallInv, CompletionInv, DispatcherInv, RegionInv, VerdictMatches, TornDownAfterDispatcher
  <2>2. StatsExact'
    BY <1>6, StatsKept DEF ReadErrorEmpty, TypeOK, CallInv, CompletionInv, Counted, Finished
  <2> QED
    BY <2>1, <2>2 DEF Links
<1>7. ASSUME Wake PROVE ClientInv'
  <2>1. Links'
    BY <1>7 DEF Wake, Links, TypeOK, CallInv, CompletionInv, DispatcherInv, RegionInv, VerdictMatches, TornDownAfterDispatcher
  <2>2. StatsExact'
    BY <1>7, StatsKept DEF Wake, TypeOK, CallInv, CompletionInv, Counted, Finished
  <2> QED
    BY <2>1, <2>2 DEF Links
<1>8. ASSUME StopInSleep PROVE ClientInv'
  <2>1. Links'
    BY <1>8 DEF StopInSleep, Closed, Links, TypeOK, CallInv, CompletionInv, DispatcherInv, RegionInv, VerdictMatches, TornDownAfterDispatcher
  <2>2. StatsExact'
    BY <1>8, StatsKept DEF StopInSleep, Closed, TypeOK, CallInv, CompletionInv, Counted, Finished
  <2> QED
    BY <2>1, <2>2 DEF Links
<1>9. ASSUME Resolve PROVE ClientInv'
  <2>1. Links'
    BY <1>9 DEF Resolve, Links, TypeOK, CallInv, CompletionInv, DispatcherInv, RegionInv, VerdictMatches, TornDownAfterDispatcher
  <2>2. StatsExact'
    BY <1>9, StatsKept DEF Resolve, TypeOK, CallInv, CompletionInv, Counted, Finished
  <2> QED
    BY <2>1, <2>2 DEF Links
<1>10. ASSUME HandleCompletion PROVE ClientInv'
  <2>1. Links'
    BY <1>10 DEF HandleCompletion, Record, Links, TypeOK, CallInv, CompletionInv, DispatcherInv, RegionInv, VerdictMatches, TornDownAfterDispatcher
  <2>2. StatsExact'
    BY <1>10, StatsKept DEF HandleCompletion, Record, TypeOK, CallInv, CompletionInv, Counted, Finished
  <2> QED
    BY <2>1, <2>2 DEF Links
<1>11. ASSUME DropCompletion PROVE ClientInv'
  <2>1. Links'
    BY <1>11 DEF DropCompletion, Links, TypeOK, CallInv, CompletionInv, DispatcherInv, RegionInv, VerdictMatches, TornDownAfterDispatcher
  <2>2. StatsExact'
    BY <1>11, StatsKept DEF DropCompletion, TypeOK, CallInv, CompletionInv, Counted, Finished
  <2> QED
    BY <2>1, <2>2 DEF Links
<1> QED
  BY <1>1, <1>2, <1>3, <1>4, <1>5, <1>6, <1>7, <1>8, <1>9, <1>10, <1>11

(* Close keeps the invariant.                                              *)
LEMMA ClosingStep ==
  ASSUME ClientInv,
         \/ CloseSwap
         \/ CloseJoin
         \/ CloseHandlers
         \/ ClosePool
         \/ \E r \in Region : CloseDrain(r)
         \/ CloseDrained
         \/ CloseEndpoint
         \/ CloseQueues
  PROVE  ClientInv'
<1> USE ClientAssumption DEF ClientInv, callVars, memVars, ctxVars, opVars, dispVars, userVars, statVars, Goto, Read, UsesPool, UsesRegion
<1>1. ASSUME CloseSwap PROVE ClientInv'
  <2>1. Links'
    BY <1>1 DEF CloseSwap, CloseStep, Links, TypeOK, CallInv, CompletionInv, DispatcherInv, RegionInv, VerdictMatches, TornDownAfterDispatcher
  <2>2. StatsExact'
    BY <1>1, StatsKept DEF CloseSwap, CloseStep, TypeOK, CallInv, CompletionInv, Counted, Finished
  <2> QED
    BY <2>1, <2>2 DEF Links
<1>2. ASSUME CloseJoin PROVE ClientInv'
  <2>1. Links'
    BY <1>2 DEF CloseJoin, CloseStep, Links, TypeOK, CallInv, CompletionInv, DispatcherInv, RegionInv, VerdictMatches, TornDownAfterDispatcher
  <2>2. StatsExact'
    BY <1>2, StatsKept DEF CloseJoin, CloseStep, TypeOK, CallInv, CompletionInv, Counted, Finished
  <2> QED
    BY <2>1, <2>2 DEF Links
<1>3. ASSUME CloseHandlers PROVE ClientInv'
  <2>1. Links'
    BY <1>3 DEF CloseHandlers, CloseStep, Links, TypeOK, CallInv, CompletionInv, DispatcherInv, RegionInv, VerdictMatches, TornDownAfterDispatcher
  <2>2. StatsExact'
    BY <1>3, StatsKept DEF CloseHandlers, CloseStep, TypeOK, CallInv, CompletionInv, Counted, Finished
  <2> QED
    BY <2>1, <2>2 DEF Links
<1>4. ASSUME ClosePool PROVE ClientInv'
  <2>1. Links'
    BY <1>4 DEF ClosePool, CloseStep, Links, TypeOK, CallInv, CompletionInv, DispatcherInv, RegionInv, VerdictMatches, TornDownAfterDispatcher
  <2>2. StatsExact'
    BY <1>4, StatsKept DEF ClosePool, CloseStep, TypeOK, CallInv, CompletionInv, Counted, Finished
  <2> QED
    BY <2>1, <2>2 DEF Links
<1>5. ASSUME NEW r \in Region, CloseDrain(r) PROVE ClientInv'
  <2>1. Links'
    BY <1>5 DEF CloseDrain, CloseStep, PooledRegions, Links, TypeOK, CallInv, CompletionInv, DispatcherInv, RegionInv, VerdictMatches, TornDownAfterDispatcher
  <2>2. StatsExact'
    BY <1>5, StatsKept DEF CloseDrain, CloseStep, PooledRegions, TypeOK, CallInv, CompletionInv, Counted, Finished
  <2> QED
    BY <2>1, <2>2 DEF Links
<1>6. ASSUME CloseDrained PROVE ClientInv'
  <2>1. Links'
    BY <1>6 DEF CloseDrained, CloseStep, Links, TypeOK, CallInv, CompletionInv, DispatcherInv, RegionInv, VerdictMatches, TornDownAfterDispatcher
  <2>2. StatsExact'
    BY <1>6, StatsKept DEF CloseDrained, CloseStep, TypeOK, CallInv, CompletionInv, Counted, Finished
  <2> QED
    BY <2>1, <2>2 DEF Links
<1>7. ASSUME CloseEndpoint PROVE ClientInv'
  <2>1. Links'
    BY <1>7 DEF CloseEndpoint, CloseStep, Links, TypeOK, CallInv, CompletionInv, DispatcherInv, RegionInv, VerdictMatches, TornDownAfterDispatcher
  <2>2. StatsExact'
    BY <1>7, StatsKept DEF CloseEndpoint, CloseStep, TypeOK, CallInv, CompletionInv, Counted, Finished
  <2> QED
    BY <2>1, <2>2 DEF Links
<1>8. ASSUME CloseQueues PROVE ClientInv'
  <2>1. Links'
    BY <1>8 DEF CloseQueues, CloseStep, Links, TypeOK, CallInv, CompletionInv, DispatcherInv, RegionInv, VerdictMatches, TornDownAfterDispatcher
  <2>2. StatsExact'
    BY <1>8, StatsKept DEF CloseQueues, CloseStep, TypeOK, CallInv, CompletionInv, Counted, Finished
  <2> QED
    BY <2>1, <2>2 DEF Links
<1> QED
  BY <1>1, <1>2, <1>3, <1>4, <1>5, <1>6, <1>7, <1>8

(* Registering handlers keeps the invariant.                               *)
LEMMA HandlerStep ==
  ASSUME ClientInv,
         \/ \E k \in Kinds, h \in Handler : RegisterHandler(k, h)
         \/ \E k \in Kinds, h \in Handler : UnregisterHandler(k, h)
  PROVE  ClientInv'
<1> USE ClientAssumption DEF ClientInv, callVars, memVars, ctxVars, opVars, dispVars, userVars, statVars, Goto, Read, UsesPool, UsesRegion
<1>1. ASSUME NEW k \in Kinds, NEW h \in Handler, RegisterHandler(k, h) PROVE ClientInv'
  <2>1. Links'
    BY <1>1 DEF RegisterHandler, Links, TypeOK, CallInv, CompletionInv, DispatcherInv, RegionInv, VerdictMatches, TornDownAfterDispatcher
  <2>2. StatsExact'
    BY <1>1, StatsKept DEF RegisterHandler, TypeOK, CallInv, CompletionInv, Counted, Finished
  <2> QED
    BY <2>1, <2>2 DEF Links
<1>2. ASSUME NEW k \in Kinds, NEW h \in Handler, UnregisterHandler(k, h) PROVE ClientInv'
  <2>1. Links'
    BY <1>2 DEF UnregisterHandler, Links, TypeOK, CallInv, CompletionInv, DispatcherInv, RegionInv, VerdictMatches, TornDownAfterDispatcher
  <2>2. StatsExact'
    BY <1>2, StatsKept DEF UnregisterHandler, TypeOK, CallInv, CompletionInv, Counted, Finished
  <2> QED
    BY <2>1, <2>2 DEF Links
<1> QED
  BY <1>1, <1>2

(* CountPosted adds the operation to the counted ones of its kind.         *)
LEMMA CountPostedStep ==
  ASSUME ClientInv, NEW o \in Op, CountPosted(o)
  PROVE  ClientInv'
<1> USE ClientAssumption DEF ClientInv, callVars, memVars, ctxVars, opVars, dispVars, userVars, Goto
<1>1. Links'
  BY DEF CountPosted, Links, TypeOK, CallInv, CompletionInv, DispatcherInv, RegionInv,
         VerdictMatches, TornDownAfterDispatcher, Read, UsesPool, UsesRegion
<1>2. kind[o] \in Kinds /\ ~Counted(o)
  BY DEF TypeOK, CountPosted, Counted
<1>3. \A k \in Kinds : FinishedOps(k)' = FinishedOps(k)
  BY DEF CountPosted, FinishedOps, Finished
<1>4. \A k \in Kinds \ {kind[o]} : CountedOps(k)' = CountedOps(k)
  BY DEF CountPosted, CountedOps, Counted, TypeOK
<1>5. CountedOps(kind[o])' = CountedOps(kind[o]) \cup {o} /\ o \notin CountedOps(kind[o])
  BY <1>2 DEF CountPosted, CountedOps, Counted, TypeOK
<1>6. IsFiniteSet(CountedOps(kind[o]))
  BY FS_Subset DEF CountedOps
<1>7. Cardinality(CountedOps(kind[o]) \cup {o}) = Cardinality(CountedOps(kind[o])) + 1
  BY <1>5, <1>6, FS_AddElement
<1>8. StatsExact'
  <2>1. ASSUME NEW k \in Kinds
        PROVE  posted'[k] = Cardinality(CountedOps(k)')
    <3>1. CASE k = kind[o]
      BY <1>2, <1>5, <1>7, <3>1 DEF StatsExact, CountPosted, TypeOK
    <3>2. CASE k # kind[o]
      BY <1>2, <1>4, <3>2 DEF StatsExact, CountPosted, TypeOK
    <3> QED
      BY <3>1, <3>2
  <2>2. \A k \in Kinds : succeeded'[k] + errored'[k] = Cardinality(FinishedOps(k)')
    BY <1>3 DEF StatsExact, CountPosted
  <2> QED
    BY <2>1, <2>2 DEF StatsExact
<1> QED
  BY <1>1, <1>8 DEF Links

(* emit adds the operation to the finished ones of its kind.               *)
LEMMA EmitStep ==
  ASSUME ClientInv, NEW o \in Op, Emit(o)
  PROVE  ClientInv'
<1> USE ClientAssumption DEF ClientInv, callVars, memVars, ctxVars, opVars, dispVars, userVars, Goto
<1>1. Links'
  <2>1. handlers[kind[o]] \subseteq Handler
    BY DEF TypeOK
  <2>2. fired' \subseteq Op \X Handler
    BY <2>1 DEF Emit, TypeOK
  <2>3. succeeded' \in [Kinds -> Nat] /\ errored' \in [Kinds -> Nat]
    BY DEF Emit, TypeOK
  <2>4. TypeOK'
    BY <2>2, <2>3 DEF Emit, TypeOK
  <2> QED
    BY <2>4 DEF Emit, Links, TypeOK, CallInv, CompletionInv, DispatcherInv, RegionInv,
           VerdictMatches, TornDownAfterDispatcher, Read, UsesPool, UsesRegion
<1>2. kind[o] \in Kinds /\ ~Finished(o)
  BY DEF TypeOK, Emit, Finished
<1>3. \A k \in Kinds : CountedOps(k)' = CountedOps(k)
  BY DEF Emit, CountedOps, Counted
<1>4. \A k \in Kinds \ {kind[o]} : FinishedOps(k)' = FinishedOps(k)
  BY DEF Emit, FinishedOps, Finished, TypeOK
<1>5. FinishedOps(kind[o])' = FinishedOps(kind[o]) \cup {o} /\ o \notin FinishedOps(kind[o])
  BY <1>2 DEF Emit, FinishedOps, Finished, TypeOK
<1>6. IsFiniteSet(FinishedOps(kind[o]))
  BY FS_Subset DEF FinishedOps
<1>7. Cardinality(FinishedOps(kind[o]) \cup {o}) = Cardinality(FinishedOps(kind[o])) + 1
  BY <1>5, <1>6, FS_AddElement
<1>8. StatsExact'
  <2>1. ASSUME NEW k \in Kinds
        PROVE  succeeded'[k] + errored'[k] = Cardinality(FinishedOps(k)')
    <3>1. CASE k = kind[o]
      <4>1. succeeded'[k] + errored'[k] = succeeded[k] + errored[k] + 1
        BY <1>2, <3>1 DEF Emit, TypeOK
      <4> QED
        BY <1>2, <1>5, <1>7, <3>1, <4>1 DEF StatsExact, Emit
    <3>2. CASE k # kind[o]
      <4>1. succeeded'[k] + errored'[k] = succeeded[k] + errored[k]
        BY <1>2, <3>2 DEF Emit, TypeOK
      <4> QED
        BY <1>4, <3>2, <4>1 DEF StatsExact
    <3> QED
      BY <3>1, <3>2
  <2>2. \A k \in Kinds : posted'[k] = Cardinality(CountedOps(k)')
    BY <1>3 DEF StatsExact, Emit
  <2> QED
    BY <2>1, <2>2 DEF StatsExact
<1> QED
  BY <1>1, <1>8 DEF Links

(* The invariant holds when Dial returns.                                  *)
LEMMA InitClient == Init => ClientInv
<1> SUFFICES ASSUME Init PROVE ClientInv
  OBVIOUS
<1>1. \A k \in Kinds : CountedOps(k) = {} /\ FinishedOps(k) = {}
  BY DEF Init, CountedOps, FinishedOps, Counted, Finished
<1>2. Cardinality({}) = 0
  BY FS_EmptySet
<1>3. StatsExact
  <2> SUFFICES ASSUME NEW k \in Kinds
               PROVE  /\ posted[k] = Cardinality(CountedOps(k))
                      /\ succeeded[k] + errored[k] = Cardinality(FinishedOps(k))
    BY DEF StatsExact
  <2>1. posted[k] = 0 /\ succeeded[k] = 0 /\ errored[k] = 0
    BY DEF Init
  <2>2. CountedOps(k) = {} /\ FinishedOps(k) = {}
    BY <1>1
  <2> QED
    BY <1>2, <2>1, <2>2
<1> QED
  BY <1>3, ClientAssumption
  DEF Init, ClientInv, TypeOK, CallInv, CompletionInv, DispatcherInv, RegionInv,
      VerdictMatches, TornDownAfterDispatcher, Read, UsesPool, UsesRegion, Kinds

(* The invariant is inductive.                                             *)
LEMMA NextClient == ClientInv /\ [Next]_vars => ClientInv'
<1> SUFFICES ASSUME ClientInv, [Next]_vars PROVE ClientInv'
  OBVIOUS
<1>1. ASSUME NEW o \in Op, Call(o) \/ Caller(o) PROVE ClientInv'
  <2>1. CASE Call(o)
    BY <2>1, CallerStep DEF Call, SendAsync, ReceiveAsync, Kinds
  <2>2. CASE CountPosted(o)
    BY <2>2, CountPostedStep
  <2>3. CASE Caller(o) /\ ~CountPosted(o)
    BY <2>3, CallerStep DEF Caller
  <2> QED
    BY <1>1, <2>1, <2>2, <2>3
<1>2. ASSUME NEW o \in Op, Complete(o) PROVE ClientInv'
  BY <1>2, CompleteStep, EmitStep DEF Complete
<1>3. CASE Provider
  BY <1>3, ProviderStep DEF Provider
<1>4. CASE Dispatch
  BY <1>4, DispatchStep DEF Dispatch
<1>5. CASE CloseSwap \/ Closing
  BY <1>5, ClosingStep DEF Closing
<1>6. ASSUME NEW k \in Kinds, NEW h \in Handler,
             RegisterHandler(k, h) \/ UnregisterHandler(k, h)
      PROVE  ClientInv'
  BY <1>6, HandlerStep
<1>7. CASE UNCHANGED vars
  <2> USE <1>7 DEF ClientInv, vars, callVars, memVars, ctxVars, opVars, dispVars, userVars, statVars
  <2>1. Links'
    BY DEF Links, TypeOK, CallInv, CompletionInv, DispatcherInv, RegionInv,
           VerdictMatches, TornDownAfterDispatcher, Read, UsesPool, UsesRegion
  <2>2. StatsExact'
    BY StatsKept DEF Counted, Finished
  <2> QED
    BY <2>1, <2>2 DEF Links
<1> QED
  BY <1>1, <1>2, <1>3, <1>4, <1>5, <1>6, <1>7 DEF Next

(* Every behaviour of the client keeps the invariant.                      *)
THEOREM ClientCorrect == Spec => []ClientInv
BY InitClient, NextClient, PTL DEF Spec

(* The variables keep their types.                                         *)
THEOREM ClientTypes == Spec => []TypeOK
<1>1. ClientInv => TypeOK
  BY DEF ClientInv
<1> QED
  BY <1>1, ClientCorrect, PTL

(* No region of an operation the provider still works on is pooled, closed *)
(* or given to another operation.                                          *)
THEOREM ProviderKeepsMemory == Spec => []MemoryWhilePending
<1>1. ClientInv => MemoryWhilePending
  <2> SUFFICES ASSUME ClientInv, NEW o \in Op, prov[o] = "pending", UsesRegion(o)
               PROVE  /\ mem[o] \in Region
                      /\ region[mem[o]] = "held"
                      /\ \A p \in Op \ {o} : mem[p] # mem[o]
    BY DEF MemoryWhilePending
  <2>1. pc[o] \in {"posted", "counted", "returned"} /\ comp[o] = "none"
    BY DEF ClientInv, TypeOK, CallInv, CompletionInv, Read
  <2>2. rel[o] = "no"
    BY <2>1 DEF ClientInv, CompletionInv
  <2>3. mem[o] # NoRegion
    BY <2>1, <2>2 DEF ClientInv, RegionInv
  <2> QED
    BY <2>3, ClientAssumption DEF ClientInv, TypeOK, RegionInv
<1> QED
  BY <1>1, ClientCorrect, PTL

(* The counters never show more finished operations than posted ones: a    *)
(* finished operation is one of the counted ones.                          *)
THEOREM StatsStayOrdered == Spec => []StatsOrdered
<1>1. ClientInv => StatsOrdered
  <2> SUFFICES ASSUME ClientInv, NEW k \in Kinds
               PROVE  succeeded[k] + errored[k] <= posted[k]
    BY DEF StatsOrdered
  <2>1. FinishedOps(k) \subseteq CountedOps(k)
    BY DEF ClientInv, CallInv, CompletionInv, FinishedOps, CountedOps, Finished, Counted, Read
  <2>2. IsFiniteSet(CountedOps(k))
    BY FS_Subset, ClientAssumption DEF CountedOps
  <2>3. Cardinality(FinishedOps(k)) <= Cardinality(CountedOps(k))
    BY <2>1, <2>2, FS_Subset
  <2> QED
    BY <2>3 DEF ClientInv, StatsExact
<1> QED
  BY <1>1, ClientCorrect, PTL

(* A future reports what the provider said of its own operation.           *)
THEOREM VerdictIsTheProviders == Spec => []VerdictMatches
<1>1. ClientInv => VerdictMatches
  BY DEF ClientInv
<1> QED
  BY <1>1, ClientCorrect, PTL

(* A closed done channel has everything behind it.                         *)
THEOREM DoneComesLast == Spec => []DoneIsFinal
<1>1. ClientInv => DoneIsFinal
  <2> SUFFICES ASSUME ClientInv, NEW o \in Op, comp[o] = "done"
               PROVE  Counted(o) /\ mem[o] = NoRegion /\ ctx[o] = "absent"
    BY DEF DoneIsFinal
  <2>1. Counted(o)
    BY DEF ClientInv, CallInv, CompletionInv, Counted, Read
  <2>2. mem[o] = NoRegion
    BY DEF ClientInv, CompletionInv, RegionInv
  <2>3. ctx[o] = "absent"
    BY DEF ClientInv, TypeOK, CompletionInv, DispatcherInv
  <2> QED
    BY <2>1, <2>2, <2>3
<1> QED
  BY <1>1, ClientCorrect, PTL

(* Close dismantles nothing the dispatcher still uses.                     *)
THEOREM DispatcherGoneFirst == Spec => []TornDownAfterDispatcher
<1>1. ClientInv => TornDownAfterDispatcher
  BY DEF ClientInv
<1> QED
  BY <1>1, ClientCorrect, PTL

(* Once Close has joined the dispatcher, only injected sends complete.     *)
THEOREM CloseSilencesDispatcher == Spec => QuietAfterJoin
<1> DEFINE Quiet == \A o \in Op :
      closePC \notin {"open", "stopping"} /\ comp'[o] # comp[o] => prov[o] = "none"
<1>1. ClientInv /\ [Next]_vars => [Quiet]_vars
  <2> SUFFICES ASSUME ClientInv, Next, NEW p \in Op,
                      closePC \notin {"open", "stopping"}, comp'[p] # comp[p]
               PROVE  prov[p] = "none"
    OBVIOUS
  <2>1. dpc = "stopped"
    BY DEF ClientInv, TornDownAfterDispatcher
  <2>2. comp[p] \in {"recorded", "emitted"} => prov[p] = "none"
    BY <2>1 DEF ClientInv, DispatcherInv
  <2>3. ASSUME NEW o \in Op, Call(o) \/ Caller(o) PROVE prov[p] = "none"
    BY <2>3 DEF Call, Caller, SendAsync, ReceiveAsync, Enter, DispatchFailure, RefuseDestination,
      AcquireCheck, AcquirePooled, AcquireNew, RegisterOwn, TakeRegion, RegisterFails, UseBuffer,
      PostInject, Post, PostFails, PostFailed, CountPosted, SetValue, CompleteInjected, Record,
      opVars, ClientInv, CallInv, TypeOK
  <2>4. ASSUME NEW o \in Op, Complete(o) PROVE prov[p] = "none"
    BY <2>2, <2>4 DEF Complete, Emit, ReleaseClose, ReleaseCheck, ReleasePut, GiveRegion, CloseDone,
      opVars, ClientInv, TypeOK
  <2>5. CASE Provider \/ Dispatch
    BY <2>1, <2>5 DEF Provider, Deliver, DeliverError, Fault, Dispatch, DispatchTop, ReadContext,
      ReadContextFails, ReadContextEmpty, ReadError, ReadErrorEmpty, Wake, StopInSleep, Resolve,
      HandleCompletion, DropCompletion, opVars
  <2>6. CASE CloseSwap \/ Closing
    BY <2>6 DEF CloseSwap, Closing, CloseStep, CloseJoin, CloseHandlers, ClosePool, CloseDrain,
      CloseDrained, CloseEndpoint, CloseQueues, opVars
  <2>7. ASSUME NEW k \in Kinds, NEW h \in Handler,
               RegisterHandler(k, h) \/ UnregisterHandler(k, h)
        PROVE  prov[p] = "none"
    BY <2>7 DEF RegisterHandler, UnregisterHandler, opVars
  <2> QED
    BY <2>3, <2>4, <2>5, <2>6, <2>7 DEF Next
<1> QED
  BY <1>1, ClientCorrect, PTL DEF Spec, QuietAfterJoin

-----------------------------------------------------------------------------
(* A client without pool and registration never gives an operation a       *)
(* region, and the dispatcher resolves every completion once, before it    *)
(* completes the operation.                                                *)
LEMMA FilledNext ==
  ASSUME PoolSize = 0, ~RequiresMR, ClientInv, FilledInv, [Next]_vars
  PROVE  FilledInv'
<1> USE DEF callVars, memVars, ctxVars, opVars, dispVars, userVars, statVars, Goto
<1>1. \A o \in Op : ~UsesPool(o)
  BY ClientAssumption DEF UsesPool, ClientInv, TypeOK
<1>2. ASSUME NEW o \in Op, NEW n \in Lens, SendAsync(o, n) \/ ReceiveAsync(o, n)
      PROVE  FilledInv'
  BY <1>2 DEF SendAsync, ReceiveAsync, Enter, FilledInv, ClientInv, TypeOK, CallInv
<1>3. ASSUME NEW o \in Op, Caller(o) PROVE FilledInv'
  <2>1. \A r \in Region : ~AcquirePooled(o, r) /\ ~AcquireNew(o, r) /\ ~RegisterOwn(o, r)
    BY DEF AcquirePooled, AcquireNew, RegisterOwn, FilledInv
  <2> QED
    BY <1>1, <1>3, <2>1 DEF Caller, DispatchFailure, RefuseDestination, AcquireCheck, RegisterFails, UseBuffer,
       PostInject, Post, PostFails, PostFailed, CountPosted, SetValue, CompleteInjected, Record,
       FilledInv, ClientInv, TypeOK, CallInv, CompletionInv
<1>4. ASSUME NEW o \in Op, Complete(o) PROVE FilledInv'
  BY <1>4 DEF Complete, Emit, ReleaseClose, ReleaseCheck, ReleasePut, CloseDone, GiveRegion,
              FilledInv, ClientInv, TypeOK, CallInv
<1>5. CASE Provider
  BY <1>5 DEF Provider, Deliver, DeliverError, Fault, FilledInv, ClientInv, TypeOK
<1>6. CASE Dispatch
  <2>1. ASSUME NEW o \in Op, ReadContext(o) \/ ReadError(o) PROVE FilledInv'
    BY <2>1 DEF ReadContext, ReadError, FilledInv, ClientInv, TypeOK
  <2>2. CASE Resolve
    <3>1. filled'[dop] = (kind[dop] = "receive" /\ mem[dop] = NoRegion /\ prov[dop] = "readEvent")
      BY <2>2 DEF Resolve, ClientInv, TypeOK, DispatcherInv
    <3>2. \A o \in Op \ {dop} : filled'[o] = filled[o]
      BY <2>2 DEF Resolve, ClientInv, TypeOK
    <3>3. UNCHANGED <<pc, kind, mem, prov>>
      BY <2>2 DEF Resolve
    <3>4. ASSUME NEW o \in Op, kind[o] = "receive", prov[o] = "readEvent" PROVE filled'[o]
      <4>1. CASE o = dop
        BY <3>1, <3>4, <4>1 DEF FilledInv
      <4>2. CASE o # dop
        BY <3>2, <3>4, <4>2 DEF FilledInv
      <4> QED
        BY <4>1, <4>2
    <3> QED
      BY <3>3, <3>4 DEF FilledInv
  <2>3. CASE HandleCompletion \/ DropCompletion
    BY <2>3 DEF HandleCompletion, DropCompletion, Record, FilledInv
  <2>4. CASE \/ DispatchTop \/ ReadContextFails \/ ReadContextEmpty
             \/ ReadErrorEmpty \/ Wake \/ StopInSleep
    BY <2>4 DEF DispatchTop, ReadContextFails, ReadContextEmpty, ReadErrorEmpty, Wake, StopInSleep,
       FilledInv
  <2> QED
    BY <1>6, <2>1, <2>2, <2>3, <2>4 DEF Dispatch
<1>7. CASE CloseSwap \/ Closing
  BY <1>7 DEF Closing, CloseSwap, CloseJoin, CloseHandlers, ClosePool, CloseDrain, CloseDrained,
     CloseEndpoint, CloseQueues, CloseStep, FilledInv
<1>8. ASSUME NEW k \in Kinds, NEW h \in Handler,
             RegisterHandler(k, h) \/ UnregisterHandler(k, h)
      PROVE  FilledInv'
  BY <1>8 DEF RegisterHandler, UnregisterHandler, FilledInv
<1>9. CASE UNCHANGED vars
  BY <1>9 DEF vars, FilledInv
<1> QED
  BY <1>2, <1>3, <1>4, <1>5, <1>6, <1>7, <1>8, <1>9 DEF Next, Call

(* With neither pool nor registration a receive that resolves without an   *)
(* error has filled the caller's buffer: the case Client_plain runs, for   *)
(* any number of calls.  With a region in between it is false, as the run  *)
(* Client_copyback shows.                                                  *)
THEOREM PlainReceivesFill ==
  PoolSize = 0 /\ ~RequiresMR => (Spec => []ReceiveFilled)
<1> SUFFICES ASSUME PoolSize = 0 /\ ~RequiresMR PROVE Spec => []ReceiveFilled
  OBVIOUS
<1>1. Init => FilledInv
  BY DEF Init, FilledInv
<1>2. ClientInv /\ FilledInv /\ [Next]_vars => FilledInv'
  BY FilledNext
<1>3. ClientInv /\ FilledInv => ReceiveFilled
  <2> SUFFICES ASSUME ClientInv, FilledInv, NEW o \in Op,
                      comp[o] = "done", kind[o] = "receive", res[o] = "ok"
               PROVE  filled[o]
    BY DEF ReceiveFilled
  <2>1. prov[o] = "readEvent"
    BY DEF ClientInv, VerdictMatches, FilledInv
  <2>2. ~(dpc = "resolve" /\ dop = o)
    BY DEF ClientInv, DispatcherInv
  <2> QED
    BY <2>1, <2>2 DEF FilledInv
<1> QED
  BY <1>1, <1>2, <1>3, ClientCorrect, PTL DEF Spec


-----------------------------------------------------------------------------
(* What becomes of a completion that is read.                              *)

(* A step that leaves contexts, provider and dispatcher alone, or keeps    *)
(* what the dispatcher has in hand, keeps what is registered.              *)
LEMMA RegisteredNext ==
  ASSUME ClientInv, RegisteredInv, [Next]_vars PROVE RegisteredInv'
<1> USE DEF ClientInv, TypeOK, RegisteredInv, Read, ctxVars, dispVars
<1>1. ASSUME NEW o \in Op, Call(o) \/ Caller(o) PROVE RegisteredInv'
  <2>1. CASE Post(o)
    BY <2>1 DEF Post
  <2>2. CASE ~Post(o)
    BY <1>1, <2>2 DEF Call, Caller, SendAsync, ReceiveAsync, Enter, DispatchFailure,
      RefuseDestination, AcquireCheck, AcquirePooled, AcquireNew, RegisterOwn, TakeRegion,
      RegisterFails, UseBuffer, PostInject, PostFails, PostFailed, CountPosted, SetValue,
      CompleteInjected
  <2> QED
    BY <2>1, <2>2
<1>2. ASSUME NEW o \in Op, Complete(o) PROVE RegisteredInv'
  <2>1. UNCHANGED <<ctx, prov, dop>> /\ (dpc' = "resolve" => dpc = "resolve")
        /\ (dpc = "resolve" => dpc' = "resolve")
    BY <1>2 DEF Complete, Emit, ReleaseClose, ReleaseCheck, ReleasePut, GiveRegion, CloseDone
  <2> QED
    BY <2>1
<1>3. CASE Provider
  BY <1>3 DEF Provider, Deliver, DeliverError, Fault
<1>4. CASE Dispatch
  <2>1. ASSUME NEW o \in Op, ReadContext(o) \/ ReadError(o) PROVE RegisteredInv'
    BY <2>1 DEF ReadContext, ReadError
  <2>2. CASE Resolve
    BY <2>2 DEF Resolve, DispatcherInv
  <2> QED
    BY <1>4, <2>1, <2>2 DEF Dispatch, DispatchTop, ReadContextFails, ReadContextEmpty,
      ReadErrorEmpty, Wake, StopInSleep, HandleCompletion, DropCompletion
<1>5. CASE CloseSwap \/ Closing
  BY <1>5 DEF CloseSwap, Closing, CloseStep, CloseJoin, CloseHandlers, ClosePool, CloseDrain,
    CloseDrained, CloseEndpoint, CloseQueues
<1>6. CASE \E k \in Kinds, h \in Handler : RegisterHandler(k, h) \/ UnregisterHandler(k, h)
  BY <1>6 DEF RegisterHandler, UnregisterHandler
<1>7. CASE UNCHANGED vars
  BY <1>7 DEF vars
<1> QED
  BY <1>1, <1>2, <1>3, <1>4, <1>5, <1>6, <1>7 DEF Next

(* An operation that is attached stays so and, once its completion is      *)
(* read, is in the hand of the dispatcher until its result is recorded.    *)
LEMMA KeptNext ==
  ASSUME ClientInv, RegisteredInv, [Next]_vars, NEW o \in Op, value[o], Kept(o)
  PROVE  value'[o] /\ Kept(o)'
<1> USE DEF ClientInv, TypeOK, Kept, Read, ctxVars, dispVars, opVars
<1>1. ASSUME NEW p \in Op, Call(p) \/ Caller(p) PROVE value'[o] /\ Kept(o)'
  <2>1. UNCHANGED <<dpc, dop>> /\ value'[o] /\ (prov'[o] = prov[o] \/ prov'[o] = "pending")
        /\ (comp'[o] = comp[o] \/ comp'[o] = "recorded")
    BY <1>1 DEF Call, Caller, SendAsync, ReceiveAsync, Enter, DispatchFailure,
      RefuseDestination, AcquireCheck, AcquirePooled, AcquireNew, RegisterOwn, TakeRegion,
      RegisterFails, UseBuffer, PostInject, Post, PostFails, PostFailed, CountPosted, SetValue,
      CompleteInjected, Record
  <2> QED
    BY <2>1
<1>2. ASSUME NEW p \in Op, Complete(p) PROVE value'[o] /\ Kept(o)'
  <2>1. UNCHANGED <<value, prov, dop>> /\ (dpc \in {"resolve", "value"} => dpc' = dpc)
        /\ (comp[o] # "none" => comp'[o] # "none")
    BY <1>2 DEF Complete, Emit, ReleaseClose, ReleaseCheck, ReleasePut, GiveRegion, CloseDone
  <2> QED
    BY <2>1
<1>3. CASE Provider
  BY <1>3 DEF Provider, Deliver, DeliverError, Fault
<1>4. CASE Dispatch
  <2>1. ASSUME NEW p \in Op, ReadContext(p) \/ ReadError(p) PROVE value'[o] /\ Kept(o)'
    BY <2>1 DEF ReadContext, ReadError
  <2>2. CASE Resolve
    BY <2>2 DEF Resolve, DispatcherInv, RegisteredInv
  <2>3. CASE HandleCompletion
    BY <2>3 DEF HandleCompletion, Record, DispatcherInv
  <2>4. CASE DropCompletion
    BY <2>4 DEF DropCompletion
  <2> QED
    BY <1>4, <2>1, <2>2, <2>3, <2>4 DEF Dispatch, DispatchTop, ReadContextFails,
      ReadContextEmpty, ReadErrorEmpty, Wake, StopInSleep
<1>5. CASE CloseSwap \/ Closing
  BY <1>5 DEF CloseSwap, Closing, CloseStep, CloseJoin, CloseHandlers, ClosePool, CloseDrain,
    CloseDrained, CloseEndpoint, CloseQueues
<1>6. CASE \E k \in Kinds, h \in Handler : RegisterHandler(k, h) \/ UnregisterHandler(k, h)
  BY <1>6 DEF RegisterHandler, UnregisterHandler
<1>7. CASE UNCHANGED vars
  BY <1>7 DEF vars
<1> QED
  BY <1>1, <1>2, <1>3, <1>4, <1>5, <1>6, <1>7 DEF Next

(* Until it is resolved the context of an operation is registered, so the  *)
(* dispatcher finds it.                                                    *)
THEOREM ContextsStayRegistered == Spec => []RegisteredInv
<1>1. Init => RegisteredInv
  BY DEF Init, RegisteredInv
<1>2. ClientInv /\ RegisteredInv /\ [Next]_vars => RegisteredInv'
  BY RegisteredNext
<1> QED
  BY <1>1, <1>2, ClientCorrect, PTL DEF Spec

\* For one operation.
LEMMA KeptFromAttach ==
  ASSUME NEW o \in Op
  PROVE  Spec => [](value[o] /\ ~Read(o) => []Kept(o))
<1> DEFINE Attached == value[o] /\ Kept(o)
<1>1. value[o] /\ ~Read(o) => Attached
  BY DEF Kept
<1>2. ClientInv /\ RegisteredInv /\ [Next]_vars /\ Attached => Attached'
  BY KeptNext
<1>3. Attached => Kept(o)
  OBVIOUS
<1> QED
  BY <1>1, <1>2, <1>3, ClientCorrect, ContextsStayRegistered, PTL DEF Spec

(* The completion of an operation that was attached before it was read     *)
(* never gets lost on the way to complete: what can lose it is only the    *)
(* window before SetValue.                                                 *)
THEOREM AttachedNeverDropped == Spec => AttachedIsKept
<1>1. \A o \in Op : (Spec => [](value[o] /\ ~Read(o) => []Kept(o)))
  BY KeptFromAttach
<1> QED
  BY <1>1 DEF AttachedIsKept

(* The dispatcher is marked as failed only after the queue broke down or   *)
(* libfabric reported an operation as failed; no order of completions,     *)
(* empty reads and Close does it.                                          *)
THEOREM FailureIsCaused == Spec => []FailureHasCause
<1> USE DEF FailureHasCause, ctxVars, dispVars
<1>1. Init => FailureHasCause
  BY DEF Init
<1>2. ASSUME ClientInv, FailureHasCause, [Next]_vars PROVE FailureHasCause'
  <2> USE <1>2 DEF ClientInv, TypeOK
  <2>1. \A o \in Op : prov[o] \in {"error", "readError"} => prov'[o] \in {"error", "readError"}
    <3>1. ASSUME NEW o \in Op, Call(o) \/ Caller(o)
          PROVE  \A p \in Op : prov'[p] = prov[p] \/ prov[p] = "none"
      BY <3>1 DEF CallInv, Call, Caller, SendAsync, ReceiveAsync, Enter, DispatchFailure,
        RefuseDestination, AcquireCheck, AcquirePooled, AcquireNew, RegisterOwn, TakeRegion,
        RegisterFails, UseBuffer, PostInject, Post, PostFails, PostFailed, CountPosted, SetValue,
        CompleteInjected
    <3>2. ASSUME NEW o \in Op, Complete(o) PROVE UNCHANGED prov
      BY <3>2 DEF Complete, Emit, ReleaseClose, ReleaseCheck, ReleasePut, GiveRegion, CloseDone
    <3>3. CASE Provider
      BY <3>3 DEF Provider, Deliver, DeliverError, Fault
    <3>4. CASE Dispatch
      BY <3>4 DEF Dispatch, DispatchTop, ReadContext, ReadError, ReadContextFails, ReadContextEmpty,
        ReadErrorEmpty, Wake, StopInSleep, Resolve, HandleCompletion, DropCompletion
    <3>5. CASE CloseSwap \/ Closing
      BY <3>5 DEF CloseSwap, Closing, CloseStep, CloseJoin, CloseHandlers, ClosePool, CloseDrain,
        CloseDrained, CloseEndpoint, CloseQueues
    <3>6. CASE \E k \in Kinds, h \in Handler : RegisterHandler(k, h) \/ UnregisterHandler(k, h)
      BY <3>6 DEF RegisterHandler, UnregisterHandler
    <3> QED
      BY <3>1, <3>2, <3>3, <3>4, <3>5, <3>6 DEF Next, vars
  <2>2. (cqFault => cqFault') /\ (dispErr' # dispErr => cqFault \/ ErrorWaits)
    <3>1. ASSUME NEW o \in Op, Call(o) \/ Caller(o) \/ Complete(o) PROVE UNCHANGED <<cqFault, dispErr>>
      BY <3>1 DEF Call, Caller, SendAsync, ReceiveAsync, Enter, DispatchFailure,
        RefuseDestination, AcquireCheck, AcquirePooled, AcquireNew, RegisterOwn, TakeRegion,
        RegisterFails, UseBuffer, PostInject, Post, PostFails, PostFailed, CountPosted, SetValue,
        CompleteInjected, Complete, Emit, ReleaseClose, ReleaseCheck, ReleasePut, GiveRegion, CloseDone
    <3>2. CASE Provider
      BY <3>2 DEF Provider, Deliver, DeliverError, Fault
    <3>3. CASE Dispatch
      BY <3>3 DEF Dispatch, DispatchTop, ReadContext, ReadError, ReadContextFails, ReadContextEmpty,
        ReadErrorEmpty, Wake, StopInSleep, Resolve, HandleCompletion, DropCompletion
    <3>4. CASE CloseSwap \/ Closing
      BY <3>4 DEF CloseSwap, Closing, CloseStep, CloseJoin, CloseHandlers, ClosePool, CloseDrain,
        CloseDrained, CloseEndpoint, CloseQueues
    <3>5. CASE \E k \in Kinds, h \in Handler : RegisterHandler(k, h) \/ UnregisterHandler(k, h)
      BY <3>5 DEF RegisterHandler, UnregisterHandler
    <3> QED
      BY <3>1, <3>2, <3>3, <3>4, <3>5 DEF Next, vars
  <2> QED
    BY <2>1, <2>2 DEF ErrorWaits
<1>3. ClientInv /\ FailureHasCause /\ [Next]_vars => FailureHasCause'
  BY <1>2
<1> QED
  BY <1>1, <1>3, ClientCorrect, PTL DEF Spec
=============================================================================
