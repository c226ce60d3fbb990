-------------------------- MODULE OperationProofs ---------------------------
(* Proofs about Operation: the inductive invariant OperationInv, from which *)
(* follow that no call gives up early and that everybody is told the same  *)
(* result, for any number of waiters and callbacks and any timeout.        *)
EXTENDS Operation, TLAPS

(* The client starts with no call under way and no result (newOperation).  *)
LEMMA InitOperation == Init => OperationInv
<1> SUFFICES ASSUME Init PROVE OperationInv
  OBVIOUS
<1> USE OperationAssumption DEF Init
<1>1. TypeOK
  <2>1. posted \in BOOLEAN  OBVIOUS
  <2>2. completed \in BOOLEAN /\ done \in BOOLEAN  OBVIOUS
  <2>3. cancelled \in [Waiter -> BOOLEAN]  OBVIOUS
  <2>4. now \in Time  BY DEF Time
  <2> QED  BY <2>1, <2>2, <2>3, <2>4 DEF TypeOK, Time, Deadline, Result
<1>2. LimitInv  BY DEF LimitInv
<1>3. ResultInv /\ NotEarly /\ SameResult  BY DEF ResultInv, NotEarly, SameResult
<1> QED  BY <1>1, <1>2, <1>3 DEF OperationInv

(* A call's beginning and the derivation of its context keep the invariant *)
(* (Send, operationContext).                                               *)
LEMMA BeginNext ==
  ASSUME OperationInv, NEW w \in Waiter, Begin(w)
  PROVE  OperationInv'
<1> USE OperationAssumption
<1>1. TypeOK'
  BY DEF Begin, OperationInv, TypeOK, opVars, Time, Deadline, Result
<1>2. LimitInv'
  BY DEF Begin, OperationInv, TypeOK, opVars, Time, Deadline, LimitInv, InTime, Ended
<1>3. ResultInv'
  BY DEF Begin, OperationInv, opVars, ResultInv
<1>4. NotEarly' /\ SameResult'
  BY DEF Begin, OperationInv, TypeOK, opVars, Time, Deadline, NotEarly, SameResult, LimitInv, InTime, Ended
<1> QED  BY <1>1, <1>2, <1>3, <1>4 DEF OperationInv

(* operationContext's comparison: what it keeps or derives ends in time.   *)
LEMMA DeriveNext ==
  ASSUME OperationInv, NEW w \in Waiter, Derive(w)
  PROVE  OperationInv'
<1> USE OperationAssumption
<1>1. asked[w] # Never => asked[w] \in Time
  BY DEF OperationInv, TypeOK, Deadline
<1>2. ASSUME ~KeepsContext(w)
      PROVE  /\ DerivedTimeout(w) \in Nat
             /\ InTime(w, now + DerivedTimeout(w))
             /\ asked[w] = Never => Configured > 0
  BY <1>1, <1>2 DEF Derive, KeepsContext, DerivedTimeout, InTime, OperationInv, LimitInv, TypeOK, Time
<1>3. TypeOK'
  <2>1. DerivedTimeout(w) \in Int \/ KeepsContext(w)
    BY <1>2
  <2> QED  BY <2>1 DEF Derive, OperationInv, TypeOK, opVars
<1>4. LimitInv'
  <2>1. CASE KeepsContext(w)
    BY <2>1 DEF Derive, OperationInv, TypeOK, opVars, LimitInv, InTime, Ended
  <2>2. CASE ~KeepsContext(w)
    <3>1. timeout' = [timeout EXCEPT ![w] = DerivedTimeout(w)]
      BY <2>2 DEF Derive
    <3> QED  BY <1>2, <2>2, <3>1 DEF Derive, OperationInv, TypeOK, opVars, LimitInv, InTime, Ended
  <2> QED  BY <2>1, <2>2
<1>5. ResultInv' /\ NotEarly' /\ SameResult'
  BY DEF Derive, OperationInv, opVars, ResultInv, NotEarly, SameResult
<1> QED  BY <1>3, <1>4, <1>5 DEF OperationInv

(* context.WithTimeout, called later, takes the earlier of two deadlines   *)
(* that are both in time.                                                  *)
LEMMA WithTimeoutNext ==
  ASSUME OperationInv, NEW w \in Waiter, WithTimeout(w)
  PROVE  OperationInv'
<1> USE OperationAssumption
<1>1. /\ now \in Nat /\ limit[w] \in Nat /\ timeout[w] \in Nat
      /\ InTime(w, now + timeout[w]) /\ InTime(w, limit[w])
      /\ limit[w] = asked[w] /\ asked[w] \in Deadline
      /\ began[w] + Configured <= MaxTime /\ began[w] \in Nat
  BY DEF WithTimeout, OperationInv, TypeOK, LimitInv, Time, Deadline
<1>2. PICK e \in {now + timeout[w], MaxTime, limit[w]} :
        /\ e <= now + timeout[w] /\ e <= MaxTime /\ e <= limit[w]
        /\ limit' = [limit EXCEPT ![w] = e]
  BY DEF WithTimeout
<1>3. e \in Time
  BY <1>1, <1>2 DEF Time
<1>4. InTime(w, MaxTime)
  BY <1>1 DEF WithTimeout, OperationInv, LimitInv, InTime, Deadline, Time
<1>5. InTime(w, e)
  BY <1>1, <1>2, <1>4
<1>6. /\ limit' = [limit EXCEPT ![w] = e]
      /\ wpc' = [wpc EXCEPT ![w] = "check"]
      /\ UNCHANGED <<now, asked, cancelled, began, timeout, answer, opVars>>
  BY <1>2 DEF WithTimeout
<1>7. TypeOK'
  BY <1>3, <1>6 DEF OperationInv, TypeOK, opVars, Deadline
<1>8. LimitInv'
  BY <1>5, <1>6 DEF WithTimeout, OperationInv, TypeOK, opVars, LimitInv, InTime, Ended
<1>9. ResultInv' /\ NotEarly' /\ SameResult'
  BY <1>6 DEF OperationInv, opVars, ResultInv, NotEarly, SameResult
<1> QED  BY <1>7, <1>8, <1>9 DEF OperationInv

(* A call that has its context posts or returns, waits and returns, or is  *)
(* cancelled (Send, Await).                                                *)
LEMMA WaitNext ==
  ASSUME OperationInv, NEW w \in Waiter,
         PostIfAlive(w) \/ Select(w) \/ Recheck(w) \/ Cancel(w)
  PROVE  OperationInv'
<1> USE OperationAssumption
<1>1. Ended(w) /\ wpc[w] # "idle" => cancelled[w] \/ InTime(w, now)
  BY DEF Ended, InTime, OperationInv, TypeOK, LimitInv, Time, Deadline
<1>2. CASE PostIfAlive(w)
  <2>1. UNCHANGED <<now, asked, cancelled, began, timeout, limit,
                    dpc, result, completed, callbacks, taken, done, cb, heard>>
    BY <1>2 DEF PostIfAlive
  <2>2. CASE Ended(w) /\ Return(w, "context") /\ UNCHANGED posted
    BY <1>1, <1>2, <2>1, <2>2 DEF PostIfAlive, Return, OperationInv, TypeOK, LimitInv, ResultInv,
       NotEarly, SameResult, InTime, Ended
  <2>3. CASE Return(w, "refused") /\ UNCHANGED posted
    BY <1>2, <2>1, <2>3 DEF PostIfAlive, Return, OperationInv, TypeOK, LimitInv, ResultInv,
       NotEarly, SameResult, InTime, Ended
  <2>4. CASE posted' = TRUE /\ wpc' = [wpc EXCEPT ![w] = "await"] /\ UNCHANGED answer
    BY <1>2, <2>1, <2>4 DEF PostIfAlive, OperationInv, TypeOK, LimitInv, ResultInv,
       NotEarly, SameResult, InTime, Ended
  <2> QED  BY <1>2, <2>2, <2>3, <2>4 DEF PostIfAlive
<1>3. CASE Select(w)
  BY <1>1, <1>3 DEF Select, Return, OperationInv, TypeOK, LimitInv, ResultInv, NotEarly,
     SameResult, InTime, Ended, opVars, Result
<1>4. CASE Recheck(w)
  BY <1>1, <1>4 DEF Recheck, Return, OperationInv, TypeOK, LimitInv, ResultInv, NotEarly,
     SameResult, InTime, Ended, opVars, Result
<1>5. CASE Cancel(w)
  BY <1>5 DEF Cancel, OperationInv, TypeOK, LimitInv, ResultInv, NotEarly,
     SameResult, InTime, Ended, opVars
<1> QED  BY <1>2, <1>3, <1>4, <1>5

(* Waiters do not notice a step that leaves them, their call and the clock   *)
(* alone.                                                                   *)
LEMMA WaitersKept ==
  ASSUME OperationInv, UNCHANGED <<now, waitVars, poster>>
  PROVE  LimitInv' /\ NotEarly'
BY DEF OperationInv, waitVars, LimitInv, NotEarly, InTime, Ended

(* The dispatcher records one result and tells it to everybody             *)
(* (operation.complete).                                                   *)
LEMMA CompleteNext ==
  ASSUME OperationInv, (\E v \in {"ok", "error"} : Record(v)) \/ Resolving
  PROVE  OperationInv'
<1>1. LimitInv' /\ NotEarly'
  <2>1. UNCHANGED <<now, waitVars, poster>>
    BY DEF Record, Resolving, EmitAndRelease, CloseDone, StartCallbacks
  <2> QED  BY <2>1, WaitersKept
<1>2. ASSUME NEW v \in {"ok", "error"}, Record(v)
      PROVE  TypeOK' /\ ResultInv' /\ SameResult'
  BY <1>2 DEF Record, OperationInv, TypeOK, ResultInv, SameResult, waitVars, Result
<1>3. CASE EmitAndRelease
  BY <1>3, <1>1 DEF EmitAndRelease, OperationInv, TypeOK, ResultInv, SameResult, waitVars
<1>4. CASE CloseDone
  BY <1>4, <1>1 DEF CloseDone, OperationInv, TypeOK, ResultInv, SameResult, waitVars
<1>5. CASE StartCallbacks
  BY <1>5, <1>1 DEF StartCallbacks, OperationInv, TypeOK, ResultInv, SameResult, waitVars
<1> QED  BY <1>1, <1>2, <1>3, <1>4, <1>5 DEF Resolving, OperationInv

(* A callback is told the recorded result on both sides of the completion  *)
(* (addCallback).                                                          *)
LEMMA CallbackNext ==
  ASSUME OperationInv, NEW k \in Watcher, AddCallback(k) \/ RunCallback(k)
  PROVE  OperationInv'
<1>1. LimitInv' /\ NotEarly'
  <2>1. UNCHANGED <<now, waitVars, poster>>
    BY DEF AddCallback, RunCallback
  <2> QED  BY <2>1, WaitersKept
<1>2. CASE AddCallback(k)
  BY <1>2, <1>1 DEF AddCallback, OperationInv, TypeOK, ResultInv, SameResult, waitVars
<1>3. CASE RunCallback(k)
  BY <1>3, <1>1 DEF RunCallback, OperationInv, TypeOK, ResultInv, SameResult, waitVars
<1> QED  BY <1>2, <1>3

(* A context that has ended stays ended.                                   *)
LEMMA TickNext ==
  ASSUME OperationInv, Tick
  PROVE  OperationInv'
BY OperationAssumption DEF Tick, OperationInv, TypeOK, LimitInv, ResultInv, NotEarly, SameResult,
   InTime, Ended, waitVars, opVars, Time, Deadline

(* The inductive invariant of an operation and the calls that wait for it  *)
(* (client/client.go: operation, Await, operationContext).                 *)
THEOREM OperationCorrect == Spec => []OperationInv
<1>1. Init => OperationInv
  BY InitOperation
<1>2. OperationInv /\ [Next]_vars => OperationInv'
  <2> SUFFICES ASSUME OperationInv, [Next]_vars PROVE OperationInv'
    OBVIOUS
  <2>1. CASE Tick  BY <2>1, TickNext
  <2>2. ASSUME NEW w \in Waiter, Begin(w) \/ Wait(w) \/ Cancel(w)
        PROVE  OperationInv'
    BY <2>2, BeginNext, DeriveNext, WithTimeoutNext, WaitNext DEF Wait
  <2>3. CASE (\E v \in {"ok", "error"} : Record(v)) \/ Resolving
    BY <2>3, CompleteNext
  <2>4. ASSUME NEW k \in Watcher, AddCallback(k) \/ RunCallback(k)
        PROVE  OperationInv'
    BY <2>4, CallbackNext
  <2>5. CASE UNCHANGED vars
    BY <2>5 DEF vars, OperationInv, TypeOK, LimitInv, ResultInv, NotEarly, SameResult, InTime, Ended
  <2> QED  BY <2>1, <2>2, <2>3, <2>4, <2>5 DEF Next
<1> QED  BY <1>1, <1>2, PTL DEF Spec

(* No call gives up before its caller's deadline or, without one, before   *)
(* the configured timeout (operationContext, Await).                       *)
THEOREM NobodyGivesUpEarly == Spec => []NotEarly
<1>1. OperationInv => NotEarly
  BY DEF OperationInv
<1> QED  BY <1>1, OperationCorrect, PTL

(* Callbacks and waiters are told the one recorded result (complete,       *)
(* addCallback, Await).                                                    *)
THEOREM OneResultForAll == Spec => []SameResult
<1>1. OperationInv => SameResult
  BY DEF OperationInv
<1> QED  BY <1>1, OperationCorrect, PTL

-----------------------------------------------------------------------------
(* The operation implements the abstract future (module Future).           *)

(* A blocking call gets past the post only with the operation posted, and  *)
(* no result is recorded of an operation that was not.                     *)
LEMMA PostNext ==
  ASSUME OperationInv, PostInv, [Next]_vars PROVE PostInv'
<1> USE OperationAssumption DEF OperationInv, TypeOK, LimitInv, PostInv
<1>1. ASSUME NEW w \in Waiter, Begin(w) PROVE PostInv'
  BY <1>1 DEF Begin, opVars
<1>2. ASSUME NEW w \in Waiter, Derive(w) PROVE PostInv'
  BY <1>2 DEF Derive, opVars
<1>3. ASSUME NEW w \in Waiter, WithTimeout(w) PROVE PostInv'
  <2>1. /\ wpc[w] = "bound" /\ wpc' = [wpc EXCEPT ![w] = "check"]
        /\ UNCHANGED <<poster, posted, dpc>>
    BY <1>3 DEF WithTimeout, opVars
  <2> QED  BY <2>1
<1>4. ASSUME NEW w \in Waiter, PostIfAlive(w) PROVE PostInv'
  BY <1>4 DEF PostIfAlive, Return
<1>5. ASSUME NEW w \in Waiter, Select(w) \/ Recheck(w) \/ Cancel(w) PROVE PostInv'
  BY <1>5 DEF Select, Recheck, Cancel, Return, opVars
<1>6. CASE \/ Tick \/ Resolving \/ UNCHANGED vars
           \/ \E v \in {"ok", "error"} : Record(v)
           \/ \E k \in Watcher : AddCallback(k) \/ RunCallback(k)
  BY <1>6 DEF Tick, Resolving, EmitAndRelease, CloseDone, StartCallbacks, Record, AddCallback,
     RunCallback, waitVars, opVars, vars
<1> QED  BY <1>1, <1>2, <1>3, <1>4, <1>5, <1>6 DEF Next, Wait

(* A change of what is offered is a step of the future.                    *)
LEMMA OfferMoves ==
  ASSUME \/ Offered = "none" /\ Offered' \in {"refused", "open"}
         \/ Offered = "open" /\ Offered' \in {"ok", "error"}
  PROVE  F!Next
<1> DEFINE future == [o \in {"op"} |-> Offered]
<1>1. future' = [future EXCEPT !["op"] = Offered'] /\ future["op"] = Offered
  OBVIOUS
<1>2. \/ F!Refuse("op") \/ F!Accept("op")
      \/ \E verdict \in {"ok", "error"} : F!Resolve("op", verdict)
  BY <1>1 DEF F!Refuse, F!Accept, F!Resolve
<1> QED  BY <1>2 DEF F!Next

(* Only the post of the blocking call and the closing of done change what  *)
(* is offered.                                                             *)
LEMMA StepIsFuture ==
  ASSUME OperationInv, PostInv, [Next]_vars
  PROVE  F!Next \/ UNCHANGED [o \in {"op"} |-> Offered]
<1> USE OperationAssumption DEF OperationInv, TypeOK, LimitInv, ResultInv, PostInv
<1>1. ASSUME NEW w \in Waiter, PostIfAlive(w) PROVE F!Next
  <2>1. /\ poster = w /\ ~posted /\ ~done /\ answer[w] = "none"
        /\ UNCHANGED <<poster, done>>
        /\ posted' \/ (posted' = posted /\ answer'[w] # "none")
    BY <1>1 DEF PostIfAlive, Return
  <2>2. Offered = "none" /\ Offered' \in {"refused", "open"}
    BY <2>1 DEF Offered
  <2> QED  BY <2>2, OfferMoves
<1>2. CASE CloseDone
  <2>1. (posted /\ ~done /\ result \in {"ok", "error"}) \/ done
    BY <1>2 DEF CloseDone, Result
  <2>2. done' /\ result' = result
    BY <1>2 DEF CloseDone
  <2>3. CASE ~done
    BY <2>1, <2>2, <2>3, OfferMoves DEF Offered
  <2>4. CASE done
    BY <2>2, <2>4 DEF Offered
  <2> QED  BY <2>3, <2>4
<1>3. ASSUME UNCHANGED <<poster, posted, done>>, done => result' = result,
             posted \/ answer' = answer
      PROVE  Offered' = Offered
  BY <1>3 DEF Offered
<1>4. ASSUME NEW w \in Waiter, Begin(w) \/ Derive(w) \/ WithTimeout(w) \/ Cancel(w)
      PROVE  Offered' = Offered
  BY <1>3, <1>4 DEF Begin, Derive, WithTimeout, Cancel, opVars
<1>5. ASSUME NEW w \in Waiter, Select(w) \/ Recheck(w) PROVE Offered' = Offered
  <2>1. UNCHANGED <<poster, posted, done, result>> /\ wpc[w] \in {"await", "recheck"}
        /\ \A u \in Waiter \ {w} : answer'[u] = answer[u]
    BY <1>5 DEF Select, Recheck, Return, opVars
  <2>2. posted \/ poster # w
    BY <2>1
  <2>3. posted \/ poster = Nobody \/ answer'[poster] = answer[poster]
    BY <2>1, <2>2
  <2> QED  BY <2>1, <2>3 DEF Offered
<1>6. CASE \/ Tick \/ EmitAndRelease \/ StartCallbacks \/ UNCHANGED vars
           \/ \E v \in {"ok", "error"} : Record(v)
           \/ \E k \in Watcher : AddCallback(k) \/ RunCallback(k)
  BY <1>3, <1>6 DEF Tick, EmitAndRelease, StartCallbacks, Record, AddCallback, RunCallback,
     waitVars, opVars, vars
<1> QED  BY <1>1, <1>2, <1>4, <1>5, <1>6 DEF Next, Wait, Resolving

(* A blocking call that gave up before the post never posts, one that      *)
(* posted is never refused, and the result is published once: whatever the *)
(* contexts of the waiters and the callbacks do.                           *)
THEOREM OperationImplementsFuture == Spec => ImplementsFuture
<1>1. Init => PostInv /\ Offered \in {"none", "open"}
  BY OperationAssumption DEF Init, PostInv, Offered
<1>2. OperationInv /\ PostInv /\ [Next]_vars => PostInv'
  BY PostNext
<1>3. OperationInv /\ PostInv /\ [Next]_vars => [F!Next]_([o \in {"op"} |-> Offered])
  BY StepIsFuture
<1> QED  BY <1>1, <1>2, <1>3, OperationCorrect, PTL DEF Spec, ImplementsFuture
=============================================================================
