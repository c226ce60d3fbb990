----------------------------- MODULE Operation ------------------------------
(***************************************************************************)
(* One operation of package client and the goroutines around it            *)
(* (client/client.go): the dispatcher completes it, OnComplete registers   *)
(* callbacks on its future, Await waits for it under a context, and the    *)
(* blocking calls (Send, ReceiveFrom) derive that context from the         *)
(* caller's deadline and the configured timeout (operationContext).        *)
(*                                                                         *)
(* Time is a clock that stops at MaxTime: MaxTime stands for every later   *)
(* moment, and a deadline beyond it is one that has passed by then.        *)
(***************************************************************************)
EXTENDS Integers

CONSTANTS
  Waiter,      \* goroutines that wait for the operation
  Watcher,     \* callbacks handed to OnComplete
  Nobody,      \* no waiter
  Configured,  \* Config.Timeout; not positive: none
  MaxTime,     \* bound on the clock
  Never        \* no deadline

ASSUME OperationAssumption ==
  /\ Nobody \notin Waiter
  /\ Configured \in Int
  /\ MaxTime \in Nat
  /\ Never \in Nat /\ Never > MaxTime

Time == 0 .. MaxTime
Deadline == Time \cup {Never}

VARIABLES
  now,        \* the clock
  wpc,        \* where each waiter is
  asked,      \* the deadline of the context the caller passed
  cancelled,  \* the caller has cancelled that context
  began,      \* when the call began
  timeout,    \* the local variable of operationContext
  limit,      \* the deadline of the context the waiter waits under
  answer,     \* what the call returned
  poster,     \* the goroutine whose blocking call posts the operation, if one does
  posted,     \* the provider has the operation
  dpc,        \* where the dispatcher is in operation.complete
  result,     \* op.result
  completed,  \* op.completed
  callbacks,  \* op.callbacks
  taken,      \* complete's copy of them, as far as not yet started
  done,       \* op.done is closed
  cb,         \* where each callback is
  heard       \* the result each callback was started with

opVars == <<poster, posted, dpc, result, completed, callbacks, taken, done, cb, heard>>
waitVars == <<wpc, asked, cancelled, began, timeout, limit, answer>>
vars == <<now, wpc, asked, cancelled, began, timeout, limit, answer,
          poster, posted, dpc, result, completed, callbacks, taken, done, cb, heard>>

Result == {"none", "ok", "error"}

TypeOK ==
  /\ now \in Time
  /\ wpc \in [Waiter -> {"idle", "derive", "bound", "check", "await", "recheck", "returned"}]
  /\ asked \in [Waiter -> Deadline]
  /\ cancelled \in [Waiter -> BOOLEAN]
  /\ began \in [Waiter -> Time]
  /\ timeout \in [Waiter -> Int]
  /\ limit \in [Waiter -> Deadline]
  /\ answer \in [Waiter -> {"none", "context", "refused", "ok", "error"}]
  /\ poster \in Waiter \cup {Nobody}
  /\ posted \in BOOLEAN
  /\ dpc \in {"idle", "emit", "release", "close", "start", "finished"}
  /\ result \in Result
  /\ completed \in BOOLEAN
  /\ callbacks \subseteq Watcher
  /\ taken \subseteq Watcher
  /\ done \in BOOLEAN
  /\ cb \in [Watcher -> {"none", "listed", "started", "ran"}]
  /\ heard \in [Watcher -> Result]

\* The operation was posted and its future handed out, or a blocking call is
\* about to post it; the future of a blocking call stays its own.
Init ==
  /\ now = 0
  /\ wpc = [w \in Waiter |-> "idle"]
  /\ asked = [w \in Waiter |-> Never]
  /\ cancelled = [w \in Waiter |-> FALSE]
  /\ began = [w \in Waiter |-> 0]
  /\ timeout = [w \in Waiter |-> 0]
  /\ limit = [w \in Waiter |-> Never]
  /\ answer = [w \in Waiter |-> "none"]
  /\ poster \in Waiter \cup {Nobody}
  /\ posted = (poster = Nobody)
  /\ dpc = "idle"
  /\ result = "none"
  /\ completed = FALSE
  /\ callbacks = {}
  /\ taken = {}
  /\ done = FALSE
  /\ cb = [k \in Watcher |-> "none"]
  /\ heard = [k \in Watcher |-> "none"]

-----------------------------------------------------------------------------
(* The waiters.                                                            *)

\* ctx.Done() is closed.
Ended(w) == cancelled[w] \/ now >= limit[w]

\* The call returns.
Return(w, a) ==
  /\ wpc' = [wpc EXCEPT ![w] = "returned"]
  /\ answer' = [answer EXCEPT ![w] = a]

\* The call begins, with a context of the caller's choice.
Begin(w) ==
  /\ wpc[w] = "idle" /\ poster \in {w, Nobody}
  /\ now + Configured <= MaxTime
  /\ \E d \in Deadline :
       /\ asked' = [asked EXCEPT ![w] = d]
       /\ limit' = [limit EXCEPT ![w] = d]
  /\ began' = [began EXCEPT ![w] = now]
  /\ wpc' = [wpc EXCEPT ![w] = IF poster = w THEN "derive" ELSE "await"]
  /\ UNCHANGED <<now, cancelled, timeout, answer, opVars>>

\* Mutant: the timeout only shortens a deadline, a context without one is kept.
KeepsContext_NoDeadline(w) ==
  asked[w] = Never \/ asked[w] <= now \/ Configured <= 0 \/ asked[w] - now < Configured

\* The caller keeps its context if that ends first, or if no timeout is set.
KeepsContext(w) ==
  LET remaining == asked[w] - now IN
  IF asked[w] = Never THEN Configured <= 0
  ELSE remaining <= 0 \/ Configured <= 0 \/ remaining < Configured

\* Mutant: remaining is computed and not assigned.
DerivedTimeout_Configured(w) == Configured

\* The timeout of the derived context.
DerivedTimeout(w) == IF asked[w] = Never THEN Configured ELSE asked[w] - now

\* operationContext compares the caller's deadline with the timeout.
Derive(w) ==
  /\ wpc[w] = "derive"
  /\ IF KeepsContext(w)
     THEN wpc' = [wpc EXCEPT ![w] = "check"] /\ UNCHANGED timeout
     ELSE /\ wpc' = [wpc EXCEPT ![w] = "bound"]
          /\ timeout' = [timeout EXCEPT ![w] = DerivedTimeout(w)]
  /\ UNCHANGED <<now, asked, cancelled, began, limit, answer, opVars>>

\* Mutant: the parent's deadline is forgotten.
WithTimeout_Unbound(w) ==
  /\ wpc[w] = "bound"
  /\ limit' = [limit EXCEPT ![w] = now + timeout[w]]
  /\ wpc' = [wpc EXCEPT ![w] = "check"]
  /\ UNCHANGED <<now, asked, cancelled, began, timeout, answer, opVars>>

\* context.WithTimeout: time has passed since, and the parent's deadline holds.
WithTimeout(w) ==
  /\ wpc[w] = "bound"
  /\ \E e \in {now + timeout[w], MaxTime, limit[w]} :
       /\ e <= now + timeout[w] /\ e <= MaxTime /\ e <= limit[w]
       /\ limit' = [limit EXCEPT ![w] = e]
  /\ wpc' = [wpc EXCEPT ![w] = "check"]
  /\ UNCHANGED <<now, asked, cancelled, began, timeout, answer, opVars>>

\* ctx.Err() before the post; the post, which may be refused.
PostIfAlive(w) ==
  /\ wpc[w] = "check"
  /\ \/ Ended(w) /\ Return(w, "context") /\ UNCHANGED posted
     \/ ~Ended(w) /\ Return(w, "refused") /\ UNCHANGED posted
     \/ /\ ~Ended(w)
        /\ posted' = TRUE
        /\ wpc' = [wpc EXCEPT ![w] = "await"]
        /\ UNCHANGED answer
  /\ UNCHANGED <<now, asked, cancelled, began, timeout, limit, poster,
                 dpc, result, completed, callbacks, taken, done, cb, heard>>

\* Await's select: with both channels closed either branch is taken.
Select(w) ==
  /\ wpc[w] = "await"
  /\ \/ done /\ Return(w, result)
     \/ Ended(w) /\ wpc' = [wpc EXCEPT ![w] = "recheck"] /\ UNCHANGED answer
  /\ UNCHANGED <<now, asked, cancelled, began, timeout, limit, opVars>>

\* The context has ended: a result that is there goes first.
Recheck(w) ==
  /\ wpc[w] = "recheck"
  /\ Return(w, IF done THEN result ELSE "context")
  /\ UNCHANGED <<now, asked, cancelled, began, timeout, limit, opVars>>

\* The caller cancels its context.
Cancel(w) ==
  /\ wpc[w] \notin {"idle", "returned"} /\ ~cancelled[w]
  /\ cancelled' = [cancelled EXCEPT ![w] = TRUE]
  /\ UNCHANGED <<now, wpc, asked, began, timeout, limit, answer, opVars>>

Wait(w) == Derive(w) \/ WithTimeout(w) \/ PostIfAlive(w) \/ Select(w) \/ Recheck(w)

-----------------------------------------------------------------------------
(* The dispatcher in operation.complete.                                   *)

\* Mutant: complete without once.Do.
Record_Again(v) ==
  /\ posted
  /\ result' = v
  /\ completed' = TRUE
  /\ taken' = callbacks
  /\ callbacks' = {}
  /\ dpc' = "emit"
  /\ UNCHANGED <<now, waitVars, poster, posted, done, cb, heard>>

\* once.Do, under op.mu: the result, and the callbacks registered so far.
Record(v) ==
  /\ posted /\ dpc = "idle"
  /\ result' = v
  /\ completed' = TRUE
  /\ taken' = callbacks
  /\ callbacks' = {}
  /\ dpc' = "emit"
  /\ UNCHANGED <<now, waitVars, poster, posted, done, cb, heard>>

\* The handlers are told, then the region is given back.
EmitAndRelease ==
  /\ \/ dpc = "emit" /\ dpc' = "release"
     \/ dpc = "release" /\ dpc' = "close"
  /\ UNCHANGED <<now, waitVars, poster, posted, result, completed, callbacks, taken, done, cb, heard>>

CloseDone ==
  /\ dpc = "close"
  /\ done' = TRUE
  /\ dpc' = "start"
  /\ UNCHANGED <<now, waitVars, poster, posted, result, completed, callbacks, taken, cb, heard>>

\* A goroutine for each callback of the copy.
StartCallbacks ==
  /\ dpc = "start"
  /\ \/ \E k \in taken :
          /\ taken' = taken \ {k}
          /\ cb' = [cb EXCEPT ![k] = "started"]
          /\ heard' = [heard EXCEPT ![k] = result]
          /\ UNCHANGED dpc
     \/ taken = {} /\ dpc' = "finished" /\ UNCHANGED <<taken, cb, heard>>
  /\ UNCHANGED <<now, waitVars, poster, posted, result, completed, callbacks, done>>

\* What is left of complete once the result is recorded.
Resolving == EmitAndRelease \/ CloseDone \/ StartCallbacks

-----------------------------------------------------------------------------
(* The callbacks.                                                          *)

\* Mutant: addCallback starts the callback without a look at completed.
AddCallback_Unchecked(k) ==
  /\ poster = Nobody /\ cb[k] = "none"
  /\ cb' = [cb EXCEPT ![k] = "started"]
  /\ heard' = [heard EXCEPT ![k] = result]
  /\ UNCHANGED <<now, waitVars, poster, posted, dpc, result, completed, callbacks, taken, done>>

\* Mutant: addCallback appends whether or not the result is there.
AddCallback_Appends(k) ==
  /\ poster = Nobody /\ cb[k] = "none"
  /\ cb' = [cb EXCEPT ![k] = "listed"]
  /\ callbacks' = callbacks \cup {k}
  /\ UNCHANGED <<now, waitVars, poster, posted, dpc, result, completed, taken, done, heard>>

\* addCallback, under op.mu: started at once if the result is there.
AddCallback(k) ==
  /\ poster = Nobody /\ cb[k] = "none"
  /\ IF completed
     THEN /\ cb' = [cb EXCEPT ![k] = "started"]
          /\ heard' = [heard EXCEPT ![k] = result]
          /\ UNCHANGED callbacks
     ELSE /\ cb' = [cb EXCEPT ![k] = "listed"]
          /\ callbacks' = callbacks \cup {k}
          /\ UNCHANGED heard
  /\ UNCHANGED <<now, waitVars, poster, posted, dpc, result, completed, taken, done>>

\* The goroutine of a callback runs it.
RunCallback(k) ==
  /\ cb[k] = "started"
  /\ cb' = [cb EXCEPT ![k] = "ran"]
  /\ UNCHANGED <<now, waitVars, poster, posted, dpc, result, completed, callbacks, taken, done, heard>>

-----------------------------------------------------------------------------
Tick ==
  /\ now < MaxTime
  /\ now' = now + 1
  /\ UNCHANGED <<waitVars, opVars>>

Next ==
  \/ Tick
  \/ \E w \in Waiter : Begin(w) \/ Wait(w) \/ Cancel(w)
  \/ \E v \in {"ok", "error"} : Record(v)
  \/ Resolving
  \/ \E k \in Watcher : AddCallback(k) \/ RunCallback(k)

Spec == Init /\ [][Next]_vars

(* The clock runs, and goroutines that can run do.  Nothing is assumed of  *)
(* the provider: a posted operation may stay pending for ever.             *)
Fairness ==
  /\ WF_vars(Tick)
  /\ \A w \in Waiter : WF_vars(Wait(w))
  /\ WF_vars(Resolving)
  /\ \A k \in Watcher : WF_vars(RunCallback(k))

FairSpec == Spec /\ Fairness

-----------------------------------------------------------------------------
(* A call reports the end of its context only when the caller cancelled    *)
(* it, the caller's own deadline has passed or, for a blocking call        *)
(* without one, the configured timeout since the call began                *)
(* (operationContext and the order of Await's two channels).               *)
NotEarly ==
  \A w \in Waiter : answer[w] = "context" =>
    \/ cancelled[w]
    \/ now >= asked[w]
    \/ poster = w /\ asked[w] = Never /\ Configured > 0 /\ now >= began[w] + Configured

(* Whoever was told of the operation was told its one result: callbacks,   *)
(* on whichever side of the completion they were registered, and Await.    *)
SameResult ==
  /\ \A k \in Watcher : cb[k] \in {"started", "ran"} =>
       completed /\ heard[k] = result
  /\ \A w \in Waiter : answer[w] \in {"ok", "error"} => done /\ answer[w] = result

(* A callback registered with OnComplete runs if the operation completes,  *)
(* also when registration and completion race (addCallback, complete).     *)
CallbacksRun == \A k \in Watcher : cb[k] # "none" /\ completed ~> cb[k] = "ran"

(* A blocking call returns: at its caller's deadline, or the configured    *)
(* timeout after it began if the caller's context has no deadline.  Await  *)
(* returns once the operation is done or its context has ended.            *)
CallReturns ==
  \A w \in Waiter :
    (wpc[w] # "idle" /\ poster = w) \/ (wpc[w] = "await" /\ (done \/ Ended(w)))
    ~> wpc[w] = "returned"

\* The moment e is not too early for the context of w to end.
InTime(w, e) ==
  \/ e >= asked[w]
  \/ poster = w /\ asked[w] = Never /\ Configured > 0 /\ e >= began[w] + Configured

\* The context a waiter has, or is about to have, does not end early.
LimitInv ==
  \A w \in Waiter :
    /\ wpc[w] # "idle" => began[w] <= now /\ began[w] + Configured <= MaxTime
    /\ wpc[w] # "idle" => InTime(w, limit[w])
    /\ wpc[w] = "bound" => poster = w /\ InTime(w, now + timeout[w])
    /\ wpc[w] = "bound" => limit[w] = asked[w] /\ timeout[w] >= 0
    /\ wpc[w] = "bound" /\ asked[w] = Never => Configured > 0
    /\ wpc[w] = "derive" => poster = w /\ limit[w] = asked[w]
    /\ wpc[w] = "recheck" => Ended(w)
    /\ answer[w] # "none" => wpc[w] = "returned"

\* The result is there from the moment it is recorded.
ResultInv ==
  /\ completed <=> dpc # "idle"
  /\ done => completed
  /\ taken # {} => completed
  /\ completed <=> result # "none"

\* The inductive invariant behind the theorems of OperationProofs.
OperationInv ==
  /\ TypeOK
  /\ LimitInv
  /\ ResultInv
  /\ NotEarly
  /\ SameResult

-----------------------------------------------------------------------------
\* What the caller of the operation has: of a blocking call the post decides,
\* of any other the future is already there.
Offered ==
  IF done THEN result
  ELSE IF posted THEN "open"
  ELSE IF poster # Nobody /\ answer[poster] # "none" THEN "refused" ELSE "none"

F == INSTANCE Future WITH Op <- {"op"}, future <- [o \in {"op"} |-> Offered]

(* Waiting under contexts that end, cancelling and callbacks keep the      *)
(* promise of a future: a blocking call that returned before the post      *)
(* posts nothing later, and the result is published once, for good.        *)
ImplementsFuture ==
  Offered \in {"none", "open"} /\ [][F!Next]_[o \in {"op"} |-> Offered]

\* The post of a blocking call, and what comes after it.
PostInv ==
  /\ \A w \in Waiter :
       /\ wpc[w] = "check" => poster = w
       /\ poster = w /\ wpc[w] \in {"idle", "derive", "bound", "check"} => ~posted
       /\ poster = w /\ wpc[w] \in {"await", "recheck"} => posted
  /\ poster = Nobody \/ dpc # "idle" => posted
=============================================================================
