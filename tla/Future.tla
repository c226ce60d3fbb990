------------------------------- MODULE Future -------------------------------
(***************************************************************************)
(* What a caller of SendAsync or ReceiveAsync is promised (package client):*)
(* the call is refused with an error or returns a future, and the future   *)
(* resolves at most once, with a result that never changes.                *)
(***************************************************************************)
CONSTANT Op      \* calls

VARIABLE future  \* what the caller of each operation can observe

TypeOK == future \in [Op -> {"none", "refused", "open", "ok", "error"}]

Init == future = [o \in Op |-> "none"]

\* The call returns an error and no future.
Refuse(o) ==
  /\ future[o] = "none"
  /\ future' = [future EXCEPT ![o] = "refused"]

\* The provider has accepted the operation.
Accept(o) ==
  /\ future[o] = "none"
  /\ future' = [future EXCEPT ![o] = "open"]

\* The done channel closes, with the result behind it.
Resolve(o, verdict) ==
  /\ future[o] = "open"
  /\ future' = [future EXCEPT ![o] = verdict]

Next == \E o \in Op :
  \/ Refuse(o)
  \/ Accept(o)
  \/ \E verdict \in {"ok", "error"} : Resolve(o, verdict)

Spec == Init /\ [][Next]_future

(* What a caller was told does not change: a refused call gets no result,  *)
(* and Await returns the same result every time.                           *)
Final ==
  [][\A o \in Op : future[o] \in {"refused", "ok", "error"} => future'[o] = future[o]]_future
=============================================================================
