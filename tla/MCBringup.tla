----------------------------- MODULE MCBringup -----------------------------
(* Model of Bringup and Peers for TLC.  What only one party can see is not *)
(* interleaved.  A client that dials shares nothing with a listener and    *)
(* its clients, so the two are explored side by side: once one has started *)
(* the other stays idle.  A client that connects is alone before its       *)
(* request and after it began to close, and a listener is unknown until    *)
(* Listen returns: while a party is in such a part, which ends, only that  *)
(* party moves.  The regions of a client and its peers do not meet either: *)
(* regions are explored for clients without address vector, and not for    *)
(* one that connects, which uses its domain as one that dials does.        *)
EXTENDS Peers

Idle(S) == \A p \in S : at[p] = "idle"

Apart == Idle(Dialer) \/ Idle(Party \ Dialer)

WithRegions == {p \in Dialer \cup Acceptor : "av" \notin Range(opened[p])}

Alone(p) ==
  \/ p \in Connector /\ at[p] \in {"unwinding", "closing"}
  \/ p = Server /\ at[p] = "building"
  \/ p \in Connector /\ at[p] = "building" /\ ~Steps(p, "connect") /\ ~Waits(p)

MCNext ==
  IF \E p \in Party : Alone(p)
  THEN \E p \in Party : Alone(p) /\ (Take(p) \/ Fail(p) \/ Finish(p)) /\ UNCHANGED peerVars
  ELSE PeersNext /\ Apart' /\ \A p \in Party \ WithRegions : regions'[p] = {}

MCFairSpec == PeersInit /\ [][MCNext]_allVars /\ Fairness
=============================================================================
