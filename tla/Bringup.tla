------------------------------ MODULE Bringup ------------------------------
(***************************************************************************)
(* How clients and listeners come up and go down: Dial and Close           *)
(* (client/client.go), Connect (client/connect.go), Listen, Accept and     *)
(* Close of the listener (client/listener.go).  Each constructor is a      *)
(* script of steps that open, bind and start libfabric objects; any step   *)
(* may fail, and what was opened is then closed.  Constructors and Close   *)
(* of different parties interleave step by step.  An accepted client lives *)
(* on the fabric and the domain of the listener.                           *)
(*                                                                         *)
(* Connections come about through event queues: Accept polls the queue of  *)
(* the listener for requests, and both sides wait on their own queue for   *)
(* the connection.  Nobody reads the error entries of an event queue.      *)
(*                                                                         *)
(* fi_close of an object that others use may fail with "busy"; every Close *)
(* of package fi drops the handle all the same, and the object is lost.    *)
(* Clients also register memory regions on a domain, for their operations  *)
(* and in their pool; Client and MRPool have them one by one, here it only *)
(* matters that there are some.                                            *)
(***************************************************************************)
EXTENDS Naturals, Sequences, SequencesExt

CONSTANTS
  Dialer,     \* calls of Dial
  Connector,  \* calls of Connect
  Acceptor,   \* calls of Accept
  Server,     \* the listener
  NoParty

ASSUME BringupAssumption ==
  /\ Dialer \cap (Connector \cup Acceptor) = {}
  /\ Connector \cap Acceptor = {}
  /\ {Server, NoParty} \cap (Dialer \cup Connector \cup Acceptor) = {}
  /\ Server # NoParty

Party == Dialer \cup Connector \cup Acceptor \cup {Server}

\* "info" is what the descriptors of a constructor point into: the result of
\* its discovery or, for Accept, the fi_info of the request.
Kind == {"info", "fabric", "domain", "av", "cq", "eq", "ep", "pep"}

VARIABLES
  at,        \* where each party is
  script,    \* the steps of its constructor
  step,      \* the step it is about to take
  opened,    \* the kinds of objects it has opened so far, in order
  todo,      \* the kinds of objects it still has to close
  object,    \* its objects: "lost" when fi_close failed and the handle is gone
  bound,     \* the kinds of objects its endpoint is bound to
  poll,      \* where it is in the loop that reads an event queue
  ended,     \* the waiting parties whose context or deadline has ended
  request,   \* the connection request of each connector
  peer,      \* the connector whose request an acceptor took
  connected, \* the parties whose queue got the event Connected
  broken,    \* the queue of the listener holds an error entry
  regions    \* a client has "spare" regions in its pool, and others that it
             \* "held" last: of operations, or not deregistered

restVars == <<request, peer, connected, broken, regions>>
vars == <<at, script, step, opened, todo, object, bound, poll, ended, restVars>>

\* The steps of the constructors.
Task ==
  [do : {"discover", "open", "bind", "enable", "address", "peer", "pool", "connect",
         "request", "accept", "wait", "listen"},
   kind : Kind]

Open(k) == [do |-> "open", kind |-> k]
Bind(k) == [do |-> "bind", kind |-> k]
Do(a) == [do |-> a, kind |-> "ep"]

TypeOK ==
  /\ at \in [Party -> {"idle", "building", "unwinding", "failed", "up", "closing", "closed"}]
  /\ script \in [Party -> Seq(Task)]
  /\ step \in [Party -> Nat \ {0}]
  /\ \A p \in Party : step[p] <= Len(script[p]) + 1
  /\ opened \in [Party -> Seq(Kind)]
  /\ todo \in [Party -> Seq(Kind)]
  /\ object \in [Party -> [Kind -> {"absent", "open", "gone", "lost"}]]
  /\ bound \in [Party -> SUBSET Kind]
  /\ poll \in [Party -> {"top", "checked", "reading"}]
  /\ ended \subseteq Party
  /\ request \in [Connector -> {"none", "sent", "taken"}]
  /\ peer \in [Acceptor -> Connector \cup {NoParty}]
  /\ connected \subseteq Party
  /\ broken \in BOOLEAN
  /\ regions \in [Party -> SUBSET {"spare", "held"}]

Init ==
  /\ at = [p \in Party |-> "idle"]
  /\ script = [p \in Party |-> <<>>]
  /\ step = [p \in Party |-> 1]
  /\ opened = [p \in Party |-> <<>>]
  /\ todo = [p \in Party |-> <<>>]
  /\ object = [p \in Party |-> [k \in Kind |-> "absent"]]
  /\ bound = [p \in Party |-> {}]
  /\ poll = [p \in Party |-> "top"]
  /\ ended = {}
  /\ request = [c \in Connector |-> "none"]
  /\ peer = [a \in Acceptor |-> NoParty]
  /\ connected = {}
  /\ broken = FALSE
  /\ regions = [p \in Party |-> {}]

-----------------------------------------------------------------------------
(* The constructors.                                                       *)

\* Dial: with an address vector for RDM endpoints, with a peer to register,
\* with a pool of regions.
DialScript(rdm, peered, pooled) ==
  <<Do("discover"), Open("fabric"), Open("domain"), Open("cq"), Open("ep"),
    Bind("cq"), Do("enable")>>
    \o (IF rdm THEN <<Open("av"), Bind("av"), Do("address")>> ELSE <<>>)
    \o (IF rdm /\ peered THEN <<Do("peer")>> ELSE <<>>)
    \o (IF pooled THEN <<Do("pool")>> ELSE <<>>)

ConnectScript ==
  <<Do("discover"), Open("fabric"), Open("domain"), Open("cq"), Open("eq"), Open("ep"),
    Bind("cq"), Bind("eq"), Do("enable"), Do("connect"), Do("wait")>>

ListenScript ==
  <<Do("discover"), Open("fabric"), Open("domain"), Open("eq"), Open("pep"),
    Bind("eq"), Do("listen")>>

\* Accept waits for a request, the rest is handleConnReq.
AcceptScript ==
  <<Do("request"), Open("ep"), Open("cq"), Open("eq"),
    Bind("cq"), Bind("eq"), Do("enable"), Do("accept"), Do("wait")>>

Scripts(p) ==
  CASE p \in Dialer    -> {DialScript(r, n, m) : r, n, m \in BOOLEAN}
    [] p \in Connector -> {ConnectScript}
    [] p \in Acceptor  -> {AcceptScript}
    [] p = Server      -> {ListenScript}

Now(p) == script[p][step[p]]
Steps(p, a) == at[p] = "building" /\ step[p] <= Len(script[p]) /\ Now(p).do = a
Advance(p) == step' = [step EXCEPT ![p] = @ + 1]

\* The party an object belongs to.
Owner(p, k) == IF p \in Acceptor /\ k \in {"fabric", "domain"} THEN Server ELSE p

\* The kind of object that kind k is opened on.
Parent(k) == IF k \in {"domain", "eq", "pep"} THEN "fabric" ELSE "domain"

\* A handle is not nil.
Live(p, k) == object[p][k] = "open"

\* The application calls the constructor; Accept needs a listener.
Start(p) ==
  /\ at[p] = "idle"
  /\ p \in Acceptor => at[Server] \in {"up", "closing", "closed"}
  /\ at' = [at EXCEPT ![p] = "building"]
  /\ \E s \in Scripts(p) : script' = [script EXCEPT ![p] = s]
  /\ UNCHANGED <<step, opened, todo, object, bound, poll, ended, restVars>>

\* DiscoverDescriptors: the list of fi_info is there.
Discover(p) ==
  /\ Steps(p, "discover")
  /\ object' = [object EXCEPT ![p]["info"] = "open"]
  /\ Advance(p)
  /\ UNCHANGED <<at, script, opened, todo, bound, poll, ended, restVars>>

\* An object is opened on its parent, unless the handle of that is nil.
OpenObject(p) ==
  /\ Steps(p, "open")
  /\ LET k == Now(p).kind
     IN  /\ k # "fabric" => Live(Owner(p, Parent(k)), Parent(k))
         /\ object' = [object EXCEPT ![p][k] = "open"]
         /\ opened' = [opened EXCEPT ![p] = Append(@, k)]
  /\ Advance(p)
  /\ UNCHANGED <<at, script, todo, bound, poll, ended, restVars>>

BindObject(p) ==
  /\ Steps(p, "bind")
  /\ bound' = [bound EXCEPT ![p] = @ \cup {Now(p).kind}]
  /\ Advance(p)
  /\ UNCHANGED <<at, script, opened, todo, object, poll, ended, restVars>>

\* Enable, RegisterAddress and Name, InsertService, NewMRPool, Listen: steps
\* that open and bind nothing.
Prepare(p) ==
  /\ \E a \in {"enable", "address", "peer", "pool", "listen"} : Steps(p, a)
  /\ Advance(p)
  /\ UNCHANGED <<at, script, opened, todo, object, bound, poll, ended, restVars>>

\* endpoint.Connect sends a request to the listener.
SendRequest(c) ==
  /\ Steps(c, "connect")
  /\ request' = [request EXCEPT ![c] = "sent"]
  /\ Advance(c)
  /\ UNCHANGED <<at, script, opened, todo, object, bound, poll, ended, peer, connected, broken, regions>>

\* endpoint.Accept: the provider reports the connection to both sides, or to
\* one of them only when the other or the network fails.
AcceptRequest(a) ==
  /\ Steps(a, "accept")
  /\ \E s \in SUBSET {a, peer[a]} : connected' = connected \cup s
  /\ Advance(a)
  /\ UNCHANGED <<at, script, opened, todo, object, bound, poll, ended, request, peer, broken, regions>>

\* The deferred Discovery.Close and ConnectionEvent.Free.
Freed(p) == [object EXCEPT ![p]["info"] = IF @ = "open" THEN "gone" ELSE @]

\* Mutant: the discovery is closed only by the error paths.
Up_KeepsInfo(p) ==
  /\ at[p] = "building" /\ step[p] = Len(script[p]) + 1
  /\ at' = [at EXCEPT ![p] = "up"]
  /\ UNCHANGED <<script, step, opened, todo, object, bound, poll, ended, restVars>>

\* The constructor returns the client or the listener; a client's dispatcher
\* starts.
Up(p) ==
  /\ at[p] = "building" /\ step[p] = Len(script[p]) + 1
  /\ at' = [at EXCEPT ![p] = "up"]
  /\ object' = Freed(p)
  /\ UNCHANGED <<script, step, opened, todo, bound, poll, ended, restVars>>

-----------------------------------------------------------------------------
(* Failures and Close.                                                     *)

\* Mutant: an accepted client closes the fabric and the domain it is on.
ClosingOrder_OwnsAll(p) ==
  IF p = Server THEN <<"pep", "eq", "domain", "fabric">>
  ELSE <<"av", "ep", "cq", "eq", "domain", "fabric">>

\* Mutant: the domain is closed before the queues on it.
ClosingOrder_DomainFirst(p) ==
  CASE p = Server     -> <<"pep", "eq", "domain", "fabric">>
    [] p \in Acceptor -> <<"av", "ep", "cq", "eq">>
    [] OTHER          -> <<"av", "ep", "domain", "cq", "eq", "fabric">>

\* The order in which Client.Close and Listener.Close close what the party
\* owns.
ClosingOrder(p) ==
  CASE p = Server     -> <<"pep", "eq", "domain", "fabric">>
    [] p \in Acceptor -> <<"av", "ep", "cq", "eq">>
    [] OTHER          -> <<"av", "ep", "cq", "eq", "domain", "fabric">>

\* Mutant: the last error paths of Dial return without closing the client.
ErrorPath_ReturnsAtOnce(p) ==
  IF Now(p).do \in {"peer", "pool"} THEN <<>> ELSE Reverse(opened[p])

\* What an error path closes: what was opened, last first; once Dial has
\* built the client it calls Client.Close.
ErrorPath(p) ==
  IF Now(p).do \in {"peer", "pool"} THEN ClosingOrder(p) ELSE Reverse(opened[p])

\* A step has failed.
Unwind(p) ==
  /\ at' = [at EXCEPT ![p] = "unwinding"]
  /\ todo' = [todo EXCEPT ![p] = ErrorPath(p)]
  /\ ended' = ended \ {p}
  /\ UNCHANGED <<script, step, opened, object, bound, poll, restVars>>

\* Accept waits for a request, Accept and Connect for the connection.
Waits(p) == Steps(p, "request") \/ Steps(p, "wait")

\* A call of libfabric fails.
Fail(p) ==
  /\ at[p] = "building" /\ step[p] <= Len(script[p]) /\ ~Waits(p)
  /\ Unwind(p)

(* The regions of clients.                                                 *)

\* Only Dial makes a pool of regions.
Pooled(p) == p \in Dialer /\ Do("pool") \in Range(script[p])

\* An operation takes a region from the pool, or registers one on the domain
\* unless its handle is nil.  Operations that have passed the test of the
\* closed flag are not stopped by Close.
UseRegion(p) ==
  /\ p # Server /\ at[p] \in {"up", "closing", "closed"}
  /\ "spare" \in regions[p] \/ Live(Owner(p, "domain"), "domain")
  /\ \E left \in SUBSET (regions[p] \cap {"spare"}) :
       regions' = [regions EXCEPT ![p] = left \cup {"held"}]
  /\ UNCHANGED <<at, script, step, opened, todo, object, bound, poll, ended, request, peer, connected, broken>>

\* A region goes back to the pool, or is deregistered, which may fail.
ReleaseRegion(p) ==
  /\ "held" \in regions[p]
  /\ \E now \in SUBSET {"spare", "held"} :
       /\ regions[p] \ {"held"} \subseteq now
       /\ "spare" \in now => "spare" \in regions[p] \/ Pooled(p)
       /\ regions' = [regions EXCEPT ![p] = now]
  /\ UNCHANGED <<at, script, step, opened, todo, object, bound, poll, ended, request, peer, connected, broken>>

\* Close of a client or of the listener starts.  The pool of a client is
\* drained; regions of pending operations stay, and so does one whose
\* deregistration fails.
Close(p) ==
  /\ at[p] = "up"
  /\ at' = [at EXCEPT ![p] = "closing"]
  /\ todo' = [todo EXCEPT ![p] = ClosingOrder(p)]
  /\ \E left \in {{}, {"held"}} :
       /\ "held" \in regions[p] => "held" \in left
       /\ regions[p] = {} => left = {}
       /\ regions' = [regions EXCEPT ![p] = left]
  /\ UNCHANGED <<script, step, opened, object, bound, poll, ended, request, peer, connected, broken>>

\* The object exists: fi_close has not succeeded on it.
Exists(p, k) == object[p][k] \in {"open", "lost"}

\* Regions of a client are registered on the domain of p.
RegionsOn(p) == \E q \in Party : Owner(q, "domain") = p /\ regions[q] # {}

\* Others use the object: they were opened on it, regions are registered on
\* it, or an endpoint is bound to it.
Busy(p, k) ==
  \/ k \in {"fabric", "domain"} /\ \E q \in Party, c \in Kind \ {"info", "fabric"} :
       Exists(q, c) /\ Parent(c) = k /\ Owner(q, k) = p
  \/ k = "domain" /\ RegionsOn(p)
  \/ k \in bound[p] /\ \E e \in {"ep", "pep"} : Exists(p, e)

\* The next object is closed, or its handle is nil and nothing happens.
CloseObject(p) ==
  LET k == Head(todo[p])
      o == Owner(p, k)
  IN
  /\ at[p] \in {"unwinding", "closing"} /\ todo[p] # <<>>
  /\ todo' = [todo EXCEPT ![p] = Tail(@)]
  /\ IF Live(o, k)
     THEN \E r \in IF Busy(o, k) THEN {"gone", "lost"} ELSE {"gone"} :
            object' = [object EXCEPT ![o][k] = r]
     ELSE UNCHANGED object
  /\ UNCHANGED <<at, script, step, opened, bound, poll, ended, restVars>>

\* The constructor returns its error, or Close returns.
CloseReturn(p) ==
  /\ at[p] \in {"unwinding", "closing"} /\ todo[p] = <<>>
  /\ at' = [at EXCEPT ![p] = IF @ = "closing" THEN "closed" ELSE "failed"]
  /\ object' = Freed(p)
  /\ UNCHANGED <<script, step, opened, todo, bound, poll, ended, restVars>>

-----------------------------------------------------------------------------
(* The event queues: the loops of Accept and of waitForConnected.          *)

\* Mutant: an accepted endpoint is awaited on the queue of the listener.
QueueOf_Listener(p) == IF p \in Acceptor THEN Server ELSE p

\* Whose queue the party reads: Accept that of the listener, a wait its own.
QueueOf(p) == IF Steps(p, "request") THEN Server ELSE p

\* The loop reaches label l.
Goto(p, l) == poll' = [poll EXCEPT ![p] = l]

\* Mutant: the loops do not look at the context and the deadline.
GivesUp_OnlyClosed(p) == Steps(p, "request") /\ at[Server] # "up"

\* The tests at the top of the loop: the listener is closed, the context has
\* ended or the deadline is over.
GivesUp(p) == p \in ended \/ (Steps(p, "request") /\ at[Server] # "up")

\* The top of the loop.
PollTop(p) ==
  /\ Waits(p) /\ poll[p] = "top"
  /\ IF GivesUp(p) THEN Unwind(p)
     ELSE /\ Goto(p, "checked")
          /\ UNCHANGED <<at, script, step, opened, todo, object, bound, ended, restVars>>

\* ReadCM: a nil handle is an error, otherwise the C call begins.
BeginRead(p) ==
  /\ Waits(p) /\ poll[p] = "checked"
  /\ IF Live(QueueOf(p), "eq")
     THEN /\ Goto(p, "reading")
          /\ UNCHANGED <<at, script, step, opened, todo, object, bound, ended, restVars>>
     ELSE Unwind(p)

Reads(p) == Waits(p) /\ poll[p] = "reading"

\* Something waits in the queue that p reads.
EventFor(p) ==
  \/ Steps(p, "request") /\ (broken \/ \E c \in Connector : request[c] = "sent")
  \/ Steps(p, "wait") /\ p \in connected

\* The read comes back without an event, or with one that is freed and
\* ignored; so may a read of a queue that was closed under it.
ReadNothing(p) ==
  /\ Reads(p)
  /\ ~EventFor(p) \/ ~Live(QueueOf(p), "eq")
  /\ Goto(p, "top")
  /\ UNCHANGED <<at, script, step, opened, todo, object, bound, ended, restVars>>

\* The read fails.  The queue of the listener was closed under it, or holds
\* an error entry, which stays there; or the own connection was refused or
\* shut down.
ReadFails(p) ==
  /\ Reads(p)
  /\ Steps(p, "request") => broken \/ ~Live(Server, "eq")
  /\ Unwind(p)

\* Accept reads a request from the event queue of the listener.
TakeRequest(a, c) ==
  /\ Reads(a) /\ Steps(a, "request") /\ Live(Server, "eq")
  /\ request[c] = "sent"
  /\ request' = [request EXCEPT ![c] = "taken"]
  /\ peer' = [peer EXCEPT ![a] = c]
  /\ object' = [object EXCEPT ![a]["info"] = "open"]
  /\ Advance(a)
  /\ Goto(a, "top")
  /\ UNCHANGED <<at, script, opened, todo, bound, ended, connected, broken, regions>>

\* Mutant: any event of the connection ends the wait.
WaitConnected_AnyEvent(p) ==
  /\ Reads(p) /\ Steps(p, "wait")
  /\ Advance(p)
  /\ Goto(p, "top")
  /\ ended' = ended \ {p}
  /\ UNCHANGED <<at, script, opened, todo, object, bound, restVars>>

\* waitForConnected reads the event Connected.
WaitConnected(p) ==
  /\ Reads(p) /\ Steps(p, "wait")
  /\ p \in connected
  /\ Advance(p)
  /\ Goto(p, "top")
  /\ ended' = ended \ {p}
  /\ UNCHANGED <<at, script, opened, todo, object, bound, restVars>>

\* The context of a waiting call ends, or its deadline passes.
End(p) ==
  /\ Waits(p) /\ p \notin ended
  /\ ended' = ended \cup {p}
  /\ UNCHANGED <<at, script, step, opened, todo, object, bound, poll, restVars>>

\* An error entry enters the queue of the listener while somebody reads it:
\* the request of a stranger has failed.
Break ==
  /\ ~broken /\ Live(Server, "eq")
  /\ \E a \in Acceptor : Reads(a) /\ Steps(a, "request")
  /\ broken' = TRUE
  /\ UNCHANGED <<at, script, step, opened, todo, object, bound, poll, ended, request, peer, connected, regions>>

-----------------------------------------------------------------------------
Take(p) ==
  \/ Discover(p) \/ OpenObject(p) \/ BindObject(p) \/ Prepare(p)
  \/ p \in Connector /\ SendRequest(p)
  \/ p \in Acceptor /\ AcceptRequest(p)
  \/ Up(p)

Await(p) ==
  \/ PollTop(p) \/ BeginRead(p) \/ ReadNothing(p) \/ ReadFails(p) \/ WaitConnected(p)
  \/ p \in Acceptor /\ \E c \in Connector : TakeRequest(p, c)

Finish(p) == CloseObject(p) \/ CloseReturn(p)

Next ==
  \/ \E p \in Party :
       Start(p) \/ Take(p) \/ Fail(p) \/ Await(p) \/ End(p) \/ Close(p) \/ Finish(p)
       \/ UseRegion(p) \/ ReleaseRegion(p)
  \/ Break

Spec == Init /\ [][Next]_vars

Runs(p) == Finish(p) \/ (at[p] = "building" /\ (Take(p) \/ Fail(p) \/ Await(p)))

(* A constructor or Close that has started runs on: its calls return, by   *)
(* success or by failure, and its reads of an event queue have a timeout.  *)
(* The deadline of waitForConnected passes.  Nobody need call anything.    *)
Fairness ==
  /\ \A p \in Party : WF_vars(Runs(p))
  /\ \A p \in Connector \cup Acceptor : WF_vars(Steps(p, "wait") /\ End(p))

FairSpec == Spec /\ Fairness

-----------------------------------------------------------------------------
(* A constructor that failed and a Close that returned leave no handle     *)
(* open, whichever of the error paths was taken, and the fi_info that the  *)
(* descriptors point into is freed with the constructor.  Memory regions   *)
(* are not among these handles: those of operations that were pending, and *)
(* those sent to a drained pool, do stay registered after Client.Close.    *)
NothingLeft ==
  \A p \in Party :
    /\ at[p] \in {"failed", "closed"} => \A k \in Kind : ~Live(p, k)
    /\ at[p] \in {"up", "closing"} => ~Live(p, "info")

\* Something that is still open uses the object, beyond its regions.
OpenedOn(p, k) ==
  \E q \in Party, c \in Kind \ {"info", "fabric"} : Live(q, c) /\ Parent(c) = k /\ Owner(q, k) = p

\* An open endpoint is bound to the object.
BoundTo(p, k) == k \in bound[p] /\ \E e \in {"ep", "pep"} : Live(p, e)

(* Everything is closed before what it uses, with four exceptions: Dial    *)
(* and Close of its client close the address vector before the endpoint    *)
(* bound to it; the error paths of Accept close the queues before the      *)
(* endpoint; Listener.Close closes the domain and the fabric under         *)
(* accepted clients; and Close of a client or of the listener closes the   *)
(* domain under memory regions, of operations that are still pending or    *)
(* sent to the pool after its drain.  No error path does the last.         *)
ClosesInOrder ==
  [][\A p \in Party, k \in Kind \ {"info"} : Live(p, k) /\ ~Live(p, k)' =>
       /\ BoundTo(p, k) => \/ p \in Dialer /\ k = "av"
                           \/ p \in Acceptor /\ at[p] = "unwinding"
       /\ OpenedOn(p, k) => /\ p = Server /\ at[p] = "closing"
                            /\ \A c \in Kind \ {"info", "fabric"} : Live(p, c) => Parent(c) # k
       /\ k = "domain" /\ RegionsOn(p) => at[p] = "closing"]_vars

(* Connect returns a client only when an Accept took its request and       *)
(* accepted it, whatever became of that call afterwards.                   *)
ConnectedHasPeer ==
  \A c \in Connector : at[c] = "up" =>
    \E a \in Acceptor : peer[a] = c /\ step[a] >= Len(AcceptScript)

(* Nobody reads an event queue that was closed, except an Accept that was  *)
(* inside its read when Listener.Close closed the queue of the listener:   *)
(* a wait for a connection is on a queue that only the waiting call itself *)
(* closes (Accept, waitForConnected, Listener.Close).                      *)
ReadsOpenQueue ==
  \A p \in Party : Reads(p) /\ ~Live(QueueOf(p), "eq") =>
    Steps(p, "request") /\ at[Server] \in {"closing", "closed"}

(* What the handles are while a party lives: those of the steps it has     *)
(* taken, all open, until it fails or closes; then every open one still    *)
(* has its turn.  No party closes an object of another, and an accepted    *)
(* client never closes the fabric and the domain of its listener.          *)
HandlesOf(p) ==
  /\ at[p] = "idle" => opened[p] = <<>> /\ \A k \in Kind : ~Live(p, k)
  /\ at[p] \in {"building", "up"} =>
       \A k \in Kind \ {"info"} : Live(p, k) <=> k \in Range(opened[p])
  /\ at[p] \in {"unwinding", "closing", "failed", "closed"} =>
       \A k \in Kind \ {"info"} : Live(p, k) => k \in Range(todo[p])
  /\ at[p] \in {"failed", "closed"} => todo[p] = <<>>
  /\ Live(p, "info") => at[p] \in {"building", "unwinding"}
  /\ p \in Acceptor =>
       {"fabric", "domain"} \cap (Range(opened[p]) \cup Range(todo[p])) = {}

HandleInv == \A p \in Party : HandlesOf(p)

(* How far each constructor is: it has opened what its steps so far open,  *)
(* a client is up only when its script is done, and an Accept runs only on *)
(* a listener that came up.                                                *)
ScriptOf(p) ==
  /\ at[p] = "idle" => script[p] = <<>> /\ step[p] = 1
  /\ at[p] # "idle" => script[p] \in Scripts(p)
  /\ \A i \in 1 .. step[p] - 1 :
       script[p][i].do = "open" => script[p][i].kind \in Range(opened[p])
  /\ Range(opened[p]) \subseteq Range(ClosingOrder(p))
  /\ at[p] \in {"up", "closing", "closed"} => step[p] = Len(script[p]) + 1

ScriptInv ==
  /\ \A p \in Party : ScriptOf(p)
  /\ (\E a \in Acceptor : at[a] # "idle") => at[Server] \in {"up", "closing", "closed"}

(* Who is connected to whom: an Accept past its request has a peer, a      *)
(* connector reported as connected has an Accept that accepted it, and     *)
(* only a connector that was reported gets past its wait.                  *)
ConnectionInv ==
  /\ \A a \in Acceptor : step[a] > 1 => peer[a] \in Connector
  /\ \A c \in Connector \cap connected :
       \E a \in Acceptor : peer[a] = c /\ step[a] >= Len(AcceptScript)
  /\ \A c \in Connector : step[c] > Len(ConnectScript) => c \in connected

\* What uses an object has a higher rank than the object.
Rank(k) ==
  CASE k = "fabric"         -> 1
    [] k = "domain"         -> 2
    [] k \in {"cq", "eq"}   -> 3
    [] k \in {"ep", "pep"}  -> 4
    [] OTHER                -> 5

(* The order of opening and closing: users are opened after what they use  *)
(* and closed before it, except that Accept opens its endpoint first, so   *)
(* that its error paths close it last.                                     *)
OrderOf(p) ==
  /\ \A k \in Range(opened[p]) : \E i \in 1 .. step[p] - 1 : script[p][i] = Open(k)
  /\ p \notin Acceptor =>
       \A i, j \in 1 .. Len(opened[p]) : i < j => Rank(opened[p][i]) <= Rank(opened[p][j])
  /\ at[p] = "closing" \/ (at[p] = "unwinding" /\ p \notin Acceptor) =>
       \A i, j \in 1 .. Len(todo[p]) : i < j => Rank(todo[p][i]) >= Rank(todo[p][j])
  /\ bound[p] \subseteq {"cq", "eq", "av"}
  /\ "av" \in bound[p] => p \in Dialer
  /\ \A k \in Kind \ {"info"} : object[p][k] # "absent" => k \in Range(opened[p])
  /\ \A k \in Kind : object[p][k] = "lost" =>
       k # "info" /\ at[p] \notin {"idle", "building", "up"}

OrderInv == \A p \in Party : OrderOf(p)

\* Only clients that were returned have regions.
RegionInv ==
  \A p \in Party : regions[p] # {} => p # Server /\ at[p] \in {"up", "closing", "closed"}

BringupInv == TypeOK /\ HandleInv /\ ScriptInv /\ ConnectionInv /\ OrderInv /\ RegionInv

(* Dial and Connect return.  Accept returns once its context has ended,    *)
(* the listener was closed, its queue is broken or a request waits that    *)
(* no other Accept takes, although it sees none of these until its read is *)
(* over.                                                                   *)
ConstructorsReturn ==
  /\ \A p \in Dialer \cup Connector : at[p] = "building" ~> at[p] # "building"
  /\ \A a \in Acceptor :
       /\ at[a] = "building"
       /\ \/ a \in ended \/ at[Server] = "closed" \/ broken
          \/ \E c \in Connector : request[c] = "sent"
       ~> at[a] # "building" \/ \E b \in Acceptor \ {a} : peer[b] # NoParty
=============================================================================
