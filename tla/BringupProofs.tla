--------------------------- MODULE BringupProofs ---------------------------
(* Proofs about Bringup and Peers, for every number of parties, callers    *)
(* and addresses: what handles and scripts look like at each point, that   *)
(* nothing is left open, that users are closed first, that no closed queue *)
(* is read, that a connection has two ends, and that the default           *)
(* destination of a client is an address it knows.                         *)
EXTENDS Peers, SequenceTheorems, TLAPS

(* What the script of a client that dials may contain.                     *)
DialTask ==
  {t \in Task :
     /\ t.do \notin {"request", "accept", "wait", "connect"}
     /\ t.do = "open" => t.kind \in {"fabric", "domain", "cq", "ep", "av"}
     /\ t.do = "bind" => t.kind \in {"cq", "av"}}

LEMMA DialScriptIsDial ==
  ASSUME NEW r \in BOOLEAN, NEW n \in BOOLEAN, NEW m \in BOOLEAN
  PROVE  DialScript(r, n, m) \in Seq(DialTask)
<1> DEFINE base == <<Do("discover"), Open("fabric"), Open("domain"), Open("cq"), Open("ep"),
                     Bind("cq"), Do("enable")>>
           vecs == IF r THEN <<Open("av"), Bind("av"), Do("address")>> ELSE <<>>
           peering == IF r /\ n THEN <<Do("peer")>> ELSE <<>>
           pool == IF m THEN <<Do("pool")>> ELSE <<>>
<1>1. base \in Seq(DialTask)
  BY DEF base, DialTask, Task, Kind, Do, Open, Bind
<1>2. vecs \in Seq(DialTask)
  <2>1. CASE r
    BY <2>1 DEF vecs, DialTask, Task, Kind, Do, Open, Bind
  <2>2. CASE ~(r)
    BY <2>2, EmptySeq DEF vecs
  <2> QED BY <2>1, <2>2
<1>3. peering \in Seq(DialTask)
  <2>1. CASE r /\ n
    BY <2>1 DEF peering, DialTask, Task, Kind, Do, Open, Bind
  <2>2. CASE ~(r /\ n)
    BY <2>2, EmptySeq DEF peering
  <2> QED BY <2>1, <2>2
<1>4. pool \in Seq(DialTask)
  <2>1. CASE m
    BY <2>1 DEF pool, DialTask, Task, Kind, Do, Open, Bind
  <2>2. CASE ~(m)
    BY <2>2, EmptySeq DEF pool
  <2> QED BY <2>1, <2>2
<1> HIDE DEF base, vecs, peering, pool
<1>5. base \o vecs \in Seq(DialTask)
  BY <1>1, <1>2, ConcatProperties
<1>6. (base \o vecs) \o peering \in Seq(DialTask)
  BY <1>3, <1>5, ConcatProperties
<1>7. ((base \o vecs) \o peering) \o pool \in Seq(DialTask)
  BY <1>4, <1>6, ConcatProperties
<1> QED
  BY <1>7 DEF DialScript, base, vecs, peering, pool

(* What every script has in common: it opens only what Close closes, and   *)
(* the steps that wait have opened the queue they wait on.                 *)
LEMMA ScriptShape ==
  ASSUME NEW p \in Party, NEW s \in Scripts(p)
  PROVE  /\ s \in Seq(Task)
         /\ \A i \in 1 .. Len(s) :
              /\ s[i].do = "open" => s[i].kind \in Range(ClosingOrder(p)) \ {"info"}
              /\ s[i].do \in {"peer", "pool"} => p \in Dialer
              /\ s[i].do = "request" => p \in Acceptor /\ i = 1
              /\ s[i].do = "accept" => p \in Acceptor /\ i = 8
              /\ s[i].do = "connect" => p \in Connector
              /\ s[i].do = "wait" =>
                   \/ p \in Connector /\ i = 11 /\ s[5] = Open("eq")
                   \/ p \in Acceptor /\ i = 9 /\ s[4] = Open("eq")
         /\ p \in Acceptor => s = AcceptScript /\ Len(s) = 9 /\ s[1].do = "request" /\ s[9].do = "wait"
         /\ p \in Connector => s = ConnectScript /\ Len(s) = 11 /\ s[11].do = "wait"
         /\ p = Server => s = ListenScript /\ Len(s) = 7 /\ s[4] = Open("eq")
<1>1. CASE p \in Dialer
  <2>1. PICK r \in BOOLEAN, n \in BOOLEAN, m \in BOOLEAN : s = DialScript(r, n, m)
    BY <1>1, BringupAssumption DEF Scripts
  <2>2. s \in Seq(DialTask)
    BY <2>1, DialScriptIsDial
  <2>3. \A i \in 1 .. Len(s) : s[i] \in DialTask
    BY <2>2, ElementOfSeq
  <2>4. s \in Seq(Task)
    BY <2>2, SeqMonotonic DEF DialTask
  <2>5. {"fabric", "domain", "cq", "ep", "av"} \subseteq Range(ClosingOrder(p))
    <3>1. ClosingOrder(p) = <<"av", "ep", "cq", "eq", "domain", "fabric">>
      BY <1>1, BringupAssumption DEF ClosingOrder
    <3> QED BY <3>1 DEF Range
  <2>6. p \notin Acceptor /\ p \notin Connector /\ p # Server
    BY <1>1, BringupAssumption
  <2> QED
    BY <1>1, <2>3, <2>4, <2>5, <2>6 DEF DialTask
<1>2. CASE p \in Connector
  <2>1. s = ConnectScript /\ p \notin Dialer /\ p \notin Acceptor /\ p # Server
    BY <1>2, BringupAssumption DEF Scripts
  <2>2. {"fabric", "domain", "cq", "ep", "eq"} \subseteq Range(ClosingOrder(p))
    <3>1. ClosingOrder(p) = <<"av", "ep", "cq", "eq", "domain", "fabric">>
      BY <2>1 DEF ClosingOrder
    <3> QED BY <3>1 DEF Range
  <2>3. s \in Seq(Task) /\ Len(s) = 11
    BY <2>1 DEF ConnectScript, Task, Kind, Do, Open, Bind
  <2> QED
    BY <1>2, <2>1, <2>2, <2>3 DEF ConnectScript, Do, Open, Bind
<1>3. CASE p \in Acceptor
  <2>1. s = AcceptScript /\ p \notin Dialer /\ p \notin Connector /\ p # Server
    BY <1>3, BringupAssumption DEF Scripts
  <2>2. {"cq", "ep", "eq"} \subseteq Range(ClosingOrder(p))
    <3>1. ClosingOrder(p) = <<"av", "ep", "cq", "eq">>
      BY <1>3, <2>1 DEF ClosingOrder
    <3> QED BY <3>1 DEF Range
  <2>3. s \in Seq(Task) /\ Len(s) = 9
    BY <2>1 DEF AcceptScript, Task, Kind, Do, Open, Bind
  <2> QED
    BY <1>3, <2>1, <2>2, <2>3 DEF AcceptScript, Do, Open, Bind
<1>4. CASE p = Server
  <2>1. s = ListenScript /\ p \notin Dialer /\ p \notin Connector /\ p \notin Acceptor
    BY <1>4, BringupAssumption DEF Scripts
  <2>2. {"pep", "eq", "domain", "fabric"} \subseteq Range(ClosingOrder(p))
    <3>1. ClosingOrder(p) = <<"pep", "eq", "domain", "fabric">>
      BY <1>4, <2>1 DEF ClosingOrder
    <3> QED BY <3>1 DEF Range
  <2>3. s \in Seq(Task) /\ Len(s) = 7
    BY <2>1 DEF ListenScript, Task, Kind, Do, Open, Bind
  <2> QED
    BY <1>4, <2>1, <2>2, <2>3 DEF ListenScript, Do, Open, Bind
<1> QED
  BY <1>1, <1>2, <1>3, <1>4 DEF Party

-----------------------------------------------------------------------------
(* Ranges of sequences.                                                    *)

LEMMA AppendRange ==
  ASSUME NEW S, NEW s \in Seq(S), NEW e \in S
  PROVE  Append(s, e) \in Seq(S) /\ Range(Append(s, e)) = Range(s) \cup {e}
<1>1. /\ Append(s, e) \in Seq(S)
      /\ DOMAIN Append(s, e) = 1 .. Len(s) + 1 /\ DOMAIN s = 1 .. Len(s) /\ Len(s) \in Nat
      /\ \A i \in 1 .. Len(s) : Append(s, e)[i] = s[i]
      /\ Append(s, e)[Len(s) + 1] = e
  OBVIOUS
<1> QED
  BY <1>1 DEF Range

LEMMA ReverseRange ==
  ASSUME NEW S, NEW s \in Seq(S)
  PROVE  Reverse(s) \in Seq(S) /\ Range(Reverse(s)) = Range(s)
<1>1. Len(s) \in Nat /\ DOMAIN s = 1 .. Len(s) /\ \A i \in 1 .. Len(s) : s[i] \in S
  BY LenProperties, ElementOfSeq
<1>2. Reverse(s) \in [1 .. Len(s) -> S]
  BY <1>1 DEF Reverse
<1>3. Reverse(s) \in Seq(S)
  BY <1>1, <1>2, SeqDef
<1>4. \A i \in 1 .. Len(s) :
         /\ Len(s) - i + 1 \in 1 .. Len(s)
         /\ Reverse(s)[i] = s[Len(s) - i + 1]
         /\ Reverse(s)[Len(s) - i + 1] = s[i]
  BY <1>1 DEF Reverse
<1> QED
  BY <1>1, <1>2, <1>3, <1>4 DEF Range

LEMMA TailRange ==
  ASSUME NEW S, NEW s \in Seq(S), s # <<>>
  PROVE  /\ Head(s) \in S /\ Tail(s) \in Seq(S)
         /\ Range(s) = Range(Tail(s)) \cup {Head(s)}
<1>1. /\ Head(s) \in S /\ Tail(s) \in Seq(S) /\ Len(Tail(s)) = Len(s) - 1
      /\ \A i \in 1 .. Len(Tail(s)) : Tail(s)[i] = s[i + 1]
  BY HeadTailProperties
<1>2. Len(s) \in Nat \ {0} /\ DOMAIN s = 1 .. Len(s) /\ DOMAIN Tail(s) = 1 .. Len(Tail(s))
  BY <1>1, EmptySeq, LenProperties
<1>3. Head(s) = s[1]
  OBVIOUS
<1>4. Range(s) \subseteq Range(Tail(s)) \cup {Head(s)}
  <2>1. ASSUME NEW i \in 1 .. Len(s), i # 1
        PROVE  i - 1 \in 1 .. Len(Tail(s)) /\ Tail(s)[i - 1] = s[i]
    BY <1>1, <1>2, <2>1
  <2> QED
    BY <1>2, <1>3, <2>1 DEF Range
<1>5. Range(Tail(s)) \subseteq Range(s)
  <2>1. \A i \in 1 .. Len(Tail(s)) : i + 1 \in 1 .. Len(s) /\ Tail(s)[i] = s[i + 1]
    BY <1>1, <1>2
  <2> QED
    BY <1>2, <2>1 DEF Range
<1>6. Head(s) \in Range(s)
  BY <1>2, <1>3 DEF Range
<1> QED
  BY <1>1, <1>4, <1>5, <1>6

LEMMA ClosingOrderShape ==
  ASSUME NEW p \in Party
  PROVE  /\ ClosingOrder(p) \in Seq(Kind)
         /\ p \in Acceptor => Range(ClosingOrder(p)) \cap {"fabric", "domain"} = {}
         /\ "info" \notin Range(ClosingOrder(p))
<1>1. CASE p = Server
  <2>1. ClosingOrder(p) = <<"pep", "eq", "domain", "fabric">> /\ p \notin Acceptor
    BY <1>1, BringupAssumption DEF ClosingOrder
  <2> QED BY <2>1 DEF Kind, Range
<1>2. CASE p \in Acceptor
  <2>1. ClosingOrder(p) = <<"av", "ep", "cq", "eq">>
    BY <1>2, BringupAssumption DEF ClosingOrder
  <2> QED BY <2>1 DEF Kind, Range
<1>3. CASE p # Server /\ p \notin Acceptor
  <2>1. ClosingOrder(p) = <<"av", "ep", "cq", "eq", "domain", "fabric">>
    BY <1>3 DEF ClosingOrder
  <2> QED BY <1>3, <2>1 DEF Kind, Range
<1> QED
  BY <1>1, <1>2, <1>3

-----------------------------------------------------------------------------
(* What a step of the system is: a move of one party, or one that leaves   *)
(* the parties and their objects alone.                                    *)
Quiet ==
  /\ poll' \in [Party -> {"top", "checked", "reading"}]
  /\ ended' \subseteq Party
  /\ broken' \in BOOLEAN
  /\ regions' \in [Party -> SUBSET {"spare", "held"}]
  /\ \A p \in Party : regions'[p] # {} =>
       regions[p] # {} \/ (p # Server /\ at[p] \in {"up", "closing", "closed"})
  /\ UNCHANGED <<at, script, step, opened, todo, object, bound, request, peer, connected>>

Fails(p) == at[p] = "building" /\ step[p] <= Len(script[p]) /\ Unwind(p)

Moves(p) ==
  \/ Start(p) \/ Discover(p) \/ OpenObject(p) \/ BindObject(p) \/ Prepare(p)
  \/ p \in Connector /\ SendRequest(p)
  \/ p \in Acceptor /\ AcceptRequest(p)
  \/ Up(p) \/ Fails(p) \/ Close(p) \/ CloseObject(p) \/ CloseReturn(p)
  \/ WaitConnected(p)
  \/ p \in Acceptor /\ \E c \in Connector : TakeRequest(p, c)

LEMMA StepMoves ==
  ASSUME TypeOK, [Next]_vars
  PROVE  Quiet \/ \E p \in Party : Moves(p)
<1>1. CASE UNCHANGED vars
  BY <1>1 DEF TypeOK, vars, restVars, Quiet
<1>2. CASE Break
  BY <1>2 DEF Break, TypeOK, Quiet
<1>3. ASSUME NEW p \in Party,
             \/ Start(p) \/ Take(p) \/ Fail(p) \/ Await(p) \/ End(p) \/ Close(p) \/ Finish(p)
             \/ UseRegion(p) \/ ReleaseRegion(p)
      PROVE  Quiet \/ Moves(p)
  <2>1. Waits(p) => at[p] = "building" /\ step[p] <= Len(script[p])
    BY DEF Waits, Steps
  <2>2. CASE Start(p) \/ Take(p) \/ Close(p) \/ Finish(p)
    BY <2>2 DEF Take, Finish, Moves
  <2>3. CASE Fail(p)
    BY <2>3 DEF Fail, Fails, Moves
  <2>4. CASE End(p)
    BY <2>4 DEF End, TypeOK, Quiet, restVars
  <2>5. CASE PollTop(p)
    BY <2>1, <2>5 DEF PollTop, Goto, Fails, Moves, TypeOK, Quiet, restVars
  <2>6. CASE BeginRead(p)
    BY <2>1, <2>6 DEF BeginRead, Goto, Fails, Moves, TypeOK, Quiet, restVars
  <2>7. CASE ReadNothing(p)
    BY <2>7 DEF ReadNothing, Goto, TypeOK, Quiet, restVars
  <2>8. CASE ReadFails(p)
    BY <2>1, <2>8 DEF ReadFails, Reads, Fails, Moves
  <2>9. CASE WaitConnected(p) \/ (p \in Acceptor /\ \E c \in Connector : TakeRequest(p, c))
    BY <2>9 DEF Moves
  <2>10. CASE UseRegion(p)
    <3>1. PICK left \in SUBSET (regions[p] \cap {"spare"}) :
            regions' = [regions EXCEPT ![p] = left \cup {"held"}]
      BY <2>10 DEF UseRegion
    <3>2. left \cup {"held"} \in SUBSET {"spare", "held"}
      OBVIOUS
    <3> QED
      BY <2>10, <3>1, <3>2 DEF UseRegion, TypeOK, Quiet
  <2>11. CASE ReleaseRegion(p)
    BY <2>11 DEF ReleaseRegion, TypeOK, Quiet
  <2> QED
    BY <1>3, <2>2, <2>3, <2>4, <2>5, <2>6, <2>7, <2>8, <2>9, <2>10, <2>11 DEF Await
<1> QED
  BY <1>1, <1>2, <1>3 DEF Next

-----------------------------------------------------------------------------
(* Types.                                                                  *)

LEMMA PartyFacts ==
  /\ Server \in Party /\ Connector \subseteq Party /\ Acceptor \subseteq Party
  /\ \A a \in Acceptor : a \notin Connector /\ a # Server /\ a \notin Dialer /\ a # NoParty
  /\ \A c \in Connector : c \notin Acceptor /\ c # Server /\ c \notin Dialer /\ c # NoParty
BY BringupAssumption DEF Party

LEMMA InitOK == Init => BringupInv
<1> SUFFICES ASSUME Init PROVE BringupInv
  OBVIOUS
<1>1. TypeOK
  <2>1. <<>> \in Seq(Kind) /\ <<>> \in Seq(Task) /\ Len(<<>>) = 0
    BY EmptySeq
  <2>2. /\ script \in [Party -> Seq(Task)] /\ step \in [Party -> Nat \ {0}]
        /\ opened \in [Party -> Seq(Kind)] /\ todo \in [Party -> Seq(Kind)]
        /\ \A p \in Party : step[p] <= Len(script[p]) + 1
    BY <2>1 DEF Init
  <2>3. bound \in [Party -> SUBSET Kind] /\ request \in [Connector -> {"none", "sent", "taken"}]
    BY DEF Init
  <2> QED
    BY <2>2, <2>3 DEF Init, TypeOK
<1>7. RegionInv
  BY DEF Init, RegionInv
<1>2. Range(<<>>) = {}
  BY DEF Range
<1>3. HandleInv
  <2> SUFFICES ASSUME NEW p \in Party PROVE HandlesOf(p)
    BY DEF HandleInv
  <2>1. at[p] = "idle" /\ opened[p] = <<>> /\ todo[p] = <<>> /\ \A k \in Kind : ~Live(p, k)
    BY DEF Init, Live
  <2>2. ~Live(p, "info")
    BY <2>1 DEF Kind
  <2> QED
    BY <1>2, <2>1, <2>2 DEF HandlesOf
<1>4. ScriptInv
  BY <1>2, PartyFacts DEF Init, ScriptInv, ScriptOf
<1>5. ConnectionInv
  BY PartyFacts DEF Init, ConnectionInv, ConnectScript
<1>6. OrderInv
  BY <1>2, EmptySeq DEF Init, OrderInv, OrderOf
<1> QED
  BY <1>1, <1>3, <1>4, <1>5, <1>6, <1>7 DEF BringupInv

(* The objects of a party move only with the party itself: no party closes *)
(* what belongs to another.                                                *)
LEMMA OwnObjects ==
  ASSUME BringupInv, NEW p \in Party, CloseObject(p)
  PROVE  Owner(p, Head(todo[p])) = p /\ Head(todo[p]) \in Kind /\ Head(todo[p]) \in Range(todo[p])
<1>1. todo[p] \in Seq(Kind) /\ todo[p] # <<>>
  BY DEF BringupInv, TypeOK, CloseObject
<1>2. Head(todo[p]) \in Range(todo[p]) /\ Head(todo[p]) \in Kind
  BY <1>1, TailRange
<1>3. p \in Acceptor => Head(todo[p]) \notin {"fabric", "domain"}
  BY <1>2 DEF BringupInv, HandleInv, HandlesOf
<1> QED
  BY <1>2, <1>3 DEF Owner

LEMMA ErrorPathShape ==
  ASSUME BringupInv, NEW p \in Party, at[p] = "building", step[p] <= Len(script[p])
  PROVE  /\ ErrorPath(p) \in Seq(Kind)
         /\ Range(opened[p]) \subseteq Range(ErrorPath(p))
         /\ p \in Acceptor => {"fabric", "domain"} \cap Range(ErrorPath(p)) = {}
<1>1. opened[p] \in Seq(Kind) /\ Reverse(opened[p]) \in Seq(Kind)
      /\ Range(Reverse(opened[p])) = Range(opened[p])
  BY ReverseRange DEF BringupInv, TypeOK
<1>2. Range(opened[p]) \subseteq Range(ClosingOrder(p))
  BY DEF BringupInv, ScriptInv, ScriptOf
<1>3. p \in Acceptor => {"fabric", "domain"} \cap Range(opened[p]) = {}
  BY DEF BringupInv, HandleInv, HandlesOf
<1> QED
  BY <1>1, <1>2, <1>3, ClosingOrderShape DEF ErrorPath

LEMMA TypeStep ==
  ASSUME BringupInv, NEW p \in Party, Moves(p)
  PROVE  TypeOK'
<1> USE DEF BringupInv
<1>0. /\ script[p] \in Seq(Task) /\ step[p] \in Nat \ {0} /\ Len(script[p]) \in Nat
      /\ \A q \in Party : Len(script[q]) \in Nat
      /\ step[p] <= Len(script[p]) => Now(p) \in Task
  BY LenProperties, ElementOfSeq DEF TypeOK, Now
<1>1. CASE Start(p)
  <2>1. PICK s \in Scripts(p) : script' = [script EXCEPT ![p] = s]
    BY <1>1 DEF Start
  <2>2. s \in Seq(Task) /\ Len(s) \in Nat
    BY ScriptShape, LenProperties
  <2>3. step[p] = 1
    BY <1>1 DEF Start, ScriptInv, ScriptOf
  <2> QED
    BY <1>1, <2>1, <2>2, <2>3 DEF Start, TypeOK, restVars
<1>2. CASE Discover(p)
  BY <1>0, <1>2 DEF Discover, Steps, Advance, TypeOK, Kind, restVars
<1>3. CASE OpenObject(p)
  <2>1. Now(p).kind \in Kind
    BY <1>0, <1>3 DEF OpenObject, Steps, Task
  <2>2. Append(opened[p], Now(p).kind) \in Seq(Kind)
    BY <2>1, AppendRange DEF TypeOK
  <2> QED
    BY <1>0, <1>3, <2>1, <2>2 DEF OpenObject, Steps, Advance, TypeOK, restVars
<1>4. CASE BindObject(p)
  <2>1. Now(p).kind \in Kind
    BY <1>0, <1>4 DEF BindObject, Steps, Task
  <2> QED
    BY <1>0, <1>4, <2>1 DEF BindObject, Steps, Advance, TypeOK, restVars
<1>5. CASE Prepare(p)
  BY <1>0, <1>5 DEF Prepare, Steps, Advance, TypeOK, restVars
<1>6. CASE p \in Connector /\ SendRequest(p)
  BY <1>0, <1>6 DEF SendRequest, Steps, Advance, TypeOK
<1>7. CASE p \in Acceptor /\ AcceptRequest(p)
  <2>1. step[p] <= Len(script[p]) /\ Now(p).do = "accept" /\ at[p] # "idle"
    BY <1>7 DEF AcceptRequest, Steps
  <2>2. step[p] = 8
    BY <1>0, <2>1, ScriptShape DEF ScriptInv, ScriptOf, Now
  <2>3. peer[p] \in Connector
    BY <1>7, <2>2 DEF ConnectionInv
  <2>4. connected' \subseteq Party
    BY <1>7, <2>3, PartyFacts DEF AcceptRequest, TypeOK
  <2>5. step' \in [Party -> Nat \ {0}] /\ \A q \in Party : step'[q] <= Len(script[q]) + 1
    BY <1>0, <1>7, <2>1 DEF AcceptRequest, Advance, TypeOK
  <2> QED
    BY <1>7, <2>4, <2>5 DEF AcceptRequest, TypeOK
<1>8. CASE Up(p)
  BY <1>8 DEF Up, Freed, TypeOK, Kind, restVars
<1>9. CASE Fails(p)
  BY <1>9, ErrorPathShape DEF Fails, Unwind, TypeOK, restVars
<1>10. CASE Close(p)
  <2>1. PICK left \in SUBSET {"spare", "held"} : regions' = [regions EXCEPT ![p] = left]
    BY <1>10 DEF Close
  <2> QED
    BY <1>10, <2>1, ClosingOrderShape DEF Close, TypeOK
<1>11. CASE CloseObject(p)
  <2>1. Tail(todo[p]) \in Seq(Kind)
    BY <1>11, TailRange DEF CloseObject, TypeOK
  <2>2. object' \in [Party -> [Kind -> {"absent", "open", "gone", "lost"}]]
    <3> DEFINE k == Head(todo[p])
    <3>1. Owner(p, k) = p /\ k \in Kind
      BY <1>11, OwnObjects
    <3>2. \/ object' = object
          \/ \E r \in {"gone", "lost"} : object' = [object EXCEPT ![p][k] = r]
      BY <1>11, <3>1 DEF CloseObject
    <3> HIDE DEF k
    <3>3. ASSUME NEW r \in {"gone", "lost"}
          PROVE  [object EXCEPT ![p][k] = r] \in [Party -> [Kind -> {"absent", "open", "gone", "lost"}]]
      BY <3>1 DEF TypeOK
    <3>4. CASE object' = object
      BY <3>4 DEF TypeOK
    <3>5. CASE \E r \in {"gone", "lost"} : object' = [object EXCEPT ![p][k] = r]
      BY <3>3, <3>5
    <3> QED
      BY <3>2, <3>4, <3>5
  <2> QED
    BY <1>11, <2>1, <2>2 DEF CloseObject, TypeOK, restVars
<1>12. CASE CloseReturn(p)
  BY <1>12 DEF CloseReturn, Freed, TypeOK, Kind, restVars
<1>13. CASE WaitConnected(p)
  BY <1>0, <1>13 DEF WaitConnected, Reads, Steps, Advance, Goto, TypeOK, restVars
<1>14. ASSUME NEW c \in Connector, p \in Acceptor, TakeRequest(p, c) PROVE TypeOK'
  BY <1>0, <1>14 DEF TakeRequest, Steps, Advance, Goto, TypeOK, Kind
<1> QED
  BY <1>1, <1>2, <1>3, <1>4, <1>5, <1>6, <1>7, <1>8, <1>9, <1>10, <1>11, <1>12, <1>13, <1>14
  DEF Moves

-----------------------------------------------------------------------------
(* Handles and scripts.                                                    *)

(* A move leaves everything of the other parties as it is.                 *)
LEMMA OthersStay ==
  ASSUME BringupInv, NEW p \in Party, Moves(p), NEW q \in Party, q # p
  PROVE  /\ at'[q] = at[q] /\ script'[q] = script[q] /\ step'[q] = step[q]
         /\ opened'[q] = opened[q] /\ todo'[q] = todo[q] /\ object'[q] = object[q]
<1> USE DEF BringupInv
<1>1. CASE CloseObject(p)
  <2>1. Owner(p, Head(todo[p])) = p
    BY <1>1, OwnObjects
  <2> QED
    BY <1>1, <2>1 DEF CloseObject, TypeOK
<1>2. CASE Start(p) \/ Discover(p) \/ OpenObject(p) \/ BindObject(p) \/ Prepare(p)
  BY <1>2 DEF Start, Discover, OpenObject, BindObject, Prepare, Advance, TypeOK
<1>3. CASE SendRequest(p) \/ AcceptRequest(p) \/ Up(p) \/ Fails(p) \/ Close(p)
  BY <1>3 DEF SendRequest, AcceptRequest, Up, Freed, Fails, Unwind, Close, Advance, TypeOK
<1>4. CASE CloseReturn(p) \/ WaitConnected(p) \/ \E c \in Connector : TakeRequest(p, c)
  BY <1>4 DEF CloseReturn, Freed, WaitConnected, TakeRequest, Advance, TypeOK
<1> QED
  BY <1>1, <1>2, <1>3, <1>4 DEF Moves

LEMMA QuietKeeps ==
  ASSUME BringupInv, Quiet
  PROVE  BringupInv'
<1> USE DEF BringupInv, Quiet
<1>1. TypeOK'
  BY DEF TypeOK
<1>2. HandleInv'
  BY DEF HandleInv, HandlesOf, Live
<1>3. ScriptInv'
  BY DEF ScriptInv, ScriptOf
<1>4. ConnectionInv'
  BY DEF ConnectionInv
<1>5. OrderInv'
  BY DEF OrderInv, OrderOf
<1>6. RegionInv'
  BY DEF RegionInv
<1> QED
  BY <1>1, <1>2, <1>3, <1>4, <1>5, <1>6

LEMMA HandleStep ==
  ASSUME BringupInv, NEW p \in Party, Moves(p)
  PROVE  HandleInv'
<1> USE DEF BringupInv
<1>0. HandlesOf(p)
  BY DEF HandleInv
<1>t. /\ object[p] \in [Kind -> {"absent", "open", "gone", "lost"}]
      /\ object \in [Party -> [Kind -> {"absent", "open", "gone", "lost"}]]
      /\ at \in [Party -> {"idle", "building", "unwinding", "failed", "up", "closing", "closed"}]
      /\ opened \in [Party -> Seq(Kind)] /\ todo \in [Party -> Seq(Kind)]
  BY DEF TypeOK
<1>o. ASSUME NEW q \in Party, q # p PROVE HandlesOf(q)'
  <2>1. HandlesOf(q)
    BY DEF HandleInv
  <2> QED
    BY <1>o, <2>1, OthersStay DEF HandlesOf, Live
<1>1. ASSUME Start(p) PROVE HandlesOf(p)'
  <2>1. at[p] = "idle" /\ at'[p] = "building" /\ opened[p] = <<>> /\ Range(opened[p]) = {}
        /\ \A k \in Kind : ~Live(p, k)
    BY <1>0, <1>1, <1>t DEF Start, HandlesOf, Range
  <2>2. opened' = opened /\ todo' = todo /\ object' = object
    BY <1>1 DEF Start
  <2>3. "info" \in Kind
    BY DEF Kind
  <2> QED
    BY <1>0, <2>1, <2>2, <2>3 DEF HandlesOf, Live
<1>2. ASSUME Discover(p) PROVE HandlesOf(p)'
  BY <1>0, <1>2, <1>t DEF Discover, Steps, HandlesOf, Live, Kind
<1>3. ASSUME OpenObject(p) PROVE HandlesOf(p)'
  <2> DEFINE k == Now(p).kind
  <2>1. k \in Range(ClosingOrder(p)) \ {"info"} /\ k \in Kind
    <3>1. script[p] \in Scripts(p) /\ step[p] \in 1 .. Len(script[p]) /\ Now(p) = script[p][step[p]]
          /\ Now(p).do = "open"
      BY <1>3, LenProperties DEF OpenObject, Steps, Now, ScriptInv, ScriptOf, TypeOK
    <3>2. Now(p) \in Task
      BY <3>1, ScriptShape, ElementOfSeq
    <3> QED
      BY <3>1, <3>2, ScriptShape DEF Task
  <2>2. opened'[p] = Append(opened[p], k) /\ Range(opened'[p]) = Range(opened[p]) \cup {k}
    BY <1>3, <1>t, <2>1, AppendRange DEF OpenObject
  <2>3. /\ at'[p] = "building" /\ at[p] = "building" /\ todo' = todo
        /\ \A j \in Kind : object'[p][j] = IF j = k THEN "open" ELSE object[p][j]
    BY <1>3, <1>t, <2>1 DEF OpenObject, Steps
  <2>4. p \in Acceptor => k \notin {"fabric", "domain"}
    BY <2>1, ClosingOrderShape
  <2> HIDE DEF k
  <2>5. "info" \in Kind
    BY DEF Kind
  <2> QED
    BY <1>0, <2>1, <2>2, <2>3, <2>4, <2>5 DEF HandlesOf, Live
<1>4. ASSUME BindObject(p) \/ Prepare(p) \/ SendRequest(p) \/ AcceptRequest(p) \/ WaitConnected(p) PROVE HandlesOf(p)'
  BY <1>0, <1>4 DEF BindObject, Prepare, SendRequest, AcceptRequest, WaitConnected, HandlesOf, Live
<1>5. ASSUME Up(p) PROVE HandlesOf(p)'
  BY <1>0, <1>5, <1>t DEF Up, Freed, HandlesOf, Live, Kind
<1>6. ASSUME Fails(p) PROVE HandlesOf(p)'
  <2>1. /\ ErrorPath(p) \in Seq(Kind) /\ Range(opened[p]) \subseteq Range(ErrorPath(p))
        /\ p \in Acceptor => {"fabric", "domain"} \cap Range(ErrorPath(p)) = {}
    BY <1>6, ErrorPathShape DEF Fails
  <2>2. at[p] = "building" /\ at'[p] = "unwinding" /\ todo'[p] = ErrorPath(p)
        /\ opened' = opened /\ object' = object
    BY <1>6, <1>t DEF Fails, Unwind
  <2> QED
    BY <1>0, <2>1, <2>2 DEF HandlesOf, Live
<1>7. ASSUME Close(p) PROVE HandlesOf(p)'
  <2>1. at[p] = "up" /\ at'[p] = "closing" /\ todo'[p] = ClosingOrder(p)
        /\ opened' = opened /\ object' = object
    BY <1>7, <1>t DEF Close
  <2>2. Range(opened[p]) \subseteq Range(ClosingOrder(p))
    BY DEF ScriptInv, ScriptOf
  <2> QED
    BY <1>0, <2>1, <2>2, ClosingOrderShape DEF HandlesOf, Live
<1>8. ASSUME CloseObject(p) PROVE HandlesOf(p)'
  <2> DEFINE k == Head(todo[p])
  <2>1. Owner(p, k) = p /\ k \in Kind
    BY <1>8, OwnObjects
  <2>2. Range(todo[p]) = Range(Tail(todo[p])) \cup {k}
    BY <1>8, <1>t, TailRange DEF CloseObject
  <2>3. at' = at /\ at[p] \in {"unwinding", "closing"} /\ opened' = opened /\ todo'[p] = Tail(todo[p])
    BY <1>8, <1>t DEF CloseObject
  <2>4. \A j \in Kind : Live(p, j)' => Live(p, j) /\ j # k
    <3>1. \/ object' = object /\ ~Live(p, k)
          \/ \E r \in {"gone", "lost"} : object' = [object EXCEPT ![p][k] = r]
      BY <1>8, <2>1 DEF CloseObject
    <3> QED
      BY <1>t, <2>1, <3>1 DEF Live
  <2> HIDE DEF k
  <2>5. "info" \in Kind
    BY DEF Kind
  <2> QED
    BY <1>0, <2>2, <2>3, <2>4, <2>5 DEF HandlesOf
<1>9. ASSUME CloseReturn(p) PROVE HandlesOf(p)'
  <2>1. /\ at[p] \in {"unwinding", "closing"} /\ todo[p] = <<>> /\ todo' = todo /\ opened' = opened
        /\ at'[p] \in {"closed", "failed"}
        /\ ~Live(p, "info")' /\ \A j \in Kind \ {"info"} : Live(p, j)' => Live(p, j)
    BY <1>9, <1>t DEF CloseReturn, Freed, Live, Kind
  <2> QED
    BY <1>0, <2>1 DEF HandlesOf
<1>10. ASSUME NEW c \in Connector, TakeRequest(p, c) PROVE HandlesOf(p)'
  BY <1>0, <1>10, <1>t DEF TakeRequest, Reads, Steps, HandlesOf, Live, Kind
<1> QED
  <2>1. HandlesOf(p)'
    BY <1>1, <1>2, <1>3, <1>4, <1>5, <1>6, <1>7, <1>8, <1>9, <1>10 DEF Moves
  <2> QED
    BY <1>o, <2>1 DEF HandleInv

LEMMA ScriptStep ==
  ASSUME BringupInv, NEW p \in Party, Moves(p)
  PROVE  ScriptInv'
<1> USE DEF BringupInv
<1>0. ScriptOf(p)
  BY DEF ScriptInv
<1>t. /\ at \in [Party -> {"idle", "building", "unwinding", "failed", "up", "closing", "closed"}]
      /\ script \in [Party -> Seq(Task)] /\ step \in [Party -> Nat \ {0}]
      /\ opened \in [Party -> Seq(Kind)]
  BY DEF TypeOK
<1>o. ASSUME NEW q \in Party, q # p PROVE ScriptOf(q)'
  <2>1. ScriptOf(q)
    BY DEF ScriptInv
  <2> QED
    BY <1>o, <2>1, OthersStay DEF ScriptOf
<1> DEFINE Steady == UNCHANGED <<at, script, opened>> /\ at[p] = "building"
           Further == step' = [step EXCEPT ![p] = @ + 1]
<1>1. ASSUME Start(p) PROVE ScriptOf(p)'
  <2>1. PICK s \in Scripts(p) : script' = [script EXCEPT ![p] = s]
    BY <1>1 DEF Start
  <2>2. /\ at[p] = "idle" /\ step'[p] = 1 /\ opened' = opened /\ at'[p] = "building"
        /\ script'[p] = s
    BY <1>0, <1>1, <1>t, <2>1 DEF Start, ScriptOf
  <2> QED
    BY <1>0, <2>2 DEF ScriptOf
<1>2. ASSUME OpenObject(p) PROVE ScriptOf(p)'
  <2> DEFINE k == Now(p).kind
  <2>1. /\ at[p] = "building" /\ at' = at /\ script' = script /\ step'[p] = step[p] + 1
        /\ step[p] \in 1 .. Len(script[p])
        /\ opened'[p] = Append(opened[p], k) /\ Now(p) = script[p][step[p]] /\ Now(p).do = "open"
        /\ script[p] \in Scripts(p)
    BY <1>0, <1>2, <1>t, LenProperties DEF OpenObject, Steps, Advance, Now, ScriptOf
  <2>2. k \in Kind /\ k \in Range(ClosingOrder(p))
    <3>1. Now(p) \in Task
      BY <1>t, <2>1, ElementOfSeq
    <3>2. k \in Range(ClosingOrder(p))
      BY <2>1, ScriptShape
    <3> QED
      BY <3>1, <3>2 DEF Task
  <2>3. Range(opened'[p]) = Range(opened[p]) \cup {k}
    BY <1>t, <2>1, <2>2, AppendRange
  <2>4. ASSUME NEW i \in 1 .. step'[p] - 1, script[p][i].do = "open"
        PROVE  script[p][i].kind \in Range(opened'[p])
    <3>1. CASE i = step[p]
      BY <2>1, <2>3, <3>1
    <3>2. CASE i # step[p]
      <4>1. i \in 1 .. step[p] - 1
        BY <1>t, <2>1, <3>2
      <4> QED
        BY <1>0, <2>3, <2>4, <4>1 DEF ScriptOf
    <3> QED
      BY <3>1, <3>2
  <2> QED
    BY <1>0, <2>1, <2>2, <2>3, <2>4 DEF ScriptOf
<1>3. ASSUME Discover(p) \/ BindObject(p) \/ Prepare(p) \/ SendRequest(p) \/ AcceptRequest(p)
             \/ WaitConnected(p) \/ \E c \in Connector : TakeRequest(p, c)
      PROVE  ScriptOf(p)'
  <2>1. /\ at[p] = "building" /\ at' = at /\ script' = script /\ opened' = opened
        /\ step'[p] = step[p] + 1 /\ step[p] <= Len(script[p]) /\ Now(p).do # "open"
    BY <1>3, <1>t DEF Discover, BindObject, Prepare, SendRequest, AcceptRequest, WaitConnected,
       TakeRequest, Reads, Steps, Advance
  <2>2. ASSUME NEW i \in 1 .. step'[p] - 1, script[p][i].do = "open"
        PROVE  script[p][i].kind \in Range(opened[p])
    BY <1>0, <1>t, <2>1, <2>2 DEF ScriptOf, Now
  <2> QED
    BY <1>0, <2>1, <2>2 DEF ScriptOf
<1>4. ASSUME Up(p) \/ Fails(p) \/ Close(p) \/ CloseObject(p) \/ CloseReturn(p)
      PROVE  ScriptOf(p)'
  <2>1. UNCHANGED <<script, step, opened>>
    BY <1>4 DEF Up, Fails, Unwind, Close, CloseObject, CloseReturn
  <2>2. /\ at[p] # "idle" /\ at'[p] # "idle"
        /\ at'[p] \in {"up", "closing", "closed"} =>
             at[p] \in {"up", "closing"} \/ step[p] = Len(script[p]) + 1
    BY <1>4, <1>t DEF Up, Fails, Unwind, Close, CloseObject, CloseReturn
  <2> QED
    BY <1>0, <2>1, <2>2 DEF ScriptOf
<1>5. (\E a \in Acceptor : at'[a] # "idle") => at'[Server] \in {"up", "closing", "closed"}
  <2>1. at[Server] \in {"up", "closing", "closed"} => at'[Server] \in {"up", "closing", "closed"}
    <3>1. CASE p = Server
      BY <1>t, <3>1 DEF Moves, Start, Discover, OpenObject, BindObject, Prepare, SendRequest,
         AcceptRequest, Up, Fails, Unwind, Close, CloseObject, CloseReturn, WaitConnected, TakeRequest
    <3> QED
      BY <3>1, OthersStay, PartyFacts
  <2>2. ASSUME NEW a \in Acceptor, at'[a] # "idle", at[a] = "idle"
        PROVE  at[Server] \in {"up", "closing", "closed"}
    <3>1. p = a
      BY <2>2, OthersStay, PartyFacts
    <3> QED
      BY <1>t, <2>2, <3>1 DEF Moves, Start, Discover, OpenObject, BindObject, Prepare, SendRequest,
         AcceptRequest, Up, Fails, Unwind, Close, CloseObject, CloseReturn, WaitConnected, TakeRequest,
         Reads, Steps
  <2> QED
    BY <2>1, <2>2 DEF ScriptInv
<1> QED
  <2>1. ScriptOf(p)'
    BY <1>1, <1>2, <1>3, <1>4 DEF Moves
  <2> QED
    BY <1>5, <1>o, <2>1 DEF ScriptInv

-----------------------------------------------------------------------------
(* Connections.                                                            *)

LEMMA ConnectionStep ==
  ASSUME BringupInv, NEW p \in Party, Moves(p)
  PROVE  ConnectionInv'
<1> USE DEF BringupInv
<1>t. /\ step \in [Party -> Nat \ {0}] /\ peer \in [Acceptor -> Connector \cup {NoParty}]
      /\ script \in [Party -> Seq(Task)] /\ connected \subseteq Party
  BY DEF TypeOK
<1>l. Len(AcceptScript) = 9 /\ Len(ConnectScript) = 11
  BY DEF AcceptScript, ConnectScript
<1>s. ASSUME NEW i \in Nat, i = step[p], at[p] = "building", i <= Len(script[p])
      PROVE  script[p] \in Scripts(p) /\ i \in 1 .. Len(script[p]) /\ Now(p) = script[p][i]
  BY <1>s, <1>t, LenProperties DEF ScriptInv, ScriptOf, Now
<1>1. ASSUME NEW c \in Connector, p \in Acceptor, TakeRequest(p, c)
      PROVE  ConnectionInv'
  <2>1. step[p] = 1
    BY <1>1, <1>s, <1>t, ScriptShape DEF TakeRequest, Reads, Steps
  <2>2. /\ peer' = [peer EXCEPT ![p] = c] /\ connected' = connected
        /\ step' = [step EXCEPT ![p] = @ + 1]
    BY <1>1 DEF TakeRequest, Advance
  <2> QED
    <3>1. \A a \in Acceptor : step'[a] > 1 => peer'[a] \in Connector
      BY <1>1, <1>t, <2>2 DEF ConnectionInv
    <3>2. ASSUME NEW d \in Connector \cap connected
          PROVE  \E a \in Acceptor : peer'[a] = d /\ step'[a] >= 9
      <4>1. PICK a \in Acceptor : peer[a] = d /\ step[a] >= 9
        BY <1>l DEF ConnectionInv
      <4>2. a # p
        BY <2>1, <4>1
      <4> QED
        BY <1>t, <2>2, <4>1, <4>2, PartyFacts
    <3>3. \A d \in Connector : step'[d] = step[d]
      BY <1>1, <1>t, <2>2, PartyFacts
    <3> QED
      BY <1>l, <2>2, <3>1, <3>2, <3>3 DEF ConnectionInv
<1>2. ASSUME p \in Acceptor, AcceptRequest(p) PROVE ConnectionInv'
  <2>1. step[p] = 8
    BY <1>2, <1>s, <1>t, ScriptShape DEF AcceptRequest, Steps
  <2>2. peer[p] \in Connector
    BY <1>2, <2>1 DEF ConnectionInv
  <2>3. /\ peer' = peer /\ connected' \subseteq connected \cup {p, peer[p]}
        /\ connected \subseteq connected' /\ step' = [step EXCEPT ![p] = @ + 1]
    BY <1>2 DEF AcceptRequest, Advance
  <2>4. ASSUME NEW c \in Connector \cap connected'
        PROVE  \E a \in Acceptor : peer'[a] = c /\ step'[a] >= 9
    <3>1. CASE c \in connected
      BY <1>2, <1>l, <1>t, <2>1, <2>3, <3>1, PartyFacts DEF ConnectionInv
    <3>2. CASE c = peer[p]
      BY <1>2, <1>t, <2>1, <2>3, <3>2, PartyFacts
    <3> QED
      BY <1>2, <2>3, <3>1, <3>2, PartyFacts
  <2> QED
    <3>1. \A a \in Acceptor : step'[a] > 1 => peer'[a] \in Connector
      BY <1>2, <1>t, <2>1, <2>2, <2>3, PartyFacts DEF ConnectionInv
    <3>2. \A c \in Connector : step'[c] = step[c]
      BY <1>2, <1>t, <2>3, PartyFacts
    <3> QED
      BY <1>l, <2>3, <2>4, <3>1, <3>2 DEF ConnectionInv
<1>3. ASSUME WaitConnected(p) PROVE ConnectionInv'
  <2>1. p \in connected /\ peer' = peer /\ connected' = connected
        /\ step' = [step EXCEPT ![p] = @ + 1]
    BY <1>3 DEF WaitConnected, Advance, restVars
  <2>2. step[p] = IF p \in Connector THEN 11 ELSE 9
    <3>1. at[p] = "building" /\ step[p] <= Len(script[p]) /\ Now(p).do = "wait"
      BY <1>3 DEF WaitConnected, Reads, Steps
    <3>2. script[p] \in Scripts(p) /\ step[p] \in 1 .. Len(script[p]) /\ script[p][step[p]].do = "wait"
      BY <1>s, <1>t, <3>1
    <3> QED
      BY <3>2, ScriptShape, PartyFacts
  <2> QED
    BY <1>l, <1>t, <2>1, <2>2, PartyFacts DEF ConnectionInv
<1>4. ASSUME Discover(p) \/ OpenObject(p) \/ BindObject(p) \/ Prepare(p) \/ SendRequest(p)
      PROVE  ConnectionInv'
  <2>1. /\ peer' = peer /\ connected' = connected /\ step' = [step EXCEPT ![p] = @ + 1]
        /\ at[p] = "building" /\ step[p] <= Len(script[p])
        /\ Now(p).do \notin {"request", "accept", "wait"}
    BY <1>4 DEF Discover, OpenObject, BindObject, Prepare, SendRequest, Steps, Advance, restVars
  <2>0. /\ script[p] \in Scripts(p) /\ step[p] \in 1 .. Len(script[p])
        /\ script[p][step[p]].do \notin {"request", "accept", "wait"}
    BY <1>s, <1>t, <2>1
  <2>2. p \in Acceptor => step[p] # 1
    BY <2>0, ScriptShape
  <2>3. p \in Connector => step[p] < 11
    <3>1. p \in Connector => Len(script[p]) = 11 /\ script[p][11].do = "wait"
      BY <2>0, ScriptShape
    <3>2. p \in Connector => step[p] # 11
      BY <2>0, <3>1
    <3>3. p \in Connector => step[p] \in 1 .. 11
      BY <2>0, <3>1
    <3> QED
      BY <3>2, <3>3
  <2> QED
    BY <1>l, <1>t, <2>1, <2>2, <2>3, PartyFacts DEF ConnectionInv
<1>5. ASSUME Start(p) \/ Up(p) \/ Fails(p) \/ Close(p) \/ CloseObject(p) \/ CloseReturn(p)
      PROVE  ConnectionInv'
  <2>1. UNCHANGED <<peer, connected, step>>
    BY <1>5 DEF Start, Up, Fails, Unwind, Close, CloseObject, CloseReturn, restVars
  <2> QED
    BY <2>1 DEF ConnectionInv
<1> QED
  BY <1>1, <1>2, <1>3, <1>4, <1>5 DEF Moves

-----------------------------------------------------------------------------
(* The order of opening and closing.                                       *)

Opens(t) == t.do = "open"

Rising(s) ==
  \A i, j \in 1 .. Len(s) : i < j /\ Opens(s[i]) /\ Opens(s[j]) => Rank(s[i].kind) <= Rank(s[j].kind)

LEMMA RankFacts ==
  /\ \A k : Rank(k) \in 1 .. 5
  /\ Rank("fabric") = 1 /\ Rank("domain") = 2 /\ Rank("cq") = 3 /\ Rank("eq") = 3
  /\ Rank("ep") = 4 /\ Rank("pep") = 4 /\ Rank("av") = 5
<1>1. ASSUME NEW k PROVE Rank(k) \in 1 .. 5
  <2>1. CASE k = "fabric" BY <2>1 DEF Rank
  <2>2. CASE k = "domain" BY <2>2 DEF Rank
  <2>3. CASE k \in {"cq", "eq"} BY <2>3 DEF Rank
  <2>4. CASE k \in {"ep", "pep"} BY <2>4 DEF Rank
  <2>5. CASE k \notin {"fabric", "domain", "cq", "eq", "ep", "pep"} BY <2>5 DEF Rank
  <2> QED BY <2>1, <2>2, <2>3, <2>4, <2>5
<1> QED
  BY <1>1 DEF Rank

LEMMA RisingConcat ==
  ASSUME NEW s \in Seq(Task), NEW t \in Seq(Task), Rising(s), Rising(t),
         \A i \in 1 .. Len(s), j \in 1 .. Len(t) :
           Opens(s[i]) /\ Opens(t[j]) => Rank(s[i].kind) <= Rank(t[j].kind)
  PROVE  Rising(s \o t)
<1>1. /\ Len(s) \in Nat /\ Len(t) \in Nat /\ Len(s \o t) = Len(s) + Len(t)
      /\ \A i \in 1 .. Len(s) + Len(t) : (s \o t)[i] = IF i <= Len(s) THEN s[i] ELSE t[i - Len(s)]
  BY ConcatProperties, LenProperties
<1> SUFFICES ASSUME NEW i \in 1 .. Len(s) + Len(t), NEW j \in 1 .. Len(s) + Len(t), i < j,
                    Opens((s \o t)[i]), Opens((s \o t)[j])
             PROVE  Rank((s \o t)[i].kind) <= Rank((s \o t)[j].kind)
  BY <1>1 DEF Rising
<1>2. CASE j <= Len(s)
  <2>1. i \in 1 .. Len(s) /\ j \in 1 .. Len(s) /\ (s \o t)[i] = s[i] /\ (s \o t)[j] = s[j]
    BY <1>1, <1>2
  <2> QED BY <2>1 DEF Rising
<1>3. CASE i <= Len(s) /\ j > Len(s)
  <2>1. /\ i \in 1 .. Len(s) /\ j - Len(s) \in 1 .. Len(t)
        /\ (s \o t)[i] = s[i] /\ (s \o t)[j] = t[j - Len(s)]
    BY <1>1, <1>3
  <2> QED BY <2>1
<1>4. CASE i > Len(s)
  <2>1. /\ i - Len(s) \in 1 .. Len(t) /\ j - Len(s) \in 1 .. Len(t) /\ i - Len(s) < j - Len(s)
        /\ (s \o t)[i] = t[i - Len(s)] /\ (s \o t)[j] = t[j - Len(s)]
    BY <1>1, <1>4
  <2> QED BY <2>1 DEF Rising
<1> QED
  BY <1>1, <1>2, <1>3, <1>4

LEMMA DialScriptRises ==
  ASSUME NEW r \in BOOLEAN, NEW n \in BOOLEAN, NEW m \in BOOLEAN
  PROVE  Rising(DialScript(r, n, m))
<1> DEFINE base == <<Do("discover"), Open("fabric"), Open("domain"), Open("cq"), Open("ep"),
                     Bind("cq"), Do("enable")>>
           vecs == IF r THEN <<Open("av"), Bind("av"), Do("address")>> ELSE <<>>
           peering == IF r /\ n THEN <<Do("peer")>> ELSE <<>>
           pool == IF m THEN <<Do("pool")>> ELSE <<>>
<1>1. base \in Seq(Task) /\ Rising(base) /\ Len(base) = 7
  BY RankFacts DEF base, Rising, Opens, Task, Kind, Do, Open, Bind
<1>2. /\ vecs \in Seq(Task) /\ Rising(vecs) /\ Len(vecs) \in Nat
      /\ \A j \in 1 .. Len(vecs) : Opens(vecs[j]) => vecs[j].kind = "av"
  <2>1. CASE r
    <3> DEFINE v == <<Open("av"), Bind("av"), Do("address")>>
    <3>1. v \in Seq(Task) /\ Len(v) = 3
      BY DEF Task, Kind, Do, Open, Bind
    <3>2. \A j \in 1 .. 3 : Opens(v[j]) => j = 1 /\ v[j].kind = "av"
      BY DEF Opens, Do, Open, Bind
    <3>3. vecs = v
      BY <2>1
    <3> HIDE DEF v, vecs
    <3>4. Rising(v)
      BY <3>1, <3>2 DEF Rising
    <3>5. Len(v) \in Nat /\ \A j \in 1 .. Len(v) : Opens(v[j]) => v[j].kind = "av"
      BY <3>1, <3>2
    <3> QED
      BY <3>1, <3>3, <3>4, <3>5, Zenon
  <2>2. CASE ~r
    BY <2>2, EmptySeq DEF vecs, Rising
  <2> QED BY <2>1, <2>2
<1>3. peering \in Seq(Task) /\ Rising(peering) /\ \A j \in 1 .. Len(peering) : ~Opens(peering[j])
  <2>1. CASE r /\ n
    BY <2>1 DEF peering, Rising, Opens, Task, Kind, Do
  <2>2. CASE ~(r /\ n)
    BY <2>2, EmptySeq DEF peering, Rising
  <2> QED BY <2>1, <2>2
<1>4. pool \in Seq(Task) /\ Rising(pool) /\ \A j \in 1 .. Len(pool) : ~Opens(pool[j])
  <2>1. CASE m
    BY <2>1 DEF pool, Rising, Opens, Task, Kind, Do
  <2>2. CASE ~m
    BY <2>2, EmptySeq DEF pool, Rising
  <2> QED BY <2>1, <2>2
<1> HIDE DEF base, vecs, peering, pool
<1>5. base \o vecs \in Seq(Task) /\ Rising(base \o vecs)
  <2>1. \A i \in 1 .. Len(base), j \in 1 .. Len(vecs) :
          Opens(base[i]) /\ Opens(vecs[j]) => Rank(base[i].kind) <= Rank(vecs[j].kind)
    BY <1>2, RankFacts
  <2> QED
    BY <1>1, <1>2, <2>1, RisingConcat, ConcatProperties
<1>6. (base \o vecs) \o peering \in Seq(Task) /\ Rising((base \o vecs) \o peering)
  BY <1>3, <1>5, RisingConcat, ConcatProperties
<1>7. Rising(((base \o vecs) \o peering) \o pool)
  BY <1>4, <1>6, RisingConcat
<1> QED
  BY <1>7 DEF DialScript, base, vecs, peering, pool

LEMMA ScriptOrder ==
  ASSUME NEW p \in Party, NEW s \in Scripts(p)
  PROVE  /\ p \notin Acceptor => Rising(s)
         /\ \A i \in 1 .. Len(s) : s[i].do = "bind" =>
              s[i].kind \in {"cq", "eq", "av"} /\ (s[i].kind = "av" => p \in Dialer)
<1>1. CASE p \in Dialer
  <2>1. PICK r \in BOOLEAN, n \in BOOLEAN, m \in BOOLEAN : s = DialScript(r, n, m)
    BY <1>1, BringupAssumption DEF Scripts
  <2>2. Rising(s) /\ \A i \in 1 .. Len(s) : s[i] \in DialTask
    BY <2>1, DialScriptIsDial, DialScriptRises, ElementOfSeq
  <2> QED
    BY <1>1, <2>2 DEF DialTask
<1>2. CASE p \in Connector
  <2>1. s = ConnectScript
    BY <1>2, BringupAssumption DEF Scripts
  <2> QED
    BY <2>1, RankFacts DEF ConnectScript, Rising, Opens, Do, Open, Bind
<1>3. CASE p \in Acceptor
  <2>1. s = AcceptScript
    BY <1>3, BringupAssumption DEF Scripts
  <2> QED
    BY <1>3, <2>1 DEF AcceptScript, Do, Open, Bind
<1>4. CASE p = Server
  <2>1. s = ListenScript
    BY <1>4, BringupAssumption DEF Scripts
  <2> QED
    BY <2>1, RankFacts DEF ListenScript, Rising, Opens, Do, Open, Bind
<1> QED
  BY <1>1, <1>2, <1>3, <1>4 DEF Party

(* Lists of objects by rank.                                              *)
Falling(s) == \A i, j \in 1 .. Len(s) : i < j => Rank(s[i]) >= Rank(s[j])

LEMMA FallingLists ==
  /\ \A p \in Party : Falling(ClosingOrder(p))
  /\ \A s \in Seq(Kind) :
       (\A i, j \in 1 .. Len(s) : i < j => Rank(s[i]) <= Rank(s[j])) => Falling(Reverse(s))
  /\ \A s \in Seq(Kind) : s # <<>> /\ Falling(s) => Falling(Tail(s))
<1>1. ASSUME NEW p \in Party PROVE Falling(ClosingOrder(p))
  <2>1. CASE p = Server
    <3>1. ClosingOrder(p) = <<"pep", "eq", "domain", "fabric">>
      BY <2>1, BringupAssumption DEF ClosingOrder
    <3> QED BY <3>1, RankFacts DEF Falling
  <2>2. CASE p \in Acceptor
    <3>1. ClosingOrder(p) = <<"av", "ep", "cq", "eq">>
      BY <2>2, BringupAssumption DEF ClosingOrder
    <3> QED BY <3>1, RankFacts DEF Falling
  <2>3. CASE p # Server /\ p \notin Acceptor
    <3>1. ClosingOrder(p) = <<"av", "ep", "cq", "eq", "domain", "fabric">>
      BY <2>3 DEF ClosingOrder
    <3> QED BY <3>1, RankFacts DEF Falling
  <2> QED
    BY <2>1, <2>2, <2>3
<1>2. ASSUME NEW s \in Seq(Kind), \A i, j \in 1 .. Len(s) : i < j => Rank(s[i]) <= Rank(s[j])
      PROVE  Falling(Reverse(s))
  <2>1. Len(s) \in Nat /\ Reverse(s) = [i \in 1 .. Len(s) |-> s[(Len(s) - i) + 1]]
    BY LenProperties DEF Reverse
  <2>2. Len(Reverse(s)) = Len(s)
    BY <2>1, ReverseRange, LenProperties
  <2>3. ASSUME NEW i \in 1 .. Len(s), NEW j \in 1 .. Len(s), i < j
        PROVE  Rank(Reverse(s)[i]) >= Rank(Reverse(s)[j])
    <3>1. /\ Len(s) - i + 1 \in 1 .. Len(s) /\ Len(s) - j + 1 \in 1 .. Len(s)
          /\ Len(s) - j + 1 < Len(s) - i + 1
      BY <2>1, <2>3
    <3>2. Reverse(s)[i] = s[Len(s) - i + 1] /\ Reverse(s)[j] = s[Len(s) - j + 1]
      BY <2>1
    <3>3. Rank(s[Len(s) - j + 1]) <= Rank(s[Len(s) - i + 1])
      BY <1>2, <3>1
    <3> QED
      BY <3>2, <3>3, RankFacts
  <2> QED
    BY <2>2, <2>3 DEF Falling
<1>3. ASSUME NEW s \in Seq(Kind), s # <<>>, Falling(s) PROVE Falling(Tail(s))
  <2>1. /\ Len(s) \in Nat /\ Len(Tail(s)) = Len(s) - 1
        /\ \A i \in 1 .. Len(Tail(s)) : i + 1 \in 1 .. Len(s) /\ Tail(s)[i] = s[i + 1]
    BY <1>3, HeadTailProperties, LenProperties
  <2> QED
    BY <1>3, <2>1 DEF Falling
<1> QED
  BY <1>1, <1>2, <1>3

(* The rank of the last object opened is the highest.                      *)
LEMMA OrderStep ==
  ASSUME BringupInv, NEW p \in Party, Moves(p)
  PROVE  OrderInv'
<1> USE DEF BringupInv
<1>0. OrderOf(p) /\ ScriptOf(p)
  BY DEF OrderInv, ScriptInv
<1>t. /\ at \in [Party -> {"idle", "building", "unwinding", "failed", "up", "closing", "closed"}]
      /\ script \in [Party -> Seq(Task)] /\ step \in [Party -> Nat \ {0}]
      /\ opened \in [Party -> Seq(Kind)] /\ todo \in [Party -> Seq(Kind)]
      /\ object \in [Party -> [Kind -> {"absent", "open", "gone", "lost"}]]
      /\ bound \in [Party -> SUBSET Kind]
  BY DEF TypeOK
<1>o. ASSUME NEW q \in Party, q # p PROVE OrderOf(q)'
  <2>1. OrderOf(q)
    BY DEF OrderInv
  <2>2. bound'[q] = bound[q]
    BY <1>o, <1>t DEF Moves, Start, Discover, OpenObject, BindObject, Prepare, SendRequest, AcceptRequest,
       Up, Fails, Unwind, Close, CloseObject, CloseReturn, WaitConnected, TakeRequest
  <2> QED
    BY <1>o, <2>1, <2>2, OthersStay DEF OrderOf
<1>1. ASSUME Start(p) PROVE OrderOf(p)'
  <2>1. /\ at[p] = "idle" /\ at'[p] = "building" /\ step[p] = 1 /\ opened[p] = <<>>
        /\ opened' = opened /\ object' = object /\ bound' = bound /\ step' = step /\ todo' = todo
    BY <1>0, <1>1, <1>t DEF Start, ScriptOf, HandleInv, HandlesOf
  <2>2. Range(opened[p]) = {} /\ Len(opened[p]) = 0
    BY <2>1 DEF Range
  <2> QED
    BY <1>0, <2>1, <2>2 DEF OrderOf
<1>2. ASSUME OpenObject(p) PROVE OrderOf(p)'
  <2> DEFINE k == Now(p).kind
             n == Len(opened[p])
  <2>1. /\ at[p] = "building" /\ at' = at /\ script' = script /\ step'[p] = step[p] + 1
        /\ step[p] \in 1 .. Len(script[p]) /\ script[p] \in Scripts(p)
        /\ opened'[p] = Append(opened[p], k)
        /\ script[p][step[p]] = Now(p) /\ Now(p).do = "open"
        /\ todo' = todo /\ bound' = bound
    BY <1>0, <1>2, <1>t, LenProperties DEF OpenObject, Steps, Advance, Now, ScriptOf
  <2>2. Now(p) \in Task
    BY <1>t, <2>1, ElementOfSeq
  <2>3. k \in Kind /\ Now(p) = Open(k) /\ k # "info"
    <3>1. k # "info"
      BY <2>1, ScriptShape
    <3> QED
      BY <2>1, <2>2, <3>1 DEF Task, Open
  <2>4. object' = [object EXCEPT ![p][k] = "open"]
    BY <1>2 DEF OpenObject
  <2> HIDE DEF k
  <2>5. /\ Range(opened'[p]) = Range(opened[p]) \cup {k}
        /\ n \in Nat /\ Len(opened'[p]) = n + 1
        /\ \A i \in 1 .. n : opened'[p][i] = opened[p][i] /\ opened[p][i] \in Range(opened[p])
        /\ opened'[p][n + 1] = k
    <3>1. opened[p] \in Seq(Kind) /\ n \in Nat /\ DOMAIN opened[p] = 1 .. n
      BY <1>t, LenProperties
    <3>2. Range(opened'[p]) = Range(opened[p]) \cup {k}
      BY <2>1, <2>3, <3>1, AppendRange
    <3>3. /\ Len(opened'[p]) = n + 1 /\ opened'[p][n + 1] = k
          /\ \A i \in 1 .. n : opened'[p][i] = opened[p][i]
      BY <2>1, <2>3, <3>1
    <3>4. \A i \in 1 .. n : opened[p][i] \in Range(opened[p])
      BY <3>1 DEF Range
    <3> QED
      BY <3>1, <3>2, <3>3, <3>4
  <2>6. \A e \in Range(opened'[p]) : \E i \in 1 .. step'[p] - 1 : script[p][i] = Open(e)
    <3>1. \A e \in Range(opened[p]) : \E i \in 1 .. step[p] - 1 : script[p][i] = Open(e)
      BY <1>0 DEF OrderOf
    <3>2. script[p][step[p]] = Open(k)
      BY <2>1, <2>3
    <3>3. 1 .. step[p] - 1 \subseteq 1 .. step'[p] - 1 /\ step[p] \in 1 .. step'[p] - 1
      BY <1>t, <2>1
    <3> QED
      BY <2>5, <3>1, <3>2, <3>3
  <2>7. ASSUME p \notin Acceptor, NEW e \in Range(opened[p])
        PROVE  Rank(e) <= Rank(k)
    <3>1. Rising(script[p])
      BY <2>1, <2>7, ScriptOrder
    <3>2. PICK i \in 1 .. step[p] - 1 : script[p][i] = Open(e)
      BY <1>0, <2>7 DEF OrderOf
    <3>3. i \in 1 .. Len(script[p]) /\ i < step[p]
      BY <1>t, <2>1, <3>2
    <3>4. Opens(Open(e)) /\ Opens(Open(k)) /\ Open(e).kind = e /\ Open(k).kind = k
      BY DEF Opens, Open
    <3> QED
      BY <2>1, <2>3, <3>1, <3>2, <3>3, <3>4 DEF Rising
  <2>8. ASSUME p \notin Acceptor, NEW i \in 1 .. n + 1, NEW j \in 1 .. n + 1, i < j
        PROVE  Rank(opened'[p][i]) <= Rank(opened'[p][j])
    <3>1. CASE j = n + 1
      <4>1. i \in 1 .. n
        BY <2>5, <2>8, <3>1
      <4> QED
        BY <2>5, <2>7, <2>8, <3>1, <4>1
    <3>2. CASE j # n + 1
      <4>1. i \in 1 .. n /\ j \in 1 .. n
        BY <2>5, <2>8, <3>2
      <4> QED
        BY <1>0, <2>5, <2>8, <4>1 DEF OrderOf
    <3> QED
      BY <3>1, <3>2
  <2> HIDE DEF n
  <2>9. \A e \in Kind : object'[p][e] = IF e = k THEN "open" ELSE object[p][e]
    BY <1>t, <2>3, <2>4
  <2> QED
    BY <1>0, <2>1, <2>3, <2>5, <2>6, <2>8, <2>9 DEF OrderOf
<1>3. ASSUME BindObject(p) PROVE OrderOf(p)'
  <2>1. /\ at[p] = "building" /\ at' = at /\ script' = script /\ step'[p] = step[p] + 1
        /\ step[p] \in 1 .. Len(script[p]) /\ script[p] \in Scripts(p)
        /\ script[p][step[p]] = Now(p) /\ Now(p).do = "bind"
        /\ bound'[p] = bound[p] \cup {Now(p).kind}
        /\ opened' = opened /\ todo' = todo /\ object' = object
    BY <1>0, <1>3, <1>t, LenProperties DEF BindObject, Steps, Advance, Now, ScriptOf
  <2>2. Now(p).kind \in {"cq", "eq", "av"} /\ (Now(p).kind = "av" => p \in Dialer)
    BY <2>1, ScriptOrder
  <2>3. 1 .. step[p] - 1 \subseteq 1 .. step'[p] - 1
    BY <1>t, <2>1
  <2> QED
    BY <1>0, <2>1, <2>2, <2>3 DEF OrderOf
<1>4. ASSUME Discover(p) \/ Prepare(p) \/ SendRequest(p) \/ AcceptRequest(p)
             \/ WaitConnected(p) \/ \E c \in Connector : TakeRequest(p, c)
      PROVE  OrderOf(p)'
  <2>1. /\ at[p] = "building" /\ at' = at /\ script' = script /\ step'[p] = step[p] + 1
        /\ bound' = bound /\ opened' = opened /\ todo' = todo
    BY <1>4, <1>t DEF Discover, Prepare, SendRequest, AcceptRequest, WaitConnected, TakeRequest,
       Reads, Steps, Advance
  <2>2. \A k \in Kind \ {"info"} : object'[p][k] = object[p][k]
    BY <1>4, <1>t DEF Discover, Prepare, SendRequest, AcceptRequest, WaitConnected, TakeRequest
  <2>3. "info" \in Kind /\ object'[p]["info"] # "lost"
    <3>1. "info" \in Kind
      BY DEF Kind
    <3>2. object[p]["info"] # "lost"
      BY <1>0, <3>1 DEF OrderOf
    <3> QED
      BY <1>4, <1>t, <3>1, <3>2 DEF Discover, Prepare, SendRequest, AcceptRequest, WaitConnected,
         TakeRequest
  <2>4. 1 .. step[p] - 1 \subseteq 1 .. step'[p] - 1
    BY <1>t, <2>1
  <2> QED
    BY <1>0, <2>1, <2>2, <2>3, <2>4 DEF OrderOf
<1>5. ASSUME Up(p) \/ CloseReturn(p) PROVE OrderOf(p)'
  <2>1. UNCHANGED <<script, step, opened, bound, todo>>
    BY <1>5 DEF Up, CloseReturn
  <2>2. \/ at[p] = "building" /\ at'[p] = "up"
        \/ at[p] \in {"unwinding", "closing"} /\ at'[p] \in {"failed", "closed"}
    BY <1>5, <1>t DEF Up, CloseReturn
  <2>3. /\ \A k \in Kind \ {"info"} : object'[p][k] = object[p][k]
        /\ object'[p]["info"] # "open" /\ (object'[p]["info"] = "lost" => object[p]["info"] = "lost")
    BY <1>5, <1>t DEF Up, CloseReturn, Freed, Kind
  <2>4. "info" \in Kind
    BY DEF Kind
  <2> QED
    BY <1>0, <2>1, <2>2, <2>3, <2>4 DEF OrderOf
<1>6. ASSUME Fails(p) PROVE OrderOf(p)'
  <2>1. /\ at[p] = "building" /\ at'[p] = "unwinding" /\ todo'[p] = ErrorPath(p)
        /\ UNCHANGED <<script, step, opened, object, bound>>
    BY <1>6, <1>t DEF Fails, Unwind
  <2>2. p \notin Acceptor => Falling(ErrorPath(p))
    BY <1>0, <1>t, FallingLists DEF ErrorPath, OrderOf
  <2> QED
    BY <1>0, <2>1, <2>2 DEF OrderOf, Falling
<1>7. ASSUME Close(p) PROVE OrderOf(p)'
  <2>1. /\ at[p] = "up" /\ at'[p] = "closing" /\ todo'[p] = ClosingOrder(p)
        /\ UNCHANGED <<script, step, opened, object, bound>>
    BY <1>7, <1>t DEF Close
  <2> QED
    BY <1>0, <2>1, FallingLists DEF OrderOf, Falling
<1>8. ASSUME CloseObject(p) PROVE OrderOf(p)'
  <2> DEFINE k == Head(todo[p])
  <2>1. /\ Owner(p, k) = p /\ k \in Kind
    BY <1>8, OwnObjects
  <2>2. /\ at' = at /\ at[p] \in {"unwinding", "closing"} /\ todo'[p] = Tail(todo[p]) /\ todo[p] # <<>>
        /\ UNCHANGED <<script, step, opened, bound>>
    BY <1>8, <1>t DEF CloseObject
  <2>3. Falling(todo[p]) => Falling(todo'[p])
    BY <1>t, <2>2, FallingLists
  <2>4. \/ object' = object
        \/ /\ Live(p, k)
           /\ \E r \in {"gone", "lost"} : object' = [object EXCEPT ![p][k] = r]
           /\ object' = [object EXCEPT ![p][k] = "gone"] \/ Busy(p, k)
    BY <1>8, <2>1 DEF CloseObject
  <2>5. Busy(p, k) => k # "info"
    BY <1>0 DEF Busy, OrderOf
  <2> HIDE DEF k
  <2>6. \A j \in Kind : object'[p][j] # object[p][j] =>
          /\ j = k /\ object[p][j] = "open" /\ object'[p][j] \in {"gone", "lost"}
          /\ object'[p][j] = "lost" => j # "info"
    BY <1>t, <2>1, <2>4, <2>5 DEF Live
  <2> QED
    BY <1>0, <2>2, <2>3, <2>6 DEF OrderOf, Falling
<1> QED
  <2>1. OrderOf(p)'
    BY <1>1, <1>2, <1>3, <1>4, <1>5, <1>6, <1>7, <1>8 DEF Moves
  <2> QED
    BY <1>o, <2>1 DEF OrderInv

LEMMA RegionStep ==
  ASSUME BringupInv, NEW p \in Party, Moves(p)
  PROVE  RegionInv'
<1> USE DEF BringupInv
<1>t. /\ at \in [Party -> {"idle", "building", "unwinding", "failed", "up", "closing", "closed"}]
      /\ regions \in [Party -> SUBSET {"spare", "held"}]
  BY DEF TypeOK
<1> SUFFICES ASSUME NEW q \in Party, regions'[q] # {}
             PROVE  q # Server /\ at'[q] \in {"up", "closing", "closed"}
  BY DEF RegionInv
<1>1. regions[q] # {}
  BY <1>t DEF Moves, Start, Discover, OpenObject, BindObject, Prepare, SendRequest, AcceptRequest,
     Up, Fails, Unwind, Close, CloseObject, CloseReturn, WaitConnected, TakeRequest, restVars
<1>2. q # Server /\ at[q] \in {"up", "closing", "closed"}
  BY <1>1 DEF RegionInv
<1>3. at'[q] \in {"up", "closing", "closed"}
  <2>1. CASE q # p
    BY <1>2, <2>1, OthersStay
  <2>2. CASE q = p
    BY <1>2, <1>t, <2>2 DEF Moves, Start, Discover, OpenObject, BindObject, Prepare, SendRequest,
       AcceptRequest, Up, Fails, Unwind, Close, CloseObject, CloseReturn, WaitConnected, TakeRequest,
       Reads, Steps
  <2> QED
    BY <2>1, <2>2
<1> QED
  BY <1>2, <1>3

-----------------------------------------------------------------------------
(* Every handle, script, connection and queue of every reachable state is  *)
(* as BringupInv says (Dial, Connect, Listen, Accept and the Closes).      *)
THEOREM BringupStaysWithin == Spec => []BringupInv
<1>1. Init => BringupInv
  BY InitOK
<1>2. BringupInv /\ [Next]_vars => BringupInv'
  <2> SUFFICES ASSUME BringupInv, [Next]_vars PROVE BringupInv'
    OBVIOUS
  <2>1. CASE Quiet
    BY <2>1, QuietKeeps
  <2>2. ASSUME NEW p \in Party, Moves(p) PROVE BringupInv'
    BY <2>2, TypeStep, HandleStep, ScriptStep, ConnectionStep, OrderStep, RegionStep DEF BringupInv
  <2> QED
    BY <2>1, <2>2, StepMoves DEF BringupInv
<1> QED
  BY <1>1, <1>2, PTL DEF Spec

(* A constructor that failed and a Close that returned leave no handle     *)
(* open, and a constructor that is over has freed its discovery (Dial,     *)
(* Connect, Listen, handleConnReq, Client.Close, Listener.Close).          *)
THEOREM NothingIsLeft == Spec => []NothingLeft
<1>1. BringupInv => NothingLeft
  BY DEF BringupInv, HandleInv, HandlesOf, NothingLeft, Range
<1> QED
  BY <1>1, BringupStaysWithin, PTL

(* A client that Connect returned was accepted by some Accept              *)
(* (waitForConnected, handleConnReq).                                      *)
THEOREM ConnectionsHaveTwoEnds == Spec => []ConnectedHasPeer
<1>1. BringupInv => ConnectedHasPeer
  <2> SUFFICES ASSUME BringupInv, NEW c \in Connector, at[c] = "up"
               PROVE  \E a \in Acceptor : peer[a] = c /\ step[a] >= Len(AcceptScript)
    BY DEF ConnectedHasPeer
  <2>1. script[c] = ConnectScript /\ step[c] = Len(script[c]) + 1 /\ Len(ConnectScript) = 11
    BY PartyFacts, ScriptShape DEF BringupInv, ScriptInv, ScriptOf
  <2>2. c \in connected
    BY <2>1 DEF BringupInv, ConnectionInv
  <2> QED
    BY <2>2 DEF BringupInv, ConnectionInv
<1> QED
  BY <1>1, BringupStaysWithin, PTL

(* Only an Accept overtaken by Listener.Close is ever inside a read of a   *)
(* queue that was closed (Accept, waitForConnected, Listener.Close).       *)
THEOREM QueuesAreOpen == Spec => []ReadsOpenQueue
<1>1. BringupInv => ReadsOpenQueue
  <2> SUFFICES ASSUME BringupInv, NEW p \in Party, Reads(p), ~Live(QueueOf(p), "eq")
               PROVE  Steps(p, "request") /\ at[Server] \in {"closing", "closed"}
    BY DEF ReadsOpenQueue
  <2> USE DEF BringupInv
  <2>1. /\ at[p] = "building" /\ step[p] \in 1 .. Len(script[p]) /\ Now(p) = script[p][step[p]]
        /\ Now(p).do \in {"request", "wait"} /\ script[p] \in Scripts(p)
    BY LenProperties DEF Reads, Waits, Steps, Now, TypeOK, ScriptInv, ScriptOf
  <2>e. "eq" \in Kind \ {"info"} /\ Open("eq").do = "open" /\ Open("eq").kind = "eq"
    BY DEF Kind, Open
  <2>2. CASE Now(p).do = "wait"
    <3>1. \E i \in 1 .. step[p] - 1 : script[p][i] = Open("eq")
      BY <2>1, <2>2, ScriptShape
    <3>2. Live(p, "eq")
      BY <2>1, <2>e, <3>1 DEF ScriptInv, ScriptOf, HandleInv, HandlesOf
    <3> QED
      BY <2>2, <3>2 DEF QueueOf, Steps
  <2>3. CASE Now(p).do = "request"
    <3>1. p \in Acceptor /\ Steps(p, "request") /\ QueueOf(p) = Server
      BY <2>1, <2>3, ScriptShape DEF QueueOf, Reads, Waits, Steps
    <3>2. at[Server] \in {"up", "closing", "closed"}
      BY <2>1, <3>1 DEF ScriptInv
    <3>3. ASSUME at[Server] = "up" PROVE Live(Server, "eq")
      <4>1. script[Server] \in Scripts(Server) /\ step[Server] = Len(script[Server]) + 1
        BY <3>3, PartyFacts DEF ScriptInv, ScriptOf
      <4>2. \E i \in 1 .. step[Server] - 1 : script[Server][i] = Open("eq")
        BY <4>1, PartyFacts, ScriptShape
      <4> QED
        BY <2>e, <3>3, <4>2, PartyFacts DEF ScriptInv, ScriptOf, HandleInv, HandlesOf
    <3> QED
      BY <3>1, <3>2, <3>3
  <2> QED
    BY <2>1, <2>2, <2>3
<1> QED
  BY <1>1, BringupStaysWithin, PTL

-----------------------------------------------------------------------------
(* Closing in order.                                                       *)

(* When an object has its turn, what uses it and is still open would have  *)
(* had its turn before.                                                    *)
LEMMA UsersAreClosed ==
  ASSUME BringupInv, NEW p \in Party, CloseObject(p), NEW c \in Kind \ {"info"}, Live(p, c),
         Rank(Head(todo[p])) < Rank(c), p \in Acceptor => at[p] = "closing"
  PROVE  FALSE
<1> USE DEF BringupInv
<1>1. at[p] \in {"unwinding", "closing"} /\ todo[p] # <<>> /\ todo[p] \in Seq(Kind)
  BY DEF CloseObject, TypeOK
<1>2. c \in Range(todo[p])
  BY <1>1 DEF HandleInv, HandlesOf
<1>3. PICK i \in 1 .. Len(todo[p]) : todo[p][i] = c
  BY <1>1, <1>2, LenProperties DEF Range
<1>4. Len(todo[p]) \in Nat /\ 1 \in 1 .. Len(todo[p]) /\ Head(todo[p]) = todo[p][1]
  BY <1>1, <1>3, LenProperties
<1>5. i # 1
  BY <1>3, <1>4, RankFacts
<1>6. Rank(todo[p][1]) >= Rank(todo[p][i])
  BY <1>1, <1>3, <1>4, <1>5 DEF OrderInv, OrderOf
<1> QED
  BY <1>3, <1>4, <1>6, RankFacts

(* Handles are closed by CloseObject only, by the party they belong to.    *)
LEMMA OnlyCloseCloses ==
  ASSUME BringupInv, NEW m \in Party, Moves(m), NEW p \in Party, NEW k \in Kind \ {"info"},
         Live(p, k), ~Live(p, k)'
  PROVE  p = m /\ CloseObject(p) /\ k = Head(todo[p])
<1> USE DEF BringupInv
<1>t. object \in [Party -> [Kind -> {"absent", "open", "gone", "lost"}]] /\ "info" \in Kind
  BY DEF TypeOK, Kind
<1>1. p = m
  BY OthersStay DEF Live
<1>2. CloseObject(p)
  BY <1>1, <1>t DEF Live, Moves, Start, Discover, OpenObject, BindObject, Prepare, SendRequest,
     AcceptRequest, Up, Freed, Fails, Unwind, Close, CloseReturn, WaitConnected, TakeRequest
<1>3. k = Head(todo[p])
  <2> DEFINE h == Head(todo[p])
  <2>1. Owner(p, h) = p /\ h \in Kind
    BY <1>2, OwnObjects
  <2>2. object' = object \/ \E r \in {"gone", "lost"} : object' = [object EXCEPT ![p][h] = r]
    BY <1>2, <2>1 DEF CloseObject
  <2> HIDE DEF h
  <2>3. k = h
    BY <1>t, <2>1, <2>2 DEF Live
  <2> QED
    BY <2>3 DEF h
<1> QED
  BY <1>1, <1>2, <1>3

(* Close and the error paths close users first, but for the address vector *)
(* of Dial, the queues of an Accept that failed, the domain of a listener  *)
(* that has accepted, and the regions registered on a domain (Dial,        *)
(* Client.Close, handleConnReq, Listener.Close).                           *)
THEOREM ClosesUsersFirst == Spec => ClosesInOrder
<1> DEFINE InOrder(p, k) ==
      Live(p, k) /\ ~Live(p, k)' =>
       /\ BoundTo(p, k) => \/ p \in Dialer /\ k = "av"
                           \/ p \in Acceptor /\ at[p] = "unwinding"
       /\ OpenedOn(p, k) => /\ p = Server /\ at[p] = "closing"
                            /\ \A c \in Kind \ {"info", "fabric"} : Live(p, c) => Parent(c) # k
       /\ k = "domain" /\ RegionsOn(p) => at[p] = "closing"
<1>1. BringupInv /\ [Next]_vars => [\A p \in Party, k \in Kind \ {"info"} : InOrder(p, k)]_vars
  <2> SUFFICES ASSUME BringupInv, [Next]_vars, NEW p \in Party, NEW k \in Kind \ {"info"},
                      Live(p, k), ~Live(p, k)'
               PROVE  InOrder(p, k)
    OBVIOUS
  <2> USE DEF BringupInv
  <2>1. CloseObject(p) /\ k = Head(todo[p])
    <3>1. ~Quiet
      BY DEF Quiet, Live
    <3> QED
      BY <3>1, StepMoves, OnlyCloseCloses
  <2>2. at[p] \in {"unwinding", "closing"} /\ k \in Range(todo[p])
    BY <2>1, OwnObjects DEF CloseObject
  <2>3. (\E a \in Acceptor : at[a] # "idle") => at[Server] \notin {"unwinding", "failed"}
    BY DEF ScriptInv
  <2>4. ASSUME BoundTo(p, k), ~(p \in Dialer /\ k = "av"), ~(p \in Acceptor /\ at[p] = "unwinding")
        PROVE  FALSE
    <3>1. PICK e \in {"ep", "pep"} : Live(p, e)
      BY <2>4 DEF BoundTo
    <3>2. k \in {"cq", "eq"}
      BY <2>4 DEF BoundTo, OrderInv, OrderOf
    <3>3. e \in Kind \ {"info"} /\ Rank(k) < Rank(e)
      BY <3>2, RankFacts DEF Kind
    <3> QED
      BY <2>1, <2>2, <2>4, <3>1, <3>3, UsersAreClosed
  <2>5. ASSUME NEW c \in Kind \ {"info", "fabric"}, Live(p, c), Parent(c) = k
        PROVE  FALSE
    <3>1. k \in {"fabric", "domain"} /\ Rank(k) < Rank(c)
      BY <2>5, RankFacts DEF Parent, Kind
    <3>2. p \notin Acceptor
      BY <2>2, <3>1 DEF HandleInv, HandlesOf
    <3> QED
      BY <2>1, <2>5, <3>1, <3>2, UsersAreClosed
  <2>6. ASSUME OpenedOn(p, k) PROVE p = Server /\ at[p] = "closing"
    <3>1. PICK q \in Party, c \in Kind \ {"info", "fabric"} :
            Live(q, c) /\ Parent(c) = k /\ Owner(q, k) = p
      BY <2>6 DEF OpenedOn
    <3>2. q # p
      BY <2>5, <3>1
    <3>3. q \in Acceptor /\ p = Server
      BY <3>1, <3>2 DEF Owner
    <3>4. at[q] # "idle"
      BY <3>1 DEF HandleInv, HandlesOf
    <3> QED
      BY <2>2, <2>3, <3>3, <3>4
  <2>7. ASSUME RegionsOn(p), k = "domain" PROVE at[p] = "closing"
    <3>1. PICK q \in Party : Owner(q, "domain") = p /\ regions[q] # {}
      BY <2>7 DEF RegionsOn
    <3>2. at[q] \in {"up", "closing", "closed"}
      BY <3>1 DEF RegionInv
    <3>3. CASE q = p
      BY <2>2, <3>2, <3>3
    <3>4. CASE q # p
      <4>1. q \in Acceptor /\ p = Server
        BY <3>1, <3>4 DEF Owner
      <4> QED
        BY <2>2, <2>3, <3>2, <4>1
    <3> QED
      BY <3>3, <3>4
  <2> QED
    BY <2>4, <2>5, <2>6, <2>7
<1> QED
  BY <1>1, BringupStaysWithin, PTL DEF Spec, ClosesInOrder

-----------------------------------------------------------------------------
(* Peers.                                                                  *)

(* A client that dials inserts its own address if and only if it opens a   *)
(* vector, and a peer only after it.                                       *)
LEMMA DialKnowsItself ==
  ASSUME NEW d \in Dialer, NEW s \in Scripts(d)
  PROVE  /\ (\E i \in 1 .. Len(s) : s[i] = Open("av")) <=> (\E i \in 1 .. Len(s) : s[i].do = "address")
         /\ \A i \in 1 .. Len(s) : s[i].do = "peer" => \E j \in 1 .. i - 1 : s[j].do = "address"
<1>1. PICK r \in BOOLEAN, n \in BOOLEAN, m \in BOOLEAN : s = DialScript(r, n, m)
  BY BringupAssumption DEF Scripts
<1> DEFINE base == <<Do("discover"), Open("fabric"), Open("domain"), Open("cq"), Open("ep"),
                     Bind("cq"), Do("enable")>>
           vec == <<Open("av"), Bind("av"), Do("address")>>
           peering == IF r /\ n THEN <<Do("peer")>> ELSE <<>>
           pool == IF m THEN <<Do("pool")>> ELSE <<>>
<1>2. base \in Seq(Task) /\ Len(base) = 7 /\ vec \in Seq(Task) /\ Len(vec) = 3
  BY DEF Task, Kind, Do, Open, Bind
<1>3. peering \in Seq(Task) /\ Len(peering) \in Nat
  <2>1. CASE r /\ n
    BY <2>1 DEF Task, Kind, Do
  <2>2. CASE ~(r /\ n)
    BY <2>2, EmptySeq
  <2> QED BY <2>1, <2>2
<1>4. pool \in Seq(Task) /\ Len(pool) \in Nat /\ \A i \in 1 .. Len(pool) : pool[i] = Do("pool")
  <2>1. CASE m
    BY <2>1 DEF Task, Kind, Do
  <2>2. CASE ~m
    BY <2>2, EmptySeq
  <2> QED BY <2>1, <2>2
<1>5. CASE r
  <2>1. s = ((base \o vec) \o peering) \o pool
    BY <1>1, <1>5 DEF DialScript
  <2>2. /\ vec[1] = Open("av") /\ vec[3].do = "address"
        /\ \A i \in 1 .. 7 : base[i].do # "peer"
        /\ \A i \in 1 .. 3 : vec[i].do # "peer"
    BY DEF Do, Open, Bind
  <2> HIDE DEF base, vec, peering, pool
  <2>3. /\ base \o vec \in Seq(Task) /\ Len(base \o vec) = 10
        /\ (base \o vec)[8] = vec[1] /\ (base \o vec)[10] = vec[3]
        /\ \A i \in 1 .. 10 : (base \o vec)[i].do # "peer"
    <3>1. /\ base \o vec \in Seq(Task) /\ Len(base \o vec) = Len(base) + Len(vec)
          /\ \A i \in 1 .. Len(base) + Len(vec) :
               (base \o vec)[i] = IF i <= Len(base) THEN base[i] ELSE vec[i - Len(base)]
      BY <1>2, ConcatProperties
    <3> DEFINE t == base \o vec
    <3>2. /\ t \in Seq(Task) /\ Len(t) = 10
          /\ \A i \in 1 .. 10 : t[i] = IF i <= 7 THEN base[i] ELSE vec[i - 7]
      BY <1>2, <3>1
    <3> HIDE DEF t
    <3>3. ASSUME NEW i \in 1 .. 10 PROVE t[i].do # "peer"
      <4>1. CASE i <= 7
        <5>1. i \in 1 .. 7 /\ t[i] = base[i]
          BY <3>2, <4>1
        <5> QED
          BY <2>2, <5>1
      <4>2. CASE i > 7
        <5>1. i - 7 \in 1 .. 3 /\ t[i] = vec[i - 7]
          BY <3>2, <4>2
        <5> QED
          BY <2>2, <5>1
      <4> QED
        BY <4>1, <4>2
    <3>4. t[8] = vec[1] /\ t[10] = vec[3]
      BY <3>2
    <3> QED
      BY <3>2, <3>3, <3>4 DEF t
  <2>4. /\ (base \o vec) \o peering \in Seq(Task) /\ Len((base \o vec) \o peering) = 10 + Len(peering)
        /\ ((base \o vec) \o peering)[8] = vec[1] /\ ((base \o vec) \o peering)[10] = vec[3]
        /\ \A i \in 1 .. 10 : ((base \o vec) \o peering)[i].do # "peer"
    <3> DEFINE t == base \o vec
    <3>1. t \in Seq(Task) /\ Len(t) = 10 /\ t[8] = vec[1] /\ t[10] = vec[3]
          /\ \A i \in 1 .. 10 : t[i].do # "peer"
      BY <2>3
    <3> HIDE DEF t
    <3>2. /\ t \o peering \in Seq(Task) /\ Len(t \o peering) = Len(t) + Len(peering)
          /\ \A i \in 1 .. Len(t) + Len(peering) :
               (t \o peering)[i] = IF i <= Len(t) THEN t[i] ELSE peering[i - Len(t)]
      BY <1>3, <3>1, ConcatProperties
    <3> DEFINE u == t \o peering
    <3>3. u \in Seq(Task) /\ Len(u) = 10 + Len(peering) /\ \A i \in 1 .. 10 : u[i] = t[i]
      BY <1>3, <3>1, <3>2
    <3> HIDE DEF u
    <3>4. u[8] = vec[1] /\ u[10] = vec[3] /\ \A i \in 1 .. 10 : u[i].do # "peer"
      BY <3>1, <3>3
    <3> QED
      BY <3>3, <3>4 DEF t, u
  <2>5. /\ Len(s) = 10 + Len(peering) + Len(pool) /\ s[8] = vec[1] /\ s[10] = vec[3]
        /\ \A i \in 1 .. 10 : s[i].do # "peer"
    <3> DEFINE t == (base \o vec) \o peering
    <3>1. t \in Seq(Task) /\ Len(t) = 10 + Len(peering) /\ t[8] = vec[1] /\ t[10] = vec[3] /\ s = t \o pool
          /\ \A i \in 1 .. 10 : t[i].do # "peer"
      BY <2>1, <2>4
    <3> HIDE DEF t
    <3>2. /\ Len(t \o pool) = Len(t) + Len(pool)
          /\ \A i \in 1 .. Len(t) + Len(pool) :
               (t \o pool)[i] = IF i <= Len(t) THEN t[i] ELSE pool[i - Len(t)]
      BY <1>4, <3>1, ConcatProperties
    <3>3. \A i \in 1 .. 10 : i \in 1 .. Len(t) + Len(pool) /\ i <= Len(t)
      BY <1>3, <1>4, <3>1
    <3> QED
      BY <3>1, <3>2, <3>3
  <2>6. 8 \in 1 .. Len(s) /\ 10 \in 1 .. Len(s)
    BY <1>3, <1>4, <2>5
  <2>7. ASSUME NEW i \in 1 .. Len(s), s[i].do = "peer"
        PROVE  10 \in 1 .. i - 1
    BY <1>3, <1>4, <2>5, <2>7
  <2> QED
    BY <2>2, <2>5, <2>6, <2>7
<1>6. CASE ~r
  <2>1. s = ((base \o <<>>) \o <<>>) \o pool
    BY <1>1, <1>6 DEF DialScript
  <2>2. \A i \in 1 .. 7 : base[i] # Open("av") /\ base[i].do # "address" /\ base[i].do # "peer"
    BY DEF Do, Open, Bind
  <2> HIDE DEF base, pool
  <2>3. s = base \o pool
    BY <1>2, <2>1, ConcatEmptySeq
  <2>0. /\ Len(base \o pool) = Len(base) + Len(pool)
        /\ \A i \in 1 .. Len(base) + Len(pool) :
             (base \o pool)[i] = IF i <= Len(base) THEN base[i] ELSE pool[i - Len(base)]
    BY <1>2, <1>4, ConcatProperties
  <2>4. \A i \in 1 .. Len(s) : s[i] = IF i <= 7 THEN base[i] ELSE pool[i - 7]
    BY <1>2, <2>0, <2>3
  <2>5. Len(s) = 7 + Len(pool)
    BY <1>2, <2>0, <2>3
  <2>6. ASSUME NEW i \in 1 .. Len(s)
        PROVE  s[i] # Open("av") /\ s[i].do # "address" /\ s[i].do # "peer"
    <3>1. CASE i <= 7
      BY <2>2, <2>4, <2>5, <2>6, <3>1
    <3>2. CASE i > 7
      <4>1. s[i] = Do("pool")
        BY <1>4, <2>4, <2>5, <2>6, <3>2
      <4> QED
        BY <4>1 DEF Do, Open
    <3> QED
      BY <1>4, <2>5, <2>6, <3>1, <3>2
  <2> QED
    BY <2>6
<1> QED
  BY <1>5, <1>6

LEMMA PeersFollowBringup == PeersSpec => Spec
<1>1. PeersInit => Init
  BY DEF PeersInit
<1>2. [PeersNext]_allVars => [Next]_vars
  <2> SUFFICES ASSUME [PeersNext]_allVars PROVE [Next]_vars
    OBVIOUS
  <2>1. CASE UNCHANGED allVars
    BY <2>1 DEF allVars
  <2>2. CASE Others
    BY <2>2 DEF Others
  <2>3. CASE Calls
    BY <2>3 DEF Calls, BeginRegister, Insert, InsertFails, EndRegister, SetDefaultPeer
  <2>4. ASSUME NEW d \in Dialer, DialInserts(d) PROVE Next
    BY <2>4 DEF DialInserts, Next, Take, Party
  <2> QED
    BY <2>1, <2>2, <2>3, <2>4 DEF PeersNext
<1> QED
  BY <1>1, <1>2, PTL DEF PeersSpec, Spec

LEMMA PeersStep ==
  ASSUME BringupInv, BringupInv', PeersInv, [PeersNext]_allVars
  PROVE  PeersInv'
<1> USE DEF BringupInv
<1> DEFINE Told(d) == \E i \in 1 .. step[d] - 1 : script[d][i].do = "address"
<1>t. /\ vector \in [Dialer -> SUBSET Entry] /\ dest \in [Dialer -> Entry \cup {Zero}]
      /\ unsure \in [Dialer -> BOOLEAN] /\ chosen \in [Dialer -> BOOLEAN] /\ Dialer \subseteq Party
      /\ call \in [Caller -> [at : {"idle", "checked", "inserted"}, client : Dialer \cup {NoParty},
                              default : BOOLEAN, addr : Entry]]
      /\ step \in [Party -> Nat \ {0}] /\ script \in [Party -> Seq(Task)]
  BY DEF PeersInv, PeersTypeOK, TypeOK, Party
<1>i. /\ \A d \in Dialer : IF Told(d) THEN chosen[d] \/ Knows(d, dest[d])
                           ELSE (chosen[d] \/ dest[d] = Zero) /\ vector[d] = {} /\ ~unsure[d]
      /\ \A t \in Caller : call[t].at # "idle" =>
           /\ call[t].client \in Dialer
           /\ at[call[t].client] \in {"up", "closing", "closed"}
           /\ "av" \in Range(opened[call[t].client])
           /\ call[t].at = "inserted" => Knows(call[t].client, call[t].addr)
  BY DEF PeersInv
<1>u. ASSUME NEW d \in Dialer, at[d] \in {"up", "closing", "closed"}, "av" \in Range(opened[d])
      PROVE  Told(d)
  <2>1. /\ script[d] \in Scripts(d) /\ step[d] = Len(script[d]) + 1
        /\ \E i \in 1 .. step[d] - 1 : script[d][i] = Open("av")
    <3>1. ScriptOf(d) /\ OrderOf(d)
      BY <1>t DEF ScriptInv, OrderInv
    <3> QED
      BY <1>u, <3>1 DEF ScriptOf, OrderOf
  <2>2. step[d] - 1 = Len(script[d])
    BY <1>t, <2>1, LenProperties
  <2> QED
    BY <2>1, <2>2, DialKnowsItself
<1> HIDE DEF Told
<1>1. ASSUME UNCHANGED peerVars,
             \A d \in Dialer : Told(d)' <=> Told(d),
             \A d \in Dialer : at[d] \in {"up", "closing", "closed"} =>
               at'[d] \in {"up", "closing", "closed"} /\ opened'[d] = opened[d]
      PROVE  PeersInv'
  <2>1. PeersTypeOK'
    BY <1>1, <1>t DEF peerVars, PeersTypeOK
  <2>2. \A d \in Dialer : IF Told(d)' THEN chosen'[d] \/ Knows(d, dest[d])'
                          ELSE (chosen'[d] \/ dest'[d] = Zero) /\ vector'[d] = {} /\ ~unsure'[d]
    BY <1>1, <1>i DEF peerVars, Knows
  <2>3. ASSUME NEW t \in Caller, call'[t].at # "idle"
        PROVE  /\ call'[t].client \in Dialer
               /\ at'[call'[t].client] \in {"up", "closing", "closed"}
               /\ "av" \in Range(opened'[call'[t].client])
               /\ call'[t].at = "inserted" => Knows(call[t].client, call[t].addr)'
    BY <1>1, <1>i, <2>3 DEF peerVars, Knows
  <2> QED
    BY <2>1, <2>2, <2>3 DEF PeersInv, Told
<1>2. ASSUME NEW p \in Party, Moves(p), NEW d \in Dialer
      PROVE  /\ at[d] \in {"up", "closing", "closed"} =>
                  at'[d] \in {"up", "closing", "closed"} /\ opened'[d] = opened[d]
             /\ (Told(d)' <=> Told(d)) \/ (p = d /\ Steps(d, "address") /\ step'[d] # step[d])
  <2>0. d \in Party /\ ScriptOf(d)
    BY <1>t DEF ScriptInv
  <2>1. CASE p # d
    BY <1>2, <2>0, <2>1, OthersStay DEF Told
  <2>2. CASE p = d /\ Start(d)
    <3>1. /\ at[d] = "idle" /\ script[d] = <<>> /\ step[d] = 1 /\ step' = step
      BY <2>0, <2>2 DEF Start, ScriptOf
    <3>2. 1 .. step[d] - 1 = {}
      BY <3>1
    <3> QED
      BY <3>1, <3>2 DEF Told
  <2>3. CASE p = d /\ (Up(d) \/ Fails(d) \/ Close(d) \/ CloseObject(d) \/ CloseReturn(d))
    BY <2>0, <2>3 DEF Up, Fails, Unwind, Close, CloseObject, CloseReturn, Told, TypeOK
  <2>4. CASE p = d /\ (Discover(d) \/ OpenObject(d) \/ BindObject(d) \/ Prepare(d) \/ SendRequest(d)
                       \/ AcceptRequest(d) \/ WaitConnected(d) \/ \E c \in Connector : TakeRequest(d, c))
    <3>1. /\ at[d] = "building" /\ script' = script /\ step'[d] = step[d] + 1
      BY <1>t, <2>0, <2>4 DEF Discover, OpenObject, BindObject, Prepare, SendRequest, AcceptRequest,
         WaitConnected, TakeRequest, Reads, Steps, Advance
    <3>2. Steps(d, Now(d).do)
      BY <2>4 DEF Discover, OpenObject, BindObject, Prepare, SendRequest, AcceptRequest,
         WaitConnected, TakeRequest, Reads, Steps
    <3>3. 1 .. step'[d] - 1 = (1 .. step[d] - 1) \cup {step[d]} /\ step'[d] # step[d]
      BY <1>t, <2>0, <3>1
    <3>4. CASE Now(d).do = "address"
      BY <2>4, <3>1, <3>2, <3>3, <3>4
    <3>5. CASE Now(d).do # "address"
      BY <3>1, <3>3, <3>5 DEF Told, Now
    <3> QED
      BY <3>1, <3>4, <3>5
  <2> QED
    BY <1>2, <2>1, <2>2, <2>3, <2>4 DEF Moves
<1>3. CASE UNCHANGED allVars
  BY <1>1, <1>3 DEF allVars, vars, Told
<1>4. CASE Others
  <2>1. \A d \in Dialer : Steps(d, "address") => step'[d] = step[d]
    BY <1>4 DEF Others
  <2>2. UNCHANGED peerVars /\ [Next]_vars
    BY <1>4 DEF Others
  <2>3. CASE Quiet
    BY <1>1, <2>2, <2>3 DEF Quiet, Told
  <2>4. ASSUME NEW p \in Party, Moves(p) PROVE PeersInv'
    BY <1>1, <1>2, <2>1, <2>2, <2>4
  <2> QED
    BY <2>2, <2>3, <2>4, StepMoves
<1>e. Peer \subseteq Entry /\ {Self, Service, NotAvail} \subseteq Entry
  BY DEF Entry
<1>5. ASSUME NEW d \in Dialer, DialInserts(d) PROVE PeersInv'
  <2>0. d \in Party /\ Moves(d) /\ ScriptOf(d)
    BY <1>5, <1>t DEF DialInserts, Moves, ScriptInv
  <2>1. /\ at[d] = "building" /\ at' = at /\ opened' = opened /\ call' = call /\ script' = script
        /\ step'[d] = step[d] + 1 /\ step[d] \in 1 .. Len(script[d]) /\ Now(d) = script[d][step[d]]
        /\ script[d] \in Scripts(d)
    BY <1>5, <1>t, <2>0, LenProperties DEF DialInserts, Prepare, Steps, Advance, Now, ScriptOf
  <2>2. /\ vector' \in [Dialer -> SUBSET Entry] /\ unsure' \in [Dialer -> BOOLEAN]
        /\ dest' \in [Dialer -> Entry \cup {Zero}]
        /\ \A e \in Dialer : e # d => vector'[e] = vector[e] /\ unsure'[e] = unsure[e] /\ dest'[e] = dest[e]
        /\ Knows(d, dest[d])'
    <3>1. PICK a \in {Self, Service}, r \in Entry :
            Inserted(d, a, r) /\ dest' = [dest EXCEPT ![d] = r]
      BY <1>5 DEF DialInserts
    <3>2. dest' \in [Dialer -> Entry \cup {Zero}] /\ dest'[d] = r
          /\ \A e \in Dialer : e # d => dest'[e] = dest[e]
      BY <1>t, <3>1
    <3>3. CASE r = a /\ vector' = [vector EXCEPT ![d] = @ \cup {a}] /\ UNCHANGED unsure
      BY <1>e, <1>t, <3>2, <3>3 DEF Knows
    <3>4. CASE r = NotAvail /\ unsure' = [unsure EXCEPT ![d] = TRUE] /\ UNCHANGED vector
      BY <1>e, <1>t, <3>2, <3>4 DEF Knows
    <3> QED
      BY <3>1, <3>3, <3>4 DEF Inserted
  <2>3. Told(d)'
    <3>1. step[d] \in 1 .. step'[d] - 1 /\ 1 .. step[d] - 1 \subseteq 1 .. step'[d] - 1
      BY <1>t, <2>0, <2>1
    <3>2. CASE Now(d).do = "address"
      BY <2>1, <3>1, <3>2 DEF Told
    <3>3. CASE Now(d).do = "peer"
      <4>1. \E j \in 1 .. step[d] - 1 : script[d][j].do = "address"
        BY <2>1, <3>3, DialKnowsItself
      <4> QED
        BY <2>1, <3>1, <4>1 DEF Told
    <3> QED
      BY <1>5, <3>2, <3>3 DEF DialInserts, Steps
  <2>4. \A e \in Dialer : e # d => (Told(e)' <=> Told(e))
    BY <1>2, <2>0
  <2>c. chosen' = chosen
    BY <1>5 DEF DialInserts
  <2>5. PeersTypeOK'
    BY <1>t, <2>1, <2>2, <2>c DEF PeersTypeOK
  <2>6. \A e \in Dialer : IF Told(e)' THEN chosen'[e] \/ Knows(e, dest[e])'
                          ELSE (chosen'[e] \/ dest'[e] = Zero) /\ vector'[e] = {} /\ ~unsure'[e]
    BY <1>i, <2>2, <2>3, <2>4, <2>c DEF Knows
  <2>7. ASSUME NEW t \in Caller, call'[t].at # "idle"
        PROVE  /\ call'[t].client \in Dialer
               /\ at'[call'[t].client] \in {"up", "closing", "closed"}
               /\ "av" \in Range(opened'[call'[t].client])
               /\ call'[t].at = "inserted" => Knows(call[t].client, call[t].addr)'
    <3>1. call[t].client \in Dialer /\ call[t].client # d
      BY <1>i, <2>1, <2>7
    <3> QED
      BY <1>i, <2>1, <2>2, <2>7, <3>1 DEF Knows
  <2> QED
    BY <2>5, <2>6, <2>7 DEF PeersInv, Told
<1>6. ASSUME NEW d \in Dialer, NEW x \in Entry \cup {Zero}, NEW b \in BOOLEAN,
             IF Told(d) THEN b \/ Knows(d, x) ELSE b \/ x = Zero,
             vector' = vector, unsure' = unsure,
             dest' = [dest EXCEPT ![d] = x], chosen' = [chosen EXCEPT ![d] = b],
             UNCHANGED vars, \A t \in Caller : call'[t] = call[t] \/ call'[t] = NoCall,
             call' \in [Caller -> [at : {"idle", "checked", "inserted"}, client : Dialer \cup {NoParty},
                                   default : BOOLEAN, addr : Entry]]
      PROVE  PeersInv'
  <2>1. \A e \in Dialer : Told(e)' <=> Told(e)
    BY <1>6 DEF Told, vars
  <2>2. PeersTypeOK'
    BY <1>6, <1>t DEF PeersTypeOK
  <2>3. \A e \in Dialer : IF Told(e)' THEN chosen'[e] \/ Knows(e, dest[e])'
                          ELSE (chosen'[e] \/ dest'[e] = Zero) /\ vector'[e] = {} /\ ~unsure'[e]
    BY <1>6, <1>i, <1>t, <2>1 DEF Knows
  <2>4. \A t \in Caller : call'[t].at # "idle" => call'[t] = call[t]
    BY <1>6 DEF NoCall
  <2>5. at' = at /\ opened' = opened
    BY <1>6 DEF vars
  <2> QED
    BY <1>6, <1>i, <2>2, <2>3, <2>4, <2>5 DEF PeersInv, Told, Knows
<1>n. NoCall \in [at : {"idle", "checked", "inserted"}, client : Dialer \cup {NoParty},
                  default : BOOLEAN, addr : Entry]
  BY <1>e DEF NoCall
<1>s. ASSUME NEW d \in Dialer, vector' = vector, unsure' = unsure, dest' = dest, chosen' = chosen,
             UNCHANGED vars, \A t \in Caller : call'[t] = call[t] \/ call'[t] = NoCall,
             call' \in [Caller -> [at : {"idle", "checked", "inserted"}, client : Dialer \cup {NoParty},
                                   default : BOOLEAN, addr : Entry]]
      PROVE  PeersInv'
  <2>1. dest' = [dest EXCEPT ![d] = dest[d]] /\ chosen' = [chosen EXCEPT ![d] = chosen[d]]
    BY <1>s, <1>t
  <2>2. dest[d] \in Entry \cup {Zero} /\ chosen[d] \in BOOLEAN
    BY <1>t
  <2>3. IF Told(d) THEN chosen[d] \/ Knows(d, dest[d]) ELSE chosen[d] \/ dest[d] = Zero
    BY <1>i
  <2> QED
    BY <1>6, <1>s, <2>1, <2>2, <2>3
<1>7. ASSUME NEW d \in Dialer, SetDefaultPeer(d) PROVE PeersInv'
  <2>1. PICK a \in Entry \cup {Zero} : dest' = [dest EXCEPT ![d] = a]
    BY <1>7 DEF SetDefaultPeer
  <2>2. /\ chosen' = [chosen EXCEPT ![d] = TRUE] /\ vector' = vector /\ unsure' = unsure
        /\ UNCHANGED vars /\ call' = call
    BY <1>7 DEF SetDefaultPeer
  <2> QED
    BY <1>6, <1>t, <2>1, <2>2
<1>8. ASSUME NEW t \in Caller, EndRegister(t) PROVE PeersInv'
  <2> DEFINE d == call[t].client
             x == call[t].addr
  <2>1. d \in Dialer /\ Told(d) /\ Knows(d, x) /\ x \in Entry
    BY <1>8, <1>i, <1>t, <1>u DEF EndRegister
  <2>2. /\ \A u \in Caller : call'[u] = call[u] \/ call'[u] = NoCall
        /\ call' \in [Caller -> [at : {"idle", "checked", "inserted"}, client : Dialer \cup {NoParty},
                                 default : BOOLEAN, addr : Entry]]
    BY <1>8, <1>n, <1>t DEF EndRegister
  <2>3. /\ UNCHANGED vars /\ vector' = vector /\ unsure' = unsure
        /\ \/ dest' = [dest EXCEPT ![d] = x] /\ chosen' = [chosen EXCEPT ![d] = FALSE]
           \/ dest' = dest /\ chosen' = chosen
    BY <1>8 DEF EndRegister
  <2> HIDE DEF d, x
  <2> QED
    BY <1>6, <1>s, <2>1, <2>2, <2>3
<1>9. ASSUME NEW t \in Caller, InsertFails(t) PROVE PeersInv'
  <2>1. call[t].client \in Dialer
    BY <1>9, <1>i DEF InsertFails
  <2>2. /\ \A u \in Caller : call'[u] = call[u] \/ call'[u] = NoCall
        /\ call' \in [Caller -> [at : {"idle", "checked", "inserted"}, client : Dialer \cup {NoParty},
                                 default : BOOLEAN, addr : Entry]]
    BY <1>9, <1>n, <1>t DEF InsertFails
  <2>3. UNCHANGED <<vars, vector, dest, unsure, chosen>>
    BY <1>9 DEF InsertFails
  <2> QED
    BY <1>s, <2>1, <2>2, <2>3
<1>10. ASSUME NEW t \in Caller, NEW d \in Dialer, BeginRegister(t, d) PROVE PeersInv'
  <2>1. PICK a \in Peer, def \in BOOLEAN :
               call' = [call EXCEPT ![t] = [at |-> "checked", client |-> d, default |-> def, addr |-> a]]
    BY <1>10 DEF BeginRegister
  <2>2. at[d] = "up" /\ "av" \in Range(opened[d])
    BY <1>10 DEF BeginRegister
  <2>3. UNCHANGED <<at, opened, step, script, vector, dest, unsure, chosen>>
    BY <1>10 DEF BeginRegister, vars
  <2> DEFINE c == [at |-> "checked", client |-> d, default |-> def, addr |-> a]
  <2>4. c \in [at : {"idle", "checked", "inserted"}, client : Dialer \cup {NoParty},
               default : BOOLEAN, addr : Entry]
    BY <1>e
  <2>5. call' = [call EXCEPT ![t] = c] /\ c.at = "checked" /\ c.client = d
    BY <2>1
  <2> HIDE DEF c
  <2>6. PeersTypeOK'
    BY <1>t, <2>3, <2>4, <2>5 DEF PeersTypeOK
  <2>7. \A u \in Caller : call'[u] = IF u = t THEN c ELSE call[u]
    BY <1>t, <2>5
  <2>8. \A e \in Dialer : IF Told(e)' THEN chosen'[e] \/ Knows(e, dest[e])'
                          ELSE (chosen'[e] \/ dest'[e] = Zero) /\ vector'[e] = {} /\ ~unsure'[e]
    BY <1>i, <2>3 DEF Told, Knows
  <2>9. \A u \in Caller : call'[u].at # "idle" =>
           /\ call'[u].client \in Dialer
           /\ at'[call'[u].client] \in {"up", "closing", "closed"}
           /\ "av" \in Range(opened'[call'[u].client])
           /\ call'[u].at = "inserted" => Knows(call[u].client, call[u].addr)'
    BY <1>i, <2>2, <2>3, <2>5, <2>7 DEF Knows
  <2> QED
    BY <2>6, <2>8, <2>9 DEF PeersInv, Told
<1>11. ASSUME NEW t \in Caller, Insert(t) PROVE PeersInv'
  <2> DEFINE d == call[t].client
             a == call[t].addr
  <2>1. d \in Dialer /\ Told(d) /\ a \in Entry /\ call[t].at = "checked"
        /\ at[d] \in {"up", "closing", "closed"} /\ "av" \in Range(opened[d])
    BY <1>11, <1>i, <1>t, <1>u DEF Insert
  <2>2. PICK r \in Entry :
          /\ call' = [call EXCEPT ![t].at = "inserted", ![t].addr = r]
          /\ UNCHANGED <<at, opened, step, script, dest, chosen>> /\ Inserted(d, a, r)
    BY <1>11 DEF Insert, vars
  <2> HIDE DEF d, a
  <2>4. /\ call' \in [Caller -> [at : {"idle", "checked", "inserted"}, client : Dialer \cup {NoParty},
                                 default : BOOLEAN, addr : Entry]]
        /\ \A u \in Caller : u # t => call'[u] = call[u]
        /\ call'[t].at = "inserted" /\ call'[t].client = d /\ call'[t].addr = r
    BY <1>e, <1>t, <2>1, <2>2 DEF d
  <2>5. /\ vector' \in [Dialer -> SUBSET Entry] /\ unsure' \in [Dialer -> BOOLEAN]
        /\ \A e \in Dialer : vector[e] \subseteq vector'[e] /\ (unsure[e] => unsure'[e])
        /\ \A e \in Dialer : e # d => vector'[e] = vector[e] /\ unsure'[e] = unsure[e]
        /\ r \in vector'[d] \/ (r = NotAvail /\ unsure'[d])
    <3>1. CASE r = a /\ vector' = [vector EXCEPT ![d] = @ \cup {a}] /\ UNCHANGED unsure
      <4>1. vector' \in [Dialer -> SUBSET Entry] /\ unsure' = unsure
        BY <1>t, <2>1, <3>1
      <4>2. /\ vector'[d] = vector[d] \cup {a}
            /\ \A e \in Dialer : e # d => vector'[e] = vector[e]
        BY <1>t, <2>1, <3>1
      <4>3. r \in vector'[d]
        BY <3>1, <4>2
      <4>4. \A e \in Dialer : vector[e] \subseteq vector'[e]
        <5> SUFFICES ASSUME NEW e \in Dialer PROVE vector[e] \subseteq vector'[e]
          OBVIOUS
        <5> QED
          BY <4>2
      <4> QED
        BY <1>t, <4>1, <4>2, <4>3, <4>4
    <3>2. CASE r = NotAvail /\ unsure' = [unsure EXCEPT ![d] = TRUE] /\ UNCHANGED vector
      <4>1. unsure' \in [Dialer -> BOOLEAN] /\ vector' = vector
        BY <1>t, <2>1, <3>2
      <4>2. unsure'[d] /\ \A e \in Dialer : e # d => unsure'[e] = unsure[e]
        BY <1>t, <2>1, <3>2
      <4>3. \A e \in Dialer : unsure[e] => unsure'[e]
        BY <4>2
      <4> QED
        BY <1>t, <3>2, <4>1, <4>2, <4>3
    <3> QED
      BY <2>2, <3>1, <3>2 DEF Inserted
  <2>6. PeersTypeOK'
    BY <1>t, <2>2, <2>4, <2>5 DEF PeersTypeOK
  <2>7. \A e \in Dialer : IF Told(e)' THEN chosen'[e] \/ Knows(e, dest[e])'
                          ELSE (chosen'[e] \/ dest'[e] = Zero) /\ vector'[e] = {} /\ ~unsure'[e]
    BY <1>i, <2>1, <2>2, <2>5 DEF Told, Knows
  <2>8. ASSUME NEW u \in Caller, call'[u].at # "idle"
        PROVE  /\ call'[u].client \in Dialer
               /\ at'[call'[u].client] \in {"up", "closing", "closed"}
               /\ "av" \in Range(opened'[call'[u].client])
               /\ call'[u].at = "inserted" => Knows(call[u].client, call[u].addr)'
    <3>1. CASE u = t
      <4>1. call'[u].client = d /\ call'[u].addr = r /\ at' = at /\ opened' = opened
        BY <2>2, <2>4, <3>1
      <4>2. Knows(call[u].client, call[u].addr)'
        BY <2>5, <4>1 DEF Knows
      <4> QED
        BY <2>1, <4>1, <4>2
    <3>2. CASE u # t
      BY <1>i, <2>2, <2>4, <2>5, <2>8, <3>2 DEF Knows
    <3> QED
      BY <3>1, <3>2
  <2> QED
    BY <2>6, <2>7, <2>8 DEF PeersInv, Told
<1> QED
  BY <1>3, <1>4, <1>5, <1>7, <1>8, <1>9, <1>10, <1>11 DEF PeersNext, Calls

(* Unless SetDefaultPeer has set another, the default destination of a     *)
(* client with an address vector is an address of that vector, or the none *)
(* that an insertion came back with (Dial, RegisterPeer, InsertRaw).       *)
THEOREM DefaultsAreKnown == PeersSpec => []DefaultInVector
<1>1. PeersSpec => []BringupInv
  BY PeersFollowBringup, BringupStaysWithin, PTL
<1>2. PeersInit => PeersInv
  <2> SUFFICES ASSUME PeersInit PROVE PeersInv
    OBVIOUS
  <2>1. PeersTypeOK
    BY DEF PeersInit, PeersTypeOK, NoCall, Entry
  <2>2. \A d \in Dialer : step[d] = 1
    BY DEF PeersInit, Init, Party
  <2> QED
    BY <2>1, <2>2 DEF PeersInit, PeersInv, NoCall
<1>3. BringupInv /\ BringupInv' /\ PeersInv /\ [PeersNext]_allVars => PeersInv'
  BY PeersStep
<1>4. PeersSpec => []PeersInv
  BY <1>1, <1>2, <1>3, PTL DEF PeersSpec
<1>5. BringupInv /\ PeersInv => DefaultInVector
  <2> SUFFICES ASSUME BringupInv, PeersInv, NEW d \in Dialer, at[d] \in {"up", "closing", "closed"},
                      ~chosen[d]
               PROVE  IF "av" \in Range(opened[d])
                      THEN dest[d] \in vector[d] \/ (dest[d] = NotAvail /\ unsure[d])
                      ELSE dest[d] = Zero
    BY DEF DefaultInVector
  <2> DEFINE told == \E i \in 1 .. step[d] - 1 : script[d][i].do = "address"
  <2>1. d \in Party /\ step[d] \in Nat \ {0} /\ script[d] \in Seq(Task)
    BY DEF BringupInv, TypeOK, Party
  <2>2. ScriptOf(d) /\ OrderOf(d)
    BY <2>1 DEF BringupInv, ScriptInv, OrderInv
  <2>3. script[d] \in Scripts(d) /\ step[d] = Len(script[d]) + 1 /\ step[d] - 1 = Len(script[d])
    <3>1. at[d] # "idle"
      OBVIOUS
    <3>2. script[d] \in Scripts(d) /\ step[d] = Len(script[d]) + 1
      BY <2>2, <3>1 DEF ScriptOf
    <3>3. Len(script[d]) \in Nat
      BY <2>1, LenProperties
    <3> QED
      BY <3>2, <3>3
  <2>4. "av" \in Range(opened[d]) <=> \E i \in 1 .. Len(script[d]) : script[d][i] = Open("av")
    <3>1. "av" \in Range(opened[d]) => \E i \in 1 .. Len(script[d]) : script[d][i] = Open("av")
      BY <2>2, <2>3 DEF OrderOf
    <3>2. Open("av").do = "open" /\ Open("av").kind = "av"
      BY DEF Open
    <3>3. ASSUME NEW i \in 1 .. Len(script[d]), script[d][i] = Open("av")
          PROVE  "av" \in Range(opened[d])
      BY <2>2, <2>3, <3>2, <3>3 DEF ScriptOf
    <3> QED
      BY <3>1, <3>3
  <2>5. "av" \in Range(opened[d]) <=> told
    BY <2>3, <2>4, DialKnowsItself
  <2> QED
    BY <2>5 DEF PeersInv, Knows
<1> QED
  BY <1>1, <1>4, <1>5, PTL
=============================================================================
