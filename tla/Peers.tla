------------------------------- MODULE Peers -------------------------------
(* Where the default sends of a dialed client go: the addresses in its     *)
(* address vector (fi/address_vector.go) and the default destination, from *)
(* Dial to RegisterPeer and SetDefaultPeer (client/client.go).             *)
(*                                                                         *)
(* The application calls RegisterPeer from several goroutines, and Close   *)
(* may overtake them.  InsertRaw reports an error of fi_av_insert but not  *)
(* a count of zero, as when the address is in the vector already: the      *)
(* result is then FI_ADDR_NOTAVAIL, and the call succeeds.                 *)
EXTENDS Bringup

CONSTANTS
  Caller,  \* goroutines that call RegisterPeer
  Peer,    \* addresses of peers
  Self,    \* the own address
  Service, \* what the node and the service of the configuration resolve to
  Zero,    \* the address 0, the default of a client without address vector
  NotAvail \* FI_ADDR_NOTAVAIL

ASSUME PeersAssumption ==
  /\ {Self, Service, Zero, NotAvail} \cap Peer = {}
  /\ {Self, Service} \cap {Zero, NotAvail} = {}

VARIABLES
  vector, \* the addresses in the vector of each dialed client
  dest,   \* its default destination
  unsure, \* an insertion came back without an address
  chosen, \* the application has set the default itself
  call    \* the RegisterPeer of each caller

peerVars == <<vector, dest, unsure, chosen, call>>
allVars == <<vars, peerVars>>

Entry == Peer \cup {Self, Service, NotAvail}
NoCall == [at |-> "idle", client |-> NoParty, default |-> FALSE, addr |-> NotAvail]

PeersTypeOK ==
  /\ vector \in [Dialer -> SUBSET Entry]
  /\ dest \in [Dialer -> Entry \cup {Zero}]
  /\ unsure \in [Dialer -> BOOLEAN]
  /\ chosen \in [Dialer -> BOOLEAN]
  /\ call \in [Caller -> [at : {"idle", "checked", "inserted"}, client : Dialer \cup {NoParty},
                          default : BOOLEAN, addr : Entry]]

PeersInit ==
  /\ Init
  /\ vector = [d \in Dialer |-> {}]
  /\ dest = [d \in Dialer |-> Zero]
  /\ unsure = [d \in Dialer |-> FALSE]
  /\ chosen = [d \in Dialer |-> FALSE]
  /\ call = [t \in Caller |-> NoCall]

\* The insertion of a returns r: the address, or none.
Inserted(d, a, r) ==
  \/ r = a /\ vector' = [vector EXCEPT ![d] = @ \cup {a}] /\ UNCHANGED unsure
  \/ r = NotAvail /\ unsure' = [unsure EXCEPT ![d] = TRUE] /\ UNCHANGED vector

\* Dial inserts the own address and then the service, and each becomes the
\* default.  InsertService fails when nothing was inserted.
DialInserts(d) ==
  /\ Steps(d, "address") \/ Steps(d, "peer")
  /\ Prepare(d)
  /\ \E r \in Entry :
       /\ IF Steps(d, "address") THEN Inserted(d, Self, r)
          ELSE r = Service /\ Inserted(d, Service, r)
       /\ dest' = [dest EXCEPT ![d] = r]
  /\ UNCHANGED <<chosen, call>>

\* RegisterPeer has found the client open and its vector there.
BeginRegister(t, d) ==
  /\ call[t].at = "idle"
  /\ at[d] = "up" /\ "av" \in Range(opened[d])
  /\ \E a \in Peer, def \in BOOLEAN :
       call' = [call EXCEPT ![t] = [at |-> "checked", client |-> d, default |-> def, addr |-> a]]
  /\ UNCHANGED <<vars, vector, dest, unsure, chosen>>

\* InsertRaw, unless Close has closed the vector in the meantime.
Insert(t) ==
  LET d == call[t].client
      a == call[t].addr
  IN
  /\ call[t].at = "checked" /\ Live(d, "av")
  /\ \E r \in Entry :
       /\ Inserted(d, a, r)
       /\ call' = [call EXCEPT ![t].at = "inserted", ![t].addr = r]
  /\ UNCHANGED <<vars, dest, chosen>>

\* Mutant: the address is stored before the error is looked at.
InsertFails_Stores(t) ==
  /\ call[t].at = "checked"
  /\ call' = [call EXCEPT ![t] = NoCall]
  /\ dest' = [dest EXCEPT ![call[t].client] = Zero]
  /\ UNCHANGED <<vars, vector, unsure, chosen>>

\* The insertion fails, or the vector was closed: RegisterPeer returns.
InsertFails(t) ==
  /\ call[t].at = "checked"
  /\ call' = [call EXCEPT ![t] = NoCall]
  /\ UNCHANGED <<vars, vector, dest, unsure, chosen>>

\* The default is stored if asked for, and RegisterPeer returns.
EndRegister(t) ==
  LET d == call[t].client IN
  /\ call[t].at = "inserted"
  /\ IF call[t].default
     THEN /\ dest' = [dest EXCEPT ![d] = call[t].addr]
          /\ chosen' = [chosen EXCEPT ![d] = FALSE]
     ELSE UNCHANGED <<dest, chosen>>
  /\ call' = [call EXCEPT ![t] = NoCall]
  /\ UNCHANGED <<vars, vector, unsure>>

\* SetDefaultPeer, with any address; Close does not stop it.
SetDefaultPeer(d) ==
  /\ at[d] \in {"up", "closing", "closed"}
  /\ \E a \in Entry \cup {Zero} : dest' = [dest EXCEPT ![d] = a]
  /\ chosen' = [chosen EXCEPT ![d] = TRUE]
  /\ UNCHANGED <<vars, vector, unsure, call>>

\* What Bringup does beside these calls.
Others ==
  /\ Next
  /\ \A d \in Dialer : (Steps(d, "address") \/ Steps(d, "peer")) => step'[d] = step[d]
  /\ UNCHANGED peerVars

Calls ==
  \/ \E t \in Caller, d \in Dialer : BeginRegister(t, d)
  \/ \E t \in Caller : Insert(t) \/ InsertFails(t) \/ EndRegister(t)
  \/ \E d \in Dialer : SetDefaultPeer(d)

PeersNext == Others \/ Calls \/ \E d \in Dialer : DialInserts(d)

PeersSpec == PeersInit /\ [][PeersNext]_allVars

-----------------------------------------------------------------------------
(* Unless the application has chosen another with SetDefaultPeer, the      *)
(* default destination of a client with an address vector is always an     *)
(* address of that vector: no overlap of RegisterPeer calls, no failure    *)
(* and no Close puts another one there.  The one exception is an insertion *)
(* that came back without an address and without an error (RegisterPeer,   *)
(* Dial, AddressVector.InsertRaw).                                         *)
DefaultInVector ==
  \A d \in Dialer : at[d] \in {"up", "closing", "closed"} /\ ~chosen[d] =>
    IF "av" \in Range(opened[d])
    THEN dest[d] \in vector[d] \/ (dest[d] = NotAvail /\ unsure[d])
    ELSE dest[d] = Zero

\* The client has got to know a.
Knows(d, a) == a \in vector[d] \/ (a = NotAvail /\ unsure[d])

(* What keeps it so: before Dial has inserted the own address there is     *)
(* nothing, afterwards the default is known or chosen, and what a          *)
(* RegisterPeer is about to store is known to the client, which has a      *)
(* vector.                                                                 *)
PeersInv ==
  /\ PeersTypeOK
  /\ \A d \in Dialer :
       IF \E i \in 1 .. step[d] - 1 : script[d][i].do = "address"
       THEN chosen[d] \/ Knows(d, dest[d])
       ELSE (chosen[d] \/ dest[d] = Zero) /\ vector[d] = {} /\ ~unsure[d]
  /\ \A t \in Caller : call[t].at # "idle" =>
       /\ call[t].client \in Dialer
       /\ at[call[t].client] \in {"up", "closing", "closed"}
       /\ "av" \in Range(opened[call[t].client])
       /\ call[t].at = "inserted" => Knows(call[t].client, call[t].addr)
=============================================================================
