SPECIFICATION MCFairSpec
CONSTANTS
  Dialer = {d1}
  Connector = {c1}
  Acceptor = {a1}
  Server = Server
  NoParty = NoParty
  Caller = {t1, t2}
  Peer = {n1}
  Self = Self
  Service = Service
  Zero = Zero
  NotAvail = NotAvail
INVARIANTS
  BringupInv
  ReadsOpenQueue
  NothingLeft
  ConnectedHasPeer
  DefaultInVector
PROPERTIES
  ClosesInOrder
  ConstructorsReturn
CHECK_DEADLOCK FALSE
