SPECIFICATION Spec
CONSTANTS
  Op = {o1, o2}
  Handler = {h1}
  Region = {r1, r2}
  NoOp = NoOp
  NoRegion = NoRegion
  Lens = {2, 3}
  PoolSize = 2
  PoolCapacity = 1
  InjectLimit = 2
  RequiresMR = TRUE
  MayFault = FALSE
SYMMETRY MCSymmetry
INVARIANTS
  MemoryWhilePending
  StatsOrdered
  DoneIsFinal
  ClientInv
PROPERTIES
  ImplementsDelivery
  QuietAfterJoin
  ImplementsLease
CHECK_DEADLOCK FALSE
