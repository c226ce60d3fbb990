SPECIFICATION FairSpec
CONSTANTS
  Op = {o1, o2}
  Handler = {}
  Region = {}
  NoOp = NoOp
  NoRegion = NoRegion
  Lens = {0, 2}
  PoolSize = 0
  PoolCapacity = 0
  InjectLimit = 2
  RequiresMR = FALSE
  MayFault = TRUE
INVARIANTS
  ReceiveFilled
PROPERTIES
  ImplementsFuture
  CloseTerminates
  AttachedCompletes
CHECK_DEADLOCK FALSE
