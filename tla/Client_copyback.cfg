SPECIFICATION Spec
CONSTANTS
  Op = {o1}
  Handler = {}
  Region = {r1}
  NoOp = NoOp
  NoRegion = NoRegion
  Lens = {2}
  PoolSize = 2
  PoolCapacity = 1
  InjectLimit = 1
  RequiresMR = TRUE
  MayFault = FALSE
INVARIANTS
  ReceiveFilled
CHECK_DEADLOCK FALSE
