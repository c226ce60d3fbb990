SPECIFICATION Spec
CONSTANTS
  Op = {o1, o2}
  Handler = {}
  Region = {}
  NoOp = NoOp
  NoRegion = NoRegion
  Lens = {2}
  PoolSize = 0
  PoolCapacity = 0
  InjectLimit = 1
  RequiresMR = FALSE
  MayFault = TRUE
INVARIANTS
  FailureIsQueueFault
CHECK_DEADLOCK FALSE
