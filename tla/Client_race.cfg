SPECIFICATION FairSpec
CONSTANTS
  Op = {o1}
  Handler = {}
  Region = {}
  NoOp = NoOp
  NoRegion = NoRegion
  Lens = {2}
  PoolSize = 0
  PoolCapacity = 0
  InjectLimit = 1
  RequiresMR = FALSE
  MayFault = FALSE
PROPERTIES
  ReportedCompletes
CHECK_DEADLOCK FALSE
