SPECIFICATION FairSpec
CONSTANTS
  Thread = {t1, t2, t3}
  Region = {r1, r2, r3, f1}
  Foreign = {f1}
  Capacity = 1
  NoRegion = NoRegion
INVARIANTS
  PoolInv
PROPERTIES
  ImplementsLease
  DrainBounded
  CloseTerminates
CHECK_DEADLOCK FALSE
