SPECIFICATION FairSpec
CONSTANTS
  Waiter = {w1}
  Watcher = {k1, k2}
  Configured = 2
  MaxTime = 4
  Never = 5
  Nobody = Nobody
INVARIANTS
  NotEarly
  SameResult
  OperationInv
PROPERTIES
  ImplementsFuture
  CallReturns
  CallbacksRun
CHECK_DEADLOCK FALSE
