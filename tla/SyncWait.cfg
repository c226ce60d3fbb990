SPECIFICATION FairSpec
CONSTANTS
  Call = {c1, c2}
  Background = {b1}
  NoOp = NoOp
  MayFail = TRUE
INVARIANTS
  OwnVerdict
  SyncInv
PROPERTIES
  ImplementsDelivery
  DeadlineReturns
CHECK_DEADLOCK FALSE
