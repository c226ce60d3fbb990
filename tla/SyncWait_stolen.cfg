SPECIFICATION FairSpec
CONSTANTS
  Call = {c1, c2}
  Background = {}
  NoOp = NoOp
  MayFail = FALSE
PROPERTIES
  ResolvedReturns
CHECK_DEADLOCK FALSE
