\* Three posts that may share contexts, two resolvers, and two pointers that
\* malloc recycles.
SPECIFICATION Spec
CONSTANTS
  p1 = p1
  p2 = p2
  p3 = p3
  r1 = r1
  r2 = r2
  c1 = c1
  c2 = c2
  q1 = q1
  q2 = q2
  Post = {p1, p2, p3}
  Resolver = {r1, r2}
  Ctx = {c1, c2}
  Ptr = {q1, q2}
  NoPost = NoPost
  NoCtx = NoCtx
  NoPtr = NoPtr
INVARIANTS
  FreedOnce
  NoLeak
  CallbacksOnResolve
  OwnContext
  MemoryWhilePending
  ReceivedIsCopied
  ContextInv
PROPERTIES
  ImplementsDelivery
SYMMETRY Symmetry
CHECK_DEADLOCK FALSE
