\* One post with a context of its own, one resolver.
SPECIFICATION Spec
CONSTANTS
  p1 = p1
  r1 = r1
  c1 = c1
  q1 = q1
  Post = {p1}
  Resolver = {r1}
  Ctx = {c1}
  Ptr = {q1}
  NoPost = NoPost
  NoCtx = NoCtx
  NoPtr = NoPtr
INVARIANTS
  PopulatedOnResolve
CHECK_DEADLOCK FALSE
