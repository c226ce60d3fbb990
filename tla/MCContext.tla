----------------------------- MODULE MCContext -----------------------------
EXTENDS Context, TLC

\* Posts, resolvers, contexts and pointers are interchangeable.
Symmetry == Permutations(Post) \cup Permutations(Resolver)
              \cup Permutations(Ctx) \cup Permutations(Ptr)
=============================================================================
