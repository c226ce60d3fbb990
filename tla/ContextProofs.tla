--------------------------- MODULE ContextProofs ---------------------------
(* Proofs about Context for any number of posts, resolvers, contexts and   *)
(* pointers.                                                               *)
EXTENDS Context, TLAPS

\* The program starts with no context.
LEMMA InitContext == ASSUME Init PROVE ContextInv
BY ContextAssumption
   DEF Init, ContextInv, TypeOK, AgentInv, StoreInv, HoldInv, ReleaseInv,
       RegistryLive, Holds, Releasing, Agent, Bytes

\* Types survive every step.
LEMMA TypeNext == ASSUME TypeOK, AgentInv, [Next]_vars PROVE TypeOK'
<1> USE ContextAssumption DEF TypeOK, Agent, Goto, Bytes
<1>1. ASSUME NEW p \in Post, PostStep(p) PROVE TypeOK'
  <2>1. CASE \E c \in Ctx, q \in Ptr, s \in BOOLEAN : Alloc(p, c, q, s)
    BY <2>1 DEF Alloc
  <2>2. CASE AllocFails(p) BY <2>2 DEF AllocFails, caller
  <2>3. CASE Store(p) BY <2>3 DEF Store, caller, AgentInv
  <2>4. CASE \E c \in Ctx : Reuse(p, c) BY <2>4 DEF Reuse
  <2>5. ASSUME NEW k \in BOOLEAN, NEW b \in BOOLEAN, StageBuffer(p, k, b)
        PROVE  TypeOK'
    <3>1. content' \in [Post -> Bytes]
      <4>1. CASE k BY <2>5, <4>1 DEF StageBuffer
      <4>2. CASE ~k BY <2>5, <4>2 DEF StageBuffer
      <4> QED BY <4>1, <4>2
    <3>2. copyBack' \in [Ctx -> Post \cup {NoPost}]
      BY <2>5 DEF StageBuffer
    <3>3. used' \in [Post -> Post \cup {NoPost}] /\ buffer' \in [Ctx -> Post \cup {NoPost}]
      <4>1. CASE buffer[with[p]] # NoPost /\ ~b
        <5>1. buffer[with[p]] \in Post BY <2>5, <4>1 DEF StageBuffer, AgentInv
        <5> QED BY <2>5, <4>1, <5>1 DEF StageBuffer
      <4>2. CASE ~(buffer[with[p]] # NoPost /\ ~b)
        BY <2>5, <4>2 DEF StageBuffer
      <4> QED BY <4>1, <4>2
    <3> QED BY <2>5, <3>1, <3>2, <3>3 DEF StageBuffer
  <2>6. ASSUME NEW k \in BOOLEAN, StageRegion(p, k)
        PROVE  TypeOK'
    <3>1. copyBack' \in [Ctx -> Post \cup {NoPost}]
      BY <2>6 DEF StageRegion
    <3> QED BY <2>6, <3>1 DEF StageRegion
  <2>7. CASE Accept(p) BY <2>7 DEF Accept
  <2>8. CASE Inject(p) BY <2>8 DEF Inject, caller
  <2>9. CASE Refuse(p) BY <2>9 DEF Refuse, caller
  <2>10. CASE Delete(p) BY <2>10 DEF Delete, caller
  <2> QED BY <1>1, <2>1, <2>2, <2>3, <2>4, <2>5, <2>6, <2>7, <2>8, <2>9, <2>10 DEF PostStep
<1>2. ASSUME NEW p \in Post, NEW ok \in BOOLEAN, Deliver(p, ok) PROVE TypeOK'
  BY <1>2 DEF Deliver
<1>3. ASSUME NEW r \in Resolver, ResolverStep(r) PROVE TypeOK'
  <2>1. ASSUME NEW p \in Post, Read(r, p) PROVE TypeOK'
    BY <2>1 DEF Read
  <2>2. CASE Resolve(r)
    BY <2>2 DEF Resolve, caller, Pointer, AgentInv
  <2>3. CASE ResolveUnknown(r) BY <2>3 DEF ResolveUnknown, caller
  <2> QED BY <1>3, <2>1, <2>2, <2>3 DEF ResolverStep
<1>4. ASSUME NEW a \in Agent, ReleaseStep(a) PROVE TypeOK'
  <2>1. CASE Swap(a) BY <2>1 DEF Swap, caller
  <2>2. CASE SwapLost(a) BY <2>2 DEF SwapLost, Leave, caller
  <2>3. CASE Body(a)
    <3>1. with[a] \in Ctx BY <2>3 DEF Body, AgentInv
    <3>2. runs' \in [Ctx -> Nat]
      <4>1. CASE a \in Resolver BY <2>3, <3>1, <4>1 DEF Body
      <4>2. CASE a \notin Resolver BY <2>3, <4>2 DEF Body
      <4> QED BY <4>1, <4>2
    <3>3. filled' \in [Post -> Bytes \cup {"untouched"}]
      <4>1. CASE copyBack[with[a]] # NoPost /\ buffer[with[a]] # NoPost
        BY <2>3, <3>1, <4>1 DEF Body
      <4>2. CASE ~(copyBack[with[a]] # NoPost /\ buffer[with[a]] # NoPost)
        BY <2>3, <4>2 DEF Body
      <4> QED BY <4>1, <4>2
    <3> QED BY <2>3, <3>2, <3>3 DEF Body
  <2>4. CASE Free(a) BY <2>4 DEF Free, Leave, caller
  <2> QED BY <1>4, <2>1, <2>2, <2>3, <2>4 DEF ReleaseStep
<1>5. CASE UNCHANGED vars BY <1>5 DEF vars
<1> QED BY <1>1, <1>2, <1>3, <1>4, <1>5 DEF Next

\* What the invariant says beyond types.
Rest == AgentInv /\ StoreInv /\ HoldInv /\ ReleaseInv /\ RegistryLive

\* A step that moves no pointer, closes nothing and wins or ends no release
\* leaves every context as it was.
LEMMA HoldsKept ==
  ASSUME UNCHANGED <<ptr, closed>>,
         \A a \in Agent : Releasing(a)' <=> Releasing(a),
         \A a \in Agent : Releasing(a) => with'[a] = with[a]
  PROVE  \A c \in Ctx : Holds(c)' <=> Holds(c)
BY DEF Holds

\* The steps of a post keep the invariant.
LEMMA PostNext ==
  ASSUME ContextInv, TypeOK', NEW p \in Post, PostStep(p)
  PROVE  Rest'
<1> USE ContextAssumption DEF ContextInv, TypeOK, Agent, Goto
<1>1. ASSUME NEW c \in Ctx, NEW q \in Ptr, NEW s \in BOOLEAN, Alloc(p, c, q, s)
      PROVE  Rest'
  <2>1. \A a \in Agent : (Releasing(a)' <=> Releasing(a)) /\ (a # p => with'[a] = with[a])
    BY <1>1 DEF Alloc, Releasing
  <2>2. \A d \in Ctx \ {c} : ptr'[d] = ptr[d] /\ (Holds(d)' <=> Holds(d))
    BY <1>1, <2>1 DEF Alloc, Holds, Releasing
  <2>3. \A a \in Agent : with[a] # c
    BY <1>1 DEF Alloc, AgentInv
  <2>4. \A o \in Ptr : registry[o] # c
    BY <1>1 DEF Alloc, RegistryLive
  <2>5. ptr'[c] = q /\ with'[p] = c /\ allocated' = allocated \cup {q} /\ ~Holds(c)
    BY <1>1 DEF Alloc, Holds
  <2>6. ~closed[c]
    BY <1>1 DEF Alloc, HoldInv
  <2> QED
    BY <1>1, <2>1, <2>2, <2>3, <2>4, <2>5, <2>6
       DEF Alloc, Rest, AgentInv, StoreInv, HoldInv, ReleaseInv, RegistryLive, Releasing
<1>2. CASE AllocFails(p)
  <2>1. \A c \in Ctx : Holds(c)' <=> Holds(c)
    BY <1>2, HoldsKept DEF AllocFails, Releasing
  <2> QED
    BY <1>2, <2>1 DEF AllocFails, caller, Rest, AgentInv, StoreInv, HoldInv, ReleaseInv,
                      RegistryLive, Releasing
<1>3. CASE Store(p)
  <2>1. \A c \in Ctx : Holds(c)' <=> Holds(c)
    BY <1>3, HoldsKept DEF Store, Releasing
  <2>2. with[p] \in Ctx /\ ptr[with[p]] \in Ptr /\ Holds(with[p])
    BY <1>3 DEF Store, AgentInv, StoreInv, Holds
  <2> QED
    BY <1>3, <2>1, <2>2 DEF Store, caller, Rest, AgentInv, StoreInv, HoldInv, ReleaseInv,
                            RegistryLive, Releasing
<1>4. ASSUME NEW c \in Ctx, Reuse(p, c) PROVE Rest'
  <2>1. \A d \in Ctx : Holds(d)' <=> Holds(d)
    BY <1>4, HoldsKept DEF Reuse, Releasing
  <2> QED
    BY <1>4, <2>1 DEF Reuse, Rest, AgentInv, StoreInv, HoldInv, ReleaseInv, RegistryLive,
                      Releasing
<1>5. ASSUME NEW k \in BOOLEAN, NEW b \in BOOLEAN, StageBuffer(p, k, b) \/ StageRegion(p, k)
      PROVE  Rest'
  <2>1. /\ at[p] = "stage" /\ at' = [at EXCEPT ![p] = "post"]
        /\ UNCHANGED <<with, prov, hand, ptr, allocated, registry, closed>>
    BY <1>5 DEF StageBuffer, StageRegion
  <2>2. \A c \in Ctx : Holds(c)' <=> Holds(c)
    BY <2>1, HoldsKept DEF Releasing
  <2> QED
    BY <2>1, <2>2 DEF Rest, AgentInv, StoreInv, HoldInv, ReleaseInv, RegistryLive, Releasing
<1>6. CASE Accept(p)
  <2>1. \A c \in Ctx : Holds(c)' <=> Holds(c)
    BY <1>6, HoldsKept DEF Accept, Releasing
  <2> QED
    BY <1>6, <2>1 DEF Accept, Rest, AgentInv, StoreInv, HoldInv, ReleaseInv, RegistryLive,
                      Releasing
<1>7. CASE Inject(p) \/ Refuse(p)
  <2>1. /\ at[p] \in {"stage", "post"} /\ at' = [at EXCEPT ![p] = "swap"]
        /\ UNCHANGED <<with, prov, hand, ptr, allocated, registry, closed>>
    BY <1>7 DEF Inject, Refuse, caller
  <2>2. \A c \in Ctx : Holds(c)' <=> Holds(c)
    BY <2>1, HoldsKept DEF Releasing
  <2> QED
    BY <2>1, <2>2 DEF Rest, AgentInv, StoreInv, HoldInv, ReleaseInv, RegistryLive, Releasing
<1>8. CASE Delete(p)
  <2>1. \A c \in Ctx : Holds(c)' <=> Holds(c)
    BY <1>8, HoldsKept DEF Delete, Releasing
  <2>2. with[p] \in Ctx /\ ptr[with[p]] \in Ptr
    BY <1>8 DEF Delete, AgentInv
  <2>3. \A o \in Ptr : registry'[o] # with[p] /\ registry'[o] \in {registry[o], NoCtx}
    BY <1>8, <2>2 DEF Delete, RegistryLive
  <2>4. AgentInv' /\ StoreInv'
    BY <1>8, <2>3 DEF Delete, caller, AgentInv, StoreInv
  <2>5. HoldInv'
    BY <1>8, <2>1 DEF Delete, HoldInv
  <2>6. ReleaseInv'
    <3>1. /\ at' = [at EXCEPT ![p] = "body"] /\ at[p] = "delete"
          /\ UNCHANGED <<with, closed>>
      BY <1>8 DEF Delete
    <3>2. \A a \in Agent : Releasing(a)' <=> Releasing(a)
      BY <3>1 DEF Releasing
    <3>3. \A a \in Agent \ {p} : at'[a] = at[a]
      BY <3>1
    <3>4. \A b \in Agent : at[b] \in {"swap", "body", "free"} => with[b] # NoCtx
      BY DEF AgentInv
    <3> QED BY <2>3, <3>1, <3>2, <3>3, <3>4 DEF ReleaseInv
  <2>7. RegistryLive'
    BY <1>8, <2>1, <2>3 DEF Delete, RegistryLive
  <2> QED
    BY <2>4, <2>5, <2>6, <2>7 DEF Rest
<1> QED BY <1>1, <1>2, <1>3, <1>4, <1>5, <1>6, <1>7, <1>8 DEF PostStep

\* The steps of a resolver up to the release keep the invariant.
LEMMA ResolverNext ==
  ASSUME ContextInv, TypeOK', NEW r \in Resolver, ResolverStep(r)
  PROVE  Rest'
<1> USE ContextAssumption DEF ContextInv, TypeOK, Agent, Goto
<1>1. ASSUME NEW p \in Post, Read(r, p) PROVE Rest'
  <2>1. \A c \in Ctx : Holds(c)' <=> Holds(c)
    BY <1>1, HoldsKept DEF Read, Releasing
  <2> QED
    BY <1>1, <2>1 DEF Read, Rest, AgentInv, StoreInv, HoldInv, ReleaseInv, RegistryLive,
                      Releasing
<1>2. CASE Resolve(r)
  <2>1. \A c \in Ctx : Holds(c)' <=> Holds(c)
    BY <1>2, HoldsKept DEF Resolve, Releasing
  <2>2. Pointer(r) \in Ptr /\ registry[Pointer(r)] \in Ctx
    BY <1>2 DEF Resolve, Pointer, AgentInv
  <2>3. /\ \A q \in Ptr : registry'[q] # registry[Pointer(r)]
        /\ \A q \in Ptr : registry'[q] \in {registry[q], NoCtx}
    BY <1>2, <2>2 DEF Resolve, RegistryLive
  <2>4. ptr[registry[Pointer(r)]] # NoPtr
    BY <1>2, <2>2 DEF RegistryLive, Holds
  <2> QED
    BY <1>2, <2>1, <2>2, <2>3, <2>4
       DEF Resolve, caller, Rest, AgentInv, StoreInv, HoldInv, ReleaseInv, RegistryLive, Releasing
<1>3. CASE ResolveUnknown(r)
  <2>1. \A c \in Ctx : Holds(c)' <=> Holds(c)
    BY <1>3, HoldsKept DEF ResolveUnknown, Releasing
  <2> QED
    BY <1>3, <2>1 DEF ResolveUnknown, caller, Rest, AgentInv, StoreInv, HoldInv, ReleaseInv,
                      RegistryLive, Releasing
<1> QED BY <1>1, <1>2, <1>3 DEF ResolverStep

\* The steps of release keep the invariant.
LEMMA ReleaseNext ==
  ASSUME ContextInv, TypeOK', NEW a \in Agent, ReleaseStep(a)
  PROVE  Rest'
<1> USE ContextAssumption DEF ContextInv, TypeOK, Agent, Goto
<1>1. CASE Swap(a)
  <2>1. PICK c \in Ctx : with[a] = c
    BY <1>1 DEF Swap, AgentInv
  <2>2. /\ ptr[c] # NoPtr /\ ~closed[c]
        /\ closed' = [closed EXCEPT ![c] = TRUE]
        /\ UNCHANGED <<with, prov, hand, ptr, allocated, registry>>
    BY <1>1, <2>1 DEF Swap, caller, AgentInv
  <2>3. Releasing(a)' /\ ~Releasing(a)
    BY <1>1 DEF Swap, Releasing
  <2>4. \A b \in Agent \ {a} : at'[b] = at[b]
    BY <1>1 DEF Swap
  <2>5. \A b \in Agent : Releasing(b) => with[b] # c
    BY <2>2 DEF ReleaseInv
  <2>6. \A d \in Ctx : Holds(d)' <=> Holds(d)
    <3>1. Holds(c) /\ Holds(c)'
      BY <2>1, <2>2, <2>3 DEF Holds
    <3>2. \A d \in Ctx \ {c} : Holds(d)' <=> Holds(d)
      BY <2>1, <2>2, <2>4 DEF Holds, Releasing
    <3> QED BY <3>1, <3>2
  <2>7. AgentInv'
    BY <1>1 DEF Swap, caller, AgentInv
  <2>8. StoreInv'
    BY <1>1 DEF Swap, caller, StoreInv
  <2>9. HoldInv'
    BY <2>2, <2>6 DEF HoldInv
  <2>10. ReleaseInv'
    <3>1. \A b \in Agent \ {a} : Releasing(b)' <=> Releasing(b)
      BY <2>4 DEF Releasing
    <3>2. at'[a] \in {"body", "free"} => a \in Resolver
      BY <1>1 DEF Swap
    <3> QED BY <1>1, <2>1, <2>2, <2>3, <2>4, <2>5, <3>1, <3>2 DEF Swap, ReleaseInv
  <2>11. RegistryLive'
    BY <2>2, <2>6 DEF RegistryLive
  <2> QED BY <2>7, <2>8, <2>9, <2>10, <2>11 DEF Rest
<1>2. CASE SwapLost(a)
  <2>1. \A b \in Agent : Releasing(b)' <=> Releasing(b)
    BY <1>2 DEF SwapLost, Leave, Releasing
  <2>2. \A b \in Agent : Releasing(b) => with'[b] = with[b]
    BY <1>2 DEF SwapLost, Leave, Releasing
  <2>3. \A c \in Ctx : Holds(c)' <=> Holds(c)
    BY <1>2, <2>1, <2>2, HoldsKept DEF SwapLost
  <2>4. AgentInv'
    BY <1>2 DEF SwapLost, Leave, caller, AgentInv
  <2>5. StoreInv'
    BY <1>2 DEF SwapLost, Leave, caller, StoreInv, AgentInv
  <2>6. HoldInv'
    BY <1>2, <2>3 DEF SwapLost, HoldInv
  <2>7. ReleaseInv'
    BY <1>2, <2>1, <2>2 DEF SwapLost, Leave, ReleaseInv, Releasing
  <2>8. RegistryLive'
    BY <1>2, <2>3 DEF SwapLost, RegistryLive
  <2> QED BY <2>4, <2>5, <2>6, <2>7, <2>8 DEF Rest
<1>3. CASE Body(a)
  <2>1. /\ at[a] = "body" /\ at' = [at EXCEPT ![a] = "free"]
        /\ UNCHANGED <<with, prov, hand, ptr, allocated, registry, closed>>
    BY <1>3 DEF Body
  <2>2. \A c \in Ctx : Holds(c)' <=> Holds(c)
    BY <2>1, HoldsKept DEF Releasing
  <2> QED
    BY <2>1, <2>2 DEF Rest, AgentInv, StoreInv, HoldInv, ReleaseInv, RegistryLive, Releasing
<1>4. CASE Free(a)
  <2>1. PICK c \in Ctx : with[a] = c
    BY <1>4 DEF Free, AgentInv
  <2>2. Releasing(a) /\ closed[c] /\ Holds(c)
    BY <1>4, <2>1 DEF Free, AgentInv, ReleaseInv, Releasing, Holds
  <2>3. /\ allocated' = allocated \ {ptr[c]}
        /\ UNCHANGED <<ptr, registry, closed, prov>>
    BY <1>4, <2>1 DEF Free, caller
  <2>4. /\ ~Releasing(a)'
        /\ \A b \in Agent \ {a} : at'[b] = at[b] /\ with'[b] = with[b]
    BY <1>4 DEF Free, Leave, Releasing
  <2>5. \A b \in Agent \ {a} : (Releasing(b)' <=> Releasing(b)) /\ (Releasing(b) => with[b] # c)
    BY <2>1, <2>2, <2>4 DEF ReleaseInv, Releasing
  <2>6. ~Holds(c)'
    BY <2>2, <2>3, <2>4, <2>5 DEF Holds
  <2>7. \A d \in Ctx \ {c} : Holds(d)' <=> Holds(d)
    BY <2>1, <2>3, <2>4, <2>5 DEF Holds
  <2>8. \A q \in Ptr : registry[q] # c
    BY <1>4, <2>1 DEF Free, ReleaseInv
  <2>9. AgentInv'
    BY <1>4 DEF Free, Leave, caller, AgentInv
  <2>10. StoreInv'
    BY <1>4 DEF Free, Leave, caller, StoreInv, AgentInv
  <2>11. HoldInv'
    BY <2>2, <2>3, <2>6, <2>7 DEF HoldInv
  <2>12. ReleaseInv'
    <3>1. at'[a] \in {"returned", "idle"}
      BY <1>4 DEF Free, Leave
    <3>2. ASSUME NEW b \in Agent, Releasing(b)'
          PROVE  /\ closed'[with'[b]]
                 /\ \A d \in Agent \ {b} : Releasing(d)' => with'[d] # with'[b]
      <4>1. b # a /\ Releasing(b) BY <2>4, <2>5, <3>2
      <4>2. \A d \in Agent \ {a} : with'[d] = with[d] BY <2>4
      <4> QED BY <2>3, <2>4, <2>5, <4>1, <4>2 DEF ReleaseInv
    <3>3. ASSUME NEW b \in Agent,
                 at'[b] \in {"body", "free"} \/ (b \in Resolver /\ at'[b] = "swap")
          PROVE  \A q \in Ptr : registry'[q] # with'[b]
      <4>1. b # a BY <3>1, <3>3
      <4>2. at'[b] = at[b] /\ with'[b] = with[b] BY <2>4, <4>1
      <4> QED BY <2>3, <3>3, <4>2 DEF ReleaseInv
    <3> QED BY <3>2, <3>3 DEF ReleaseInv
  <2>13. RegistryLive'
    <3> SUFFICES ASSUME NEW q \in Ptr, registry[q] # NoCtx
                 PROVE  /\ q \in allocated' /\ ptr[registry[q]] = q
                        /\ Holds(registry[q])'
      BY <2>3 DEF RegistryLive
    <3>1. PICK d \in Ctx \ {c} : registry[q] = d
      BY <2>8
    <3>2. ptr[d] = q /\ Holds(d) /\ q \in allocated
      BY <3>1 DEF RegistryLive
    <3>3. ptr[c] # q
      BY <2>2, <3>1, <3>2 DEF HoldInv
    <3> QED BY <2>3, <2>7, <3>1, <3>2, <3>3
  <2> QED BY <2>9, <2>10, <2>11, <2>12, <2>13 DEF Rest
<1> QED BY <1>1, <1>2, <1>3, <1>4 DEF ReleaseStep

\* Every step keeps the invariant.
LEMMA ContextNext == ASSUME ContextInv, [Next]_vars PROVE ContextInv'
<1>1. TypeOK'
  BY TypeNext DEF ContextInv
<1>2. ASSUME NEW p \in Post, NEW ok \in BOOLEAN, Deliver(p, ok) PROVE Rest'
  <2>1. \A c \in Ctx : Holds(c)' <=> Holds(c)
    BY <1>2, HoldsKept DEF Deliver, Releasing
  <2> QED
    BY <1>2, <2>1, ContextAssumption
       DEF Deliver, ContextInv, TypeOK, Agent, Rest, AgentInv, StoreInv, HoldInv, ReleaseInv,
           RegistryLive, Releasing
<1>3. ASSUME UNCHANGED vars PROVE Rest'
  BY <1>3 DEF vars, ContextInv, Rest, AgentInv, StoreInv, HoldInv, ReleaseInv, RegistryLive,
              Releasing, Holds
<1>4. Rest'
  BY <1>1, <1>2, <1>3, PostNext, ResolverNext, ReleaseNext DEF Next
<1> QED BY <1>1, <1>4 DEF ContextInv, Rest

\* The invariant of contexts holds however they are shared.
THEOREM ContextCorrect == Spec => []ContextInv
BY InitContext, ContextNext, PTL DEF Spec

\* The registry maps a pointer only to the context that has it, although
\* malloc recycles pointers.
THEOREM RegistryStaysLive == Spec => []RegistryLive
<1>1. ContextInv => RegistryLive BY DEF ContextInv
<1> QED BY <1>1, ContextCorrect, PTL

\* A pointer is freed once, by one agent, also when a post that fails and a
\* resolver release one context.
THEOREM PointerFreedOnce == Spec => []FreedOnce
<1>1. ContextInv => FreedOnce
  <2> SUFFICES ASSUME ContextInv, NEW a \in Agent, at[a] = "free"
               PROVE  /\ ptr[with[a]] \in allocated
                      /\ \A b \in Agent \ {a} : at[b] = "free" => ptr[with[b]] # ptr[with[a]]
    BY DEF FreedOnce
  <2> USE DEF ContextInv, Releasing
  <2>1. \A b \in Agent : at[b] = "free" => with[b] \in Ctx /\ Holds(with[b])
    <3>1. \A b \in Agent : at[b] = "free" => with[b] \in Ctx /\ ptr[with[b]] # NoPtr
      BY ContextAssumption DEF AgentInv, TypeOK
    <3> QED BY <3>1 DEF Holds
  <2>2. ptr[with[a]] \in allocated
    BY <2>1 DEF HoldInv
  <2>3. ASSUME NEW b \in Agent \ {a}, at[b] = "free" PROVE ptr[with[b]] # ptr[with[a]]
    <3>1. with[b] # with[a] BY <2>3 DEF ReleaseInv
    <3> QED BY <2>1, <2>3, <3>1 DEF HoldInv
  <2> QED BY <2>2, <2>3
<1> QED BY <1>1, ContextCorrect, PTL

-----------------------------------------------------------------------------
(* While every post has a context of its own.                              *)

\* A live post has an open context with a pointer.
LEMMA LiveHolds ==
  ASSUME ContextInv, Apart, NEW p \in Post, Live(p)
  PROVE  /\ with[p] \in Ctx
         /\ ptr[with[p]] \in Ptr
         /\ ~closed[with[p]]
         /\ Holds(with[p])
<1> USE ContextAssumption DEF ContextInv, TypeOK, Agent
<1>1. at[p] \in {"stage", "post", "posted"}
  BY DEF Live, AgentInv
<1>2. with[p] \in Ctx /\ ptr[with[p]] \in Ptr
  BY <1>1 DEF AgentInv
<1> QED BY <1>2 DEF Apart, Unshared, Intact, Holds

\* A step that leaves the fields of its context alone leaves it intact.
LEMMA IntactKept ==
  ASSUME NEW p \in Post, Intact(p),
         with'[p] = with[p], used'[p] = used[p],
         closed'[with[p]] = closed[with[p]],
         ptr'[with[p]] = ptr[with[p]],
         registry'[ptr[with[p]]] = registry[ptr[with[p]]],
         buffer'[with[p]] = buffer[with[p]]
  PROVE  Intact(p)'
BY DEF Intact

\* An agent that releases a context works on that of no live post.
LEMMA LiveApart ==
  ASSUME ContextInv, Apart, NEW p \in Post, Live(p),
         NEW a \in Agent, at[a] \in {"swap", "delete", "body", "free"}
  PROVE  with[a] # with[p]
<1> USE ContextAssumption DEF ContextInv, TypeOK, Agent
<1>1. with[p] \in Ctx BY LiveHolds
<1>2. CASE a \in Post
  <2>1. a # p BY DEF Live, AgentInv
  <2> QED BY <1>1, <1>2, <2>1 DEF Apart, Unshared
<1>3. CASE a \in Resolver
  <2>1. hand[a] \in Post /\ prov[hand[a]] = "read" /\ at[hand[a]] = "posted" /\ at[a] # "resolve"
    BY <1>3 DEF AgentInv
  <2>2. ~Live(hand[a])
    BY <1>3, <2>1 DEF Live, Apart, Unshared
  <2>3. with[a] = with[hand[a]]
    BY <1>3 DEF Apart, Unshared, ResolvesOwn, AgentInv
  <2> QED BY <1>1, <2>1, <2>2, <2>3 DEF Apart, Unshared
<1> QED BY <1>2, <1>3

\* The steps of a post keep contexts apart.
LEMMA OwnPost ==
  ASSUME ContextInv, Apart, Unshared', NEW p \in Post, PostStep(p)
  PROVE  Apart'
<1> USE ContextAssumption DEF ContextInv, TypeOK, Agent, Goto
<1>1. ASSUME NEW c \in Ctx, NEW q \in Ptr, NEW s \in BOOLEAN, Alloc(p, c, q, s)
      PROVE  Apart'
  <2>1. \A a \in Agent : with[a] # c
    BY <1>1 DEF Alloc, AgentInv
  <2>2. at[p] = "idle" /\ prov[p] = "none" /\ \A r \in Resolver : hand[r] # p
    BY <1>1 DEF Alloc, AgentInv
  <2>3. ASSUME NEW o \in Post, Live(o)' PROVE Intact(o)'
    <3>1. Live(o) /\ o # p
      BY <1>1, <2>2, <2>3 DEF Alloc, Live
    <3>2. with[o] \in Ctx \ {c} BY <2>1, <3>1, LiveHolds
    <3> QED BY <1>1, <3>1, <3>2, IntactKept DEF Alloc, Apart, Unshared
  <2>4. ResolvesOwn'
    BY <1>1, <2>2 DEF Alloc, Apart, Unshared, ResolvesOwn, AgentInv
  <2>5. \A o, u \in Post : with'[o] = with'[u] /\ with'[o] # NoCtx => o = u
    BY <1>1, <2>1 DEF Alloc, Apart, Unshared
  <2> QED BY <1>1, <2>3, <2>4, <2>5 DEF Alloc, Apart, Unshared
<1>2. CASE AllocFails(p)
  <2>1. \A o \in Post : Live(o)' => Live(o)
    BY <1>2 DEF AllocFails, caller, Live
  <2>2. \A o \in Post : Intact(o) => Intact(o)'
    BY <1>2 DEF AllocFails, caller, Intact
  <2> QED BY <1>2, <2>1, <2>2 DEF AllocFails, caller, Apart, Unshared, ResolvesOwn
<1>3. CASE Store(p)
  <2>1. PICK c \in Ctx : with[p] = c
    BY <1>3 DEF Store, AgentInv
  <2>2. ptr[c] \in Ptr /\ ~closed[c] /\ Holds(c)
    BY <1>3, <2>1 DEF Store, AgentInv, StoreInv, Holds
  <2>3. ASSUME NEW o \in Post, Live(o)' PROVE Intact(o)'
    <3>1. CASE o = p
      BY <1>3, <2>1, <2>2, <3>1 DEF Store, caller, Intact, Apart, Unshared
    <3>2. CASE o # p
      <4>1. Live(o) BY <1>3, <2>3, <3>2 DEF Store, caller, Live
      <4>2. with[o] \in Ctx /\ ptr[with[o]] \in Ptr /\ Holds(with[o])
        BY <4>1, LiveHolds
      <4>3. with[o] # c BY <2>1, <3>2, <4>2 DEF Apart, Unshared
      <4>4. ptr[with[o]] # ptr[c] BY <2>2, <4>2, <4>3 DEF HoldInv
      <4>5. registry'[ptr[with[o]]] = registry[ptr[with[o]]]
        BY <1>3, <2>1, <4>2, <4>4 DEF Store
      <4> QED BY <1>3, <4>1, <4>5, IntactKept DEF Store, caller, Apart, Unshared
    <3> QED BY <3>1, <3>2
  <2> QED BY <1>3, <2>3 DEF Store, caller, Apart, Unshared, ResolvesOwn
<1>4. ASSUME NEW c \in Ctx, Reuse(p, c) PROVE Apart'
  <2>1. with'[p] = c /\ at[p] = "idle" /\ c \in Ctx
    BY <1>4 DEF Reuse
  <2>2. PICK o \in Post : with[o] = c
    BY <1>4 DEF Reuse
  <2>3. o # p /\ with'[o] = c
    BY <1>4, <2>1, <2>2 DEF Reuse, AgentInv
  <2> QED BY <2>1, <2>3 DEF Unshared
<1>5. ASSUME NEW k \in BOOLEAN, NEW b \in BOOLEAN, StageBuffer(p, k, b) \/ StageRegion(p, k)
      PROVE  Apart'
  <2>1. PICK c \in Ctx : with[p] = c
    BY <1>5 DEF StageBuffer, StageRegion, AgentInv
  <2>2. /\ at[p] = "stage" /\ at' = [at EXCEPT ![p] = "post"]
        /\ UNCHANGED <<with, prov, hand, ptr, registry, closed>>
        /\ \A o \in Post \ {p} : used'[o] = used[o]
        /\ \A d \in Ctx \ {c} : buffer'[d] = buffer[d]
    BY <1>5, <2>1 DEF StageBuffer, StageRegion
  <2>3. used'[p] # NoPost => buffer'[c] = used'[p]
    <3>1. CASE StageBuffer(p, k, b)
      BY <2>1, <3>1 DEF StageBuffer
    <3>2. CASE StageRegion(p, k)
      BY <2>1, <2>2, <3>2 DEF StageRegion, Apart, Unshared
    <3> QED BY <1>5, <3>1, <3>2
  <2>4. ASSUME NEW o \in Post, Live(o)' PROVE Intact(o)'
    <3>1. Live(o) BY <2>2, <2>4 DEF Live
    <3>2. CASE o = p
      BY <2>1, <2>2, <2>3, <3>1, <3>2 DEF Apart, Unshared, Intact
    <3>3. CASE o # p
      <4>1. with[o] \in Ctx \ {c} BY <2>1, <3>1, <3>3, LiveHolds DEF Apart, Unshared
      <4> QED BY <2>2, <3>1, <3>3, <4>1, IntactKept DEF Apart, Unshared
    <3> QED BY <3>2, <3>3
  <2> QED BY <2>2, <2>4 DEF Apart, Unshared, ResolvesOwn
<1>6. CASE Accept(p)
  <2>1. \A o \in Post : Live(o)' => Live(o)
    <3>1. at[p] = "post" /\ Live(p)
      BY <1>6 DEF Accept, Live
    <3>2. /\ \A r \in Resolver : at'[r] = at[r] /\ hand'[r] = hand[r]
          /\ \A o \in Post \ {p} : at'[o] = at[o] /\ prov'[o] = prov[o]
      BY <1>6 DEF Accept
    <3>3. \A o \in Post \ {p} : Live(o)' => Live(o)
      BY <3>2 DEF Live
    <3> QED BY <3>1, <3>3
  <2>2. \A o \in Post : Intact(o) => Intact(o)'
    BY <1>6 DEF Accept, Intact
  <2> QED BY <1>6, <2>1, <2>2 DEF Accept, Apart, Unshared, ResolvesOwn
<1>7. CASE Inject(p) \/ Refuse(p)
  <2>1. /\ at' = [at EXCEPT ![p] = "swap"]
        /\ UNCHANGED <<with, prov, used, hand, ptr, registry, closed, buffer>>
    BY <1>7 DEF Inject, Refuse, caller
  <2>2. \A o \in Post : Live(o)' => Live(o)
    BY <2>1 DEF Live
  <2>3. \A o \in Post : Intact(o) => Intact(o)'
    BY <2>1 DEF Intact
  <2> QED BY <2>1, <2>2, <2>3 DEF Apart, Unshared, ResolvesOwn
<1>8. CASE Delete(p)
  <2>1. PICK c \in Ctx : with[p] = c
    BY <1>8 DEF Delete, AgentInv
  <2>2. Holds(c)
    BY <1>8, <2>1 DEF Delete, AgentInv, Holds, Releasing
  <2>3. ASSUME NEW o \in Post, Live(o)' PROVE Intact(o)'
    <3>1. Live(o) BY <1>8, <2>3 DEF Delete, caller, Live
    <3>2. with[o] \in Ctx /\ ptr[with[o]] \in Ptr /\ Holds(with[o])
      BY <3>1, LiveHolds
    <3>3. with[o] # c BY <1>8, <2>1, <3>1, LiveApart DEF Delete
    <3>4. ptr[with[o]] # ptr[c] BY <2>2, <3>2, <3>3 DEF HoldInv
    <3>5. registry'[ptr[with[o]]] = registry[ptr[with[o]]]
      BY <1>8, <2>1, <3>2, <3>4 DEF Delete
    <3> QED BY <1>8, <3>1, <3>5, IntactKept DEF Delete, caller, Apart, Unshared
  <2> QED BY <1>8, <2>3 DEF Delete, caller, Apart, Unshared, ResolvesOwn
<1> QED BY <1>1, <1>2, <1>3, <1>4, <1>5, <1>6, <1>7, <1>8 DEF PostStep

\* The steps of a resolver keep contexts apart.
LEMMA OwnResolver ==
  ASSUME ContextInv, Apart, NEW r \in Resolver, ResolverStep(r)
  PROVE  Apart'
<1> USE ContextAssumption DEF ContextInv, TypeOK, Agent, Goto
<1>1. ASSUME NEW p \in Post, Read(r, p) PROVE Apart'
  <2>1. \A s \in Resolver : hand[s] # p
    BY <1>1 DEF Read, AgentInv
  <2>2. \A o \in Post : Live(o)' => Live(o)
    BY <1>1 DEF Read, Live
  <2>3. \A o \in Post : Intact(o) => Intact(o)'
    BY <1>1 DEF Read, Intact
  <2>4. \A s, u \in Resolver : hand'[s] = hand'[u] /\ hand'[s] # NoPost => s = u
    BY <1>1, <2>1 DEF Read, Apart, Unshared
  <2>5. ResolvesOwn'
    BY <1>1 DEF Read, Apart, Unshared, ResolvesOwn
  <2> QED BY <1>1, <2>2, <2>3, <2>4, <2>5 DEF Read, Apart, Unshared
<1>2. CASE Resolve(r)
  <2>1. PICK h \in Post : hand[r] = h
    BY <1>2 DEF Resolve, AgentInv
  <2>2. Live(h)
    BY <1>2, <2>1 DEF Resolve, Live
  <2>3. PICK c \in Ctx : with[h] = c /\ ptr[c] \in Ptr /\ Holds(c) /\ registry[ptr[c]] = c
    BY <2>2, LiveHolds DEF Apart, Unshared, Intact
  <2>4. /\ with' = [with EXCEPT ![r] = c]
        /\ registry' = [registry EXCEPT ![ptr[c]] = NoCtx]
        /\ at' = [at EXCEPT ![r] = "swap"]
        /\ UNCHANGED <<prov, used, hand, ptr, closed, buffer>>
    BY <1>2, <2>1, <2>3 DEF Resolve, Pointer, caller
  <2>5. ASSUME NEW o \in Post, Live(o)' PROVE Intact(o)'
    <3>1. Live(o) BY <2>4, <2>5 DEF Live
    <3>2. o # h
      BY <1>2, <2>1, <2>4, <2>5 DEF Live, Resolve, AgentInv, Apart, Unshared
    <3>3. with[o] \in Ctx /\ ptr[with[o]] \in Ptr /\ Holds(with[o])
      BY <3>1, LiveHolds
    <3>4. with[o] # c BY <2>3, <3>2, <3>3 DEF Apart, Unshared
    <3>5. ptr[with[o]] # ptr[c] BY <2>3, <3>3, <3>4 DEF HoldInv
    <3>6. registry'[ptr[with[o]]] = registry[ptr[with[o]]]
      BY <2>4, <3>3, <3>5
    <3> QED BY <2>4, <3>1, <3>6, IntactKept DEF Apart, Unshared
  <2>6. ResolvesOwn'
    BY <2>1, <2>3, <2>4 DEF Apart, Unshared, ResolvesOwn, AgentInv
  <2> QED BY <2>4, <2>5, <2>6 DEF Apart, Unshared
<1>3. CASE ResolveUnknown(r)
  <2>1. \A o \in Post : Live(o)' => Live(o)
    BY <1>3 DEF ResolveUnknown, caller, Live
  <2>2. \A o \in Post : Intact(o) => Intact(o)'
    BY <1>3 DEF ResolveUnknown, caller, Intact
  <2> QED BY <1>3, <2>1, <2>2 DEF ResolveUnknown, caller, Apart, Unshared, ResolvesOwn
<1> QED BY <1>1, <1>2, <1>3 DEF ResolverStep

\* The steps of release keep contexts apart.
LEMMA OwnRelease ==
  ASSUME ContextInv, Apart, NEW a \in Agent, ReleaseStep(a)
  PROVE  Apart'
<1> USE ContextAssumption DEF ContextInv, TypeOK, Agent, Goto
<1>1. \A o \in Post : Live(o)' => Live(o)
  <2>1. /\ at[a] \in {"swap", "body", "free"}
        /\ at'[a] \in {"delete", "body", "free", "returned", "idle"}
        /\ \A b \in Agent \ {a} : at'[b] = at[b]
        /\ prov' = prov
        /\ \A r \in Resolver \ {a} : hand'[r] = hand[r]
    BY DEF ReleaseStep, Swap, SwapLost, Body, Free, Leave, caller
  <2> QED BY <2>1 DEF Live
<1>2. CASE Swap(a)
  <2>1. ASSUME NEW o \in Post, Live(o)' PROVE Intact(o)'
    <3>1. Live(o) BY <1>1, <2>1
    <3>2. with[o] \in Ctx /\ with[a] # with[o]
      BY <1>2, <3>1, LiveHolds, LiveApart DEF Swap
    <3> QED BY <1>2, <3>1, <3>2, IntactKept DEF Swap, caller, Apart, Unshared
  <2> QED BY <1>2, <2>1 DEF Swap, caller, Apart, Unshared, ResolvesOwn, AgentInv
<1>3. CASE SwapLost(a) \/ Free(a)
  <2>1. /\ UNCHANGED <<used, ptr, registry, closed, buffer>>
        /\ at[a] \in {"swap", "free"}
        /\ Leave(a)
    BY <1>3 DEF SwapLost, Free, caller
  <2>2. \A o \in Post : with'[o] = with[o]
    BY <2>1 DEF Leave
  <2>3. \A o \in Post : Intact(o) => Intact(o)'
    BY <2>1, <2>2 DEF Intact
  <2>4. \A s, u \in Resolver : hand'[s] = hand'[u] /\ hand'[s] # NoPost => s = u
    BY <2>1 DEF Leave, Apart, Unshared
  <2>5. ResolvesOwn'
    BY <2>1, <2>2 DEF Leave, Apart, Unshared, ResolvesOwn, AgentInv
  <2>6. \A o \in Post : at'[o] \in {"idle", "store", "stage"} => used'[o] = NoPost
    BY <2>1 DEF Leave, Apart, Unshared
  <2> QED BY <1>1, <2>2, <2>3, <2>4, <2>5, <2>6 DEF Apart, Unshared
<1>4. CASE Body(a)
  <2>1. ASSUME NEW o \in Post, Live(o)' PROVE Intact(o)'
    <3>1. Live(o) BY <1>1, <2>1
    <3>2. with[o] \in Ctx /\ with[a] # with[o]
      BY <1>4, <3>1, LiveHolds, LiveApart DEF Body
    <3> QED BY <1>4, <3>1, <3>2, IntactKept DEF Body, Apart, Unshared
  <2> QED BY <1>4, <2>1 DEF Body, Apart, Unshared, ResolvesOwn
<1> QED BY <1>2, <1>3, <1>4 DEF ReleaseStep

\* Contexts that are apart stay so for as long as none is shared.
LEMMA ApartNext ==
  ASSUME ContextInv, Apart, Unshared', [Next]_vars
  PROVE  Apart'
<1>1. ASSUME NEW p \in Post, NEW ok \in BOOLEAN, Deliver(p, ok) PROVE Apart'
  <2>1. \A o \in Post : Live(o)' => Live(o)
    BY <1>1 DEF Deliver, Live, ContextInv, TypeOK
  <2>2. \A o \in Post : Intact(o) => Intact(o)'
    BY <1>1 DEF Deliver, Intact
  <2> QED BY <1>1, <2>1, <2>2 DEF Deliver, Apart, ResolvesOwn
<1>2. CASE UNCHANGED vars
  BY <1>2 DEF vars, Apart, ResolvesOwn, Live, Intact
<1> QED BY <1>1, <1>2, OwnPost, OwnResolver, OwnRelease DEF Next

\* A post keeps its context.
LEMMA PostsKeepContexts ==
  ASSUME ContextInv, [Next]_vars
  PROVE  \A p \in Post : with[p] # NoCtx => with'[p] = with[p]
<1> USE ContextAssumption DEF ContextInv, TypeOK, Agent, Goto
<1>1. ASSUME NEW o \in Post, PostStep(o) PROVE \A p \in Post : with[p] # NoCtx => with'[p] = with[p]
  <2>1. CASE \E c \in Ctx, q \in Ptr, s \in BOOLEAN : Alloc(o, c, q, s)
    BY <2>1 DEF Alloc, AgentInv
  <2>2. CASE \E c \in Ctx : Reuse(o, c)
    BY <2>2 DEF Reuse, AgentInv
  <2> QED BY <1>1, <2>1, <2>2
          DEF PostStep, AllocFails, Store, StageBuffer, StageRegion, Accept, Inject,
              Refuse, Delete
<1>2. ASSUME NEW r \in Resolver, ResolverStep(r) PROVE \A p \in Post : with'[p] = with[p]
  BY <1>2 DEF ResolverStep, Read, Resolve, ResolveUnknown
<1>3. ASSUME NEW a \in Agent, ReleaseStep(a) PROVE \A p \in Post : with'[p] = with[p]
  BY <1>3 DEF ReleaseStep, Swap, SwapLost, Body, Free, Leave
<1> QED BY <1>1, <1>2, <1>3 DEF Next, Deliver, vars

\* Contexts that are shared stay shared.
LEMMA StaysShared ==
  ASSUME ContextInv, [Next]_vars, Unshared' PROVE Unshared
BY PostsKeepContexts DEF Unshared

\* Every step keeps the invariant of contexts that are not shared.
LEMMA OwnNext == ASSUME ContextInv, OwnInv, [Next]_vars PROVE OwnInv'
BY ApartNext, StaysShared DEF OwnInv

\* The program starts with contexts apart.
LEMMA InitOwn == ASSUME Init PROVE OwnInv
BY ContextAssumption DEF Init, OwnInv, Apart, Unshared, Live, ResolvesOwn, Agent

\* Until a context is shared, each serves one post and stays as that post
\* left it while the operation is under way.
THEOREM ContextsStayApart == Spec => []OwnInv
<1>1. Init => ContextInv /\ OwnInv
  BY InitContext, InitOwn
<1>2. ContextInv /\ OwnInv /\ [Next]_vars => (ContextInv /\ OwnInv)'
  BY ContextNext, OwnNext
<1> QED BY <1>1, <1>2, PTL DEF Spec

\* Until a context is shared, a completion resolves to the context its own
\* operation was posted with, and to no other that got the same pointer.
THEOREM CompletionFindsItsContext == Spec => []OwnContext
<1>1. OwnInv => OwnContext BY DEF OwnInv, Apart, OwnContext
<1> QED BY <1>1, ContextsStayApart, PTL

\* Until a context is shared, the provider's pointer and staging buffer stay
\* allocated, and the pointer registered, until the completion is read.
THEOREM ProviderMemoryStays == Spec => []MemoryWhilePending
<1>1. ContextInv /\ OwnInv => MemoryWhilePending
  <2> SUFFICES ASSUME ContextInv, Apart, NEW p \in Post, prov[p] \in {"pending", "event"}
               PROVE  /\ registry[ptr[with[p]]] = with[p]
                      /\ ptr[with[p]] \in allocated
                      /\ used[p] # NoPost => buffer[with[p]] = used[p]
    BY DEF MemoryWhilePending, OwnInv
  <2>1. Live(p) BY DEF Live
  <2>2. with[p] \in Ctx /\ Holds(with[p]) BY <2>1, LiveHolds
  <2> QED BY <2>1, <2>2 DEF ContextInv, HoldInv, Apart, Intact
<1> QED BY <1>1, ContextsStayApart, ContextCorrect, PTL
-----------------------------------------------------------------------------
(* What becomes of a context.                                              *)

\* A context that is closed stays closed.
LEMMA ClosedStays ==
  ASSUME ContextInv, [Next]_vars PROVE \A c \in Ctx : closed[c] => closed'[c]
<1> USE DEF ContextInv, TypeOK
<1>1. ASSUME NEW a \in Agent, ReleaseStep(a) PROVE \A c \in Ctx : closed[c] => closed'[c]
  BY <1>1 DEF ReleaseStep, Swap, SwapLost, Body, Free
<1> QED
  BY <1>1 DEF Next, vars, Deliver, PostStep, Alloc, AllocFails, Store, Reuse, StageBuffer,
     StageRegion, Accept, Inject, Refuse, Delete, ResolverStep, Read, Resolve, ResolveUnknown

\* The context that has pointer q, and a post that has the context.
Owner(q, c) == ptr[c] = q /\ Holds(c) /\ \E p \in Post : with[p] = c

\* Every step keeps the owners of allocated pointers, or frees the pointer.
LEMMA OwnersKept ==
  ASSUME ContextInv, \A q \in allocated : \E c \in Ctx : Owner(q, c), [Next]_vars
  PROVE  \A q \in allocated' : \E c \in Ctx : Owner(q, c)'
<1> USE ContextAssumption DEF ContextInv, TypeOK, Agent
<1>0. ASSUME NEW c \in Ctx, \E p \in Post : with[p] = c PROVE \E p \in Post : with'[p] = c
  BY <1>0, PostsKeepContexts
<1>1. ASSUME \A c \in Ctx : Holds(c)' <=> Holds(c), UNCHANGED <<allocated, ptr>>
      PROVE  \A q \in allocated' : \E c \in Ctx : Owner(q, c)'
  BY <1>0, <1>1 DEF Owner
<1>2. ASSUME NEW p \in Post, NEW c \in Ctx, NEW r \in Ptr, NEW s \in BOOLEAN, Alloc(p, c, r, s)
      PROVE  \A q \in allocated' : \E d \in Ctx : Owner(q, d)'
  <2>1. /\ at[p] = "idle" /\ at' = [at EXCEPT ![p] = "store"]
        /\ with' = [with EXCEPT ![p] = c]
        /\ ptr[c] = NoPtr /\ ptr' = [ptr EXCEPT ![c] = r]
        /\ allocated' = allocated \cup {r} /\ UNCHANGED closed
    BY <1>2 DEF Alloc, Goto
  <2>2. Owner(r, c)'
    BY <2>1 DEF Owner, Holds, HoldInv
  <2>3. ASSUME NEW q \in allocated, NEW d \in Ctx, Owner(q, d) PROVE Owner(q, d)'
    <3>1. d # c
      BY <2>1, <2>3 DEF Owner, Holds
    <3>2. Holds(d)'
      BY <2>1, <2>3, <3>1 DEF Owner, Holds, Releasing
    <3> QED
      BY <1>0, <2>1, <2>3, <3>1, <3>2 DEF Owner
  <2> QED BY <2>1, <2>2, <2>3
<1>3. ASSUME NEW a \in Agent, Swap(a)
      PROVE  \A q \in allocated' : \E c \in Ctx : Owner(q, c)'
  <2>1. PICK c \in Ctx : with[a] = c
    BY <1>3 DEF Swap, AgentInv
  <2>2. /\ at[a] = "swap" /\ at'[a] \in {"delete", "body"} /\ \A b \in Agent \ {a} : at'[b] = at[b]
        /\ closed' = [closed EXCEPT ![c] = TRUE] /\ UNCHANGED <<with, ptr, allocated>>
    BY <1>3, <2>1 DEF Swap, Goto
  <2>3. ASSUME NEW d \in Ctx, Holds(d) PROVE Holds(d)'
    <3>1. CASE d = c
      BY <2>1, <2>2, <2>3, <3>1 DEF Holds, Releasing
    <3>2. CASE d # c
      BY <2>2, <2>3, <3>2 DEF Holds, Releasing
    <3> QED BY <3>1, <3>2
  <2> QED BY <2>2, <2>3 DEF Owner
<1>4. ASSUME NEW a \in Agent, Free(a)
      PROVE  \A q \in allocated' : \E c \in Ctx : Owner(q, c)'
  <2>1. /\ at[a] = "free" /\ \A b \in Agent \ {a} : at'[b] = at[b] /\ with'[b] = with[b]
        /\ allocated' = allocated \ {ptr[with[a]]} /\ UNCHANGED <<ptr, closed>>
    BY <1>4 DEF Free, Leave, Goto
  <2>2. ASSUME NEW q \in allocated', NEW c \in Ctx, Owner(q, c) PROVE Owner(q, c)'
    <3>1. c # with[a]
      BY <2>1, <2>2 DEF Owner
    <3>2. Holds(c)'
      BY <2>1, <2>2, <3>1 DEF Owner, Holds, Releasing
    <3> QED
      BY <1>0, <2>1, <2>2, <3>2 DEF Owner
  <2> QED BY <2>1, <2>2
<1>5. ASSUME UNCHANGED <<allocated, ptr, closed>>,
             \A a \in Agent : Releasing(a)' <=> Releasing(a),
             \A a \in Agent : Releasing(a) => with'[a] = with[a]
      PROVE  \A q \in allocated' : \E c \in Ctx : Owner(q, c)'
  BY <1>1, <1>5, HoldsKept
<1>6. ASSUME NEW p \in Post, PostStep(p), \A c \in Ctx, q \in Ptr, s \in BOOLEAN : ~Alloc(p, c, q, s)
      PROVE  /\ UNCHANGED <<allocated, ptr, closed>>
             /\ \A a \in Agent : Releasing(a)' <=> Releasing(a)
             /\ \A a \in Agent : Releasing(a) => with'[a] = with[a]
  BY <1>6 DEF PostStep, AllocFails, Store, Reuse, StageBuffer, StageRegion, Accept, Inject, Refuse,
     Delete, Releasing, Goto
<1>7. ASSUME NEW r \in Resolver, ResolverStep(r)
      PROVE  /\ UNCHANGED <<allocated, ptr, closed>>
             /\ \A a \in Agent : Releasing(a)' <=> Releasing(a)
             /\ \A a \in Agent : Releasing(a) => with'[a] = with[a]
  BY <1>7 DEF ResolverStep, Read, Resolve, ResolveUnknown, Releasing, Goto
<1>8. ASSUME NEW a \in Agent, SwapLost(a) \/ Body(a)
      PROVE  /\ UNCHANGED <<allocated, ptr, closed>>
             /\ \A b \in Agent : Releasing(b)' <=> Releasing(b)
             /\ \A b \in Agent : Releasing(b) => with'[b] = with[b]
  BY <1>8 DEF SwapLost, Body, Leave, Releasing, Goto
<1>9. ASSUME UNCHANGED <<at, with, allocated, ptr, closed>>
      PROVE  \A q \in allocated' : \E c \in Ctx : Owner(q, c)'
  BY <1>5, <1>9 DEF Releasing
<1> QED
  BY <1>2, <1>3, <1>4, <1>5, <1>6, <1>7, <1>8, <1>9 DEF Next, ReleaseStep, Deliver, vars

\* A post that returns without a context has released the one it took, and
\* every pointer from malloc has a context and a post that still knows it.
THEOREM FailedPostsRelease == Spec => []NoLeak
<1> USE ContextAssumption DEF ContextInv, TypeOK, Agent, Goto
<1>1. Init => NoLeak
  BY DEF Init, NoLeak
<1>2. ASSUME ContextInv, NoLeak, [Next]_vars PROVE NoLeak'
  <2>0. /\ \A p \in Post : with[p] # NoCtx => with'[p] = with[p]
        /\ \A c \in Ctx : closed[c] => closed'[c]
    BY <1>2, PostsKeepContexts, ClosedStays
  <2>0a. \A q \in allocated' : \E c \in Ctx : Owner(q, c)'
    BY <1>2, OwnersKept DEF NoLeak, Owner
  <2> SUFFICES ASSUME NEW p \in Post, at'[p] = "returned", with'[p] # NoCtx
               PROVE  closed'[with'[p]]
    BY <2>0a DEF NoLeak, Owner
  <2>1. CASE at[p] = "returned"
    <3>1. with[p] # NoCtx => closed[with[p]] /\ with[p] \in Ctx
      BY <1>2, <2>1 DEF NoLeak
    <3>2. with[p] # NoCtx
      BY <1>2, <2>1 DEF Next, vars, Deliver, PostStep, Alloc, AllocFails, Store, Reuse, StageBuffer,
         StageRegion, Accept, Inject, Refuse, Delete, ResolverStep, Read, Resolve, ResolveUnknown,
         ReleaseStep, Swap, SwapLost, Body, Free, Leave
    <3> QED BY <2>0, <3>1, <3>2
  <2>2. CASE at[p] # "returned"
    <3>1. AllocFails(p) \/ SwapLost(p) \/ Free(p)
      <4>1. ASSUME NEW o \in Post, PostStep(o) PROVE AllocFails(p)
        BY <1>2, <2>2, <4>1 DEF PostStep, Alloc, AllocFails, Store, Reuse, StageBuffer,
           StageRegion, Accept, Inject, Refuse, Delete
      <4>2. ASSUME NEW r \in Resolver, ResolverStep(r) PROVE FALSE
        BY <1>2, <2>2, <4>2 DEF ResolverStep, Read, Resolve, ResolveUnknown
      <4>3. ASSUME NEW a \in Agent, ReleaseStep(a) PROVE SwapLost(p) \/ Free(p)
        BY <1>2, <2>2, <4>3 DEF ReleaseStep, Swap, SwapLost, Body, Free, Leave
      <4> QED BY <1>2, <2>2, <4>1, <4>2, <4>3 DEF Next, vars, Deliver
    <3>2. CASE AllocFails(p)
      BY <1>2, <3>2 DEF AllocFails, AgentInv
    <3>3. CASE SwapLost(p)
      BY <1>2, <3>3 DEF SwapLost, Leave
    <3>4. CASE Free(p)
      BY <1>2, <3>4 DEF Free, Leave, ReleaseInv, Releasing
    <3> QED BY <3>1, <3>2, <3>3, <3>4
  <2> QED BY <2>1, <2>2
<1>3. QED
  <2>1. ContextInv /\ NoLeak /\ [Next]_vars => NoLeak'
    BY <1>2
  <2> QED BY <1>1, <2>1, ContextCorrect, PTL DEF Spec

\* Every step keeps what is known of callbacks that have run.
LEMMA RunNext == ASSUME ContextInv, OwnInv, RunInv, [Next]_vars PROVE RunInv'
<1> USE ContextAssumption DEF ContextInv, TypeOK, Agent, Goto
<1>0. /\ \A p \in Post : with[p] # NoCtx => with'[p] = with[p]
      /\ \A c \in Ctx : closed[c] => closed'[c]
      /\ Unshared' => Unshared
  BY PostsKeepContexts, ClosedStays, StaysShared
<1>1. \A p \in Post : prov[p] = "read" => prov'[p] = "read"
  BY DEF Next, vars, caller, Deliver, PostStep, Alloc, AllocFails, Store, Reuse, StageBuffer, StageRegion,
     Accept, AgentInv, Inject, Refuse, Delete, ResolverStep, Read, Resolve, ResolveUnknown, ReleaseStep,
     Swap, SwapLost, Body, Free
\* What a step must not do: count again, or let a new agent release c.
<1>2. ASSUME NEW c \in Ctx, runs[c] > 0, runs'[c] = runs[c],
             \A a \in Agent : with'[a] = c /\ at'[a] \in {"delete", "body"}
                              => with[a] = c /\ at[a] \in {"delete", "body"}
      PROVE  /\ runs'[c] = 1
             /\ closed'[c]
             /\ \A a \in Agent : with'[a] = c => at'[a] \notin {"delete", "body"}
             /\ Unshared' => \E p \in Post : with'[p] = c /\ prov'[p] = "read"
  BY <1>0, <1>1, <1>2 DEF RunInv
<1>3. ASSUME UNCHANGED runs,
             \A a \in Agent : at'[a] \in {"delete", "body"}
                              => with[a] = with'[a] /\ at[a] \in {"delete", "body"}
      PROVE  RunInv'
  <2> SUFFICES ASSUME NEW c \in Ctx, runs[c] > 0
               PROVE  /\ runs'[c] = 1
                      /\ closed'[c]
                      /\ \A a \in Agent : with'[a] = c => at'[a] \notin {"delete", "body"}
                      /\ Unshared' => \E p \in Post : with'[p] = c /\ prov'[p] = "read"
    BY <1>3 DEF RunInv
  <2> QED BY <1>2, <1>3
<1>4. ASSUME NEW p \in Post, PostStep(p) PROVE RunInv'
  <2>1. UNCHANGED runs
    BY <1>4 DEF PostStep, Alloc, AllocFails, Store, Reuse, StageBuffer, StageRegion, Accept, Inject,
       Refuse, Delete
  <2>2. \A a \in Agent : at'[a] \in {"delete", "body"} => with[a] = with'[a] /\ at[a] \in {"delete", "body"}
    BY <1>4 DEF PostStep, Alloc, AllocFails, Store, Reuse, StageBuffer, StageRegion, Accept, Inject,
       Refuse, Delete
  <2> QED BY <1>3, <2>1, <2>2
<1>5. ASSUME NEW r \in Resolver, ResolverStep(r) PROVE RunInv'
  <2>1. UNCHANGED runs
    BY <1>5 DEF ResolverStep, Read, Resolve, ResolveUnknown
  <2>2. \A a \in Agent : at'[a] \in {"delete", "body"} => with[a] = with'[a] /\ at[a] \in {"delete", "body"}
    BY <1>5 DEF ResolverStep, Read, Resolve, ResolveUnknown
  <2> QED BY <1>3, <2>1, <2>2
<1>6. ASSUME NEW a \in Agent, Swap(a) PROVE RunInv'
  <2>1. ~closed[with[a]] /\ with' = with /\ runs' = runs
    BY <1>6 DEF Swap
  <2>2. \A b \in Agent \ {a} : at'[b] = at[b]
    BY <1>6 DEF Swap
  <2>3. \A c \in Ctx : runs[c] > 0 => with[a] # c
    BY <2>1 DEF RunInv
  <2> QED BY <1>2, <2>1, <2>2, <2>3 DEF RunInv
<1>7. ASSUME NEW a \in Agent, SwapLost(a) \/ Free(a) PROVE RunInv'
  <2>1. UNCHANGED runs
    BY <1>7 DEF SwapLost, Free
  <2>2. \A b \in Agent : at'[b] \in {"delete", "body"} => with[b] = with'[b] /\ at[b] \in {"delete", "body"}
    BY <1>7 DEF SwapLost, Free, Leave
  <2> QED BY <1>3, <2>1, <2>2
<1>8. ASSUME NEW a \in Agent, Body(a) PROVE RunInv'
  <2>1. PICK c \in Ctx : with[a] = c
    BY <1>8 DEF Body, AgentInv
  <2>2. /\ at[a] = "body" /\ at' = [at EXCEPT ![a] = "free"]
        /\ with' = with /\ prov' = prov /\ closed' = closed
    BY <1>8 DEF Body
  <2>3. /\ closed[c]
        /\ \A b \in Agent \ {a} : at[b] \in {"delete", "body"} => with[b] # c
    BY <2>1, <2>2 DEF ReleaseInv, Releasing
  <2>4. runs[c] = 0
    BY <2>1, <2>2 DEF RunInv
  <2>5. \A d \in Ctx \ {c} : runs'[d] = runs[d]
    BY <1>8, <2>1 DEF Body
  <2>6. ASSUME NEW d \in Ctx \ {c}, runs[d] > 0
        PROVE  /\ runs'[d] = 1
               /\ closed'[d]
               /\ \A b \in Agent : with'[b] = d => at'[b] \notin {"delete", "body"}
               /\ Unshared' => \E p \in Post : with'[p] = d /\ prov'[p] = "read"
    BY <1>2, <2>2, <2>5, <2>6
  <2>7. CASE a \in Resolver
    <3>1. runs'[c] = 1
      BY <1>8, <2>1, <2>4, <2>7 DEF Body
    <3>2. \A b \in Agent : with'[b] = c => at'[b] \notin {"delete", "body"}
      BY <2>2, <2>3
    <3>3. ASSUME Unshared' PROVE \E p \in Post : with'[p] = c /\ prov'[p] = "read"
      <4>1. with[a] = with[hand[a]]
        BY <1>0, <2>2, <2>7, <3>3 DEF OwnInv, Apart, ResolvesOwn
      <4>2. hand[a] \in Post /\ prov[hand[a]] = "read"
        BY <2>2, <2>7 DEF AgentInv
      <4> QED BY <2>1, <2>2, <4>1, <4>2
    <3> QED BY <2>2, <2>3, <2>5, <2>6, <3>1, <3>2, <3>3 DEF RunInv
  <2>8. CASE a \notin Resolver
    <3>1. runs' = runs
      BY <1>8, <2>8 DEF Body
    <3> QED BY <2>4, <2>6, <3>1 DEF RunInv
  <2> QED BY <2>7, <2>8
<1>9. ASSUME NEW p \in Post, NEW ok \in BOOLEAN, Deliver(p, ok) PROVE RunInv'
  BY <1>3, <1>9 DEF Deliver
<1>10. CASE UNCHANGED vars
  BY <1>3, <1>10 DEF vars
<1> QED BY <1>4, <1>5, <1>6, <1>7, <1>8, <1>9, <1>10 DEF Next, ReleaseStep

\* While posts have contexts of their own, callbacks run once, and only for
\* a completion that was read.
THEOREM CallbacksRunOnce == Spec => []CallbacksOnResolve
<1>1. Init => RunInv
  BY DEF Init, RunInv
<1>2. ContextInv /\ OwnInv /\ RunInv /\ [Next]_vars => RunInv'
  BY RunNext
<1>3. RunInv => CallbacksOnResolve
  BY DEF RunInv, CallbacksOnResolve
<1> QED BY <1>1, <1>2, <1>3, ContextCorrect, ContextsStayApart, PTL DEF Spec

\* A step that leaves alone what a copy depends on keeps it.
LEMMA CopyKept ==
  ASSUME NEW p \in Post, CopyOf(p), UNCHANGED <<with[p], used[p], fills[p], filled[p], content[p]>>,
         with[p] # NoCtx => /\ copyBack'[with[p]] = copyBack[with[p]]
                            /\ buffer'[with[p]] = buffer[with[p]]
                            /\ Uncopied(p)' <=> Uncopied(p)
  PROVE  CopyOf(p)'
BY DEF CopyOf

\* So does a step that neither closes a context nor moves an agent into the
\* part of release before the copy or out of it.
LEMMA UncopiedKept ==
  ASSUME NEW p \in Post, with'[p] = with[p], closed'[with[p]] = closed[with[p]],
         \A a \in Agent : at'[a] \in {"delete", "body"} <=> at[a] \in {"delete", "body"},
         \A a \in Agent : at[a] \in {"delete", "body"} => with'[a] = with[a]
  PROVE  Uncopied(p)' <=> Uncopied(p)
BY DEF Uncopied

\* Every step keeps what is known of buffers and copies.
LEMMA CopyNext ==
  ASSUME ContextInv, OwnInv, CopyInv, [Next]_vars, Unshared'
  PROVE  BufferInv' /\ \A p \in Post : CopyOf(p)'
<1> USE ContextAssumption DEF ContextInv, TypeOK, Agent, Goto
<1>0. /\ Unshared /\ Apart /\ BufferInv /\ \A p \in Post : CopyOf(p)
      /\ \A p \in Post : with[p] # NoCtx => with'[p] = with[p]
  BY PostsKeepContexts, StaysShared DEF OwnInv, CopyInv
<1> HIDE DEF Goto
<1>1. ASSUME UNCHANGED <<used, fills, filled, content, buffer, copyBack, closed>>,
             \A p \in Post : with'[p] = with[p],
             \A p \in Post : at'[p] \in {"store", "stage"} => at[p] \in {"store", "stage"},
             \A a \in Agent : at'[a] \in {"delete", "body"} <=> at[a] \in {"delete", "body"},
             \A a \in Agent : at[a] \in {"delete", "body"} => with'[a] = with[a]
      PROVE  BufferInv' /\ \A p \in Post : CopyOf(p)'
  <2>1. BufferInv'
    BY <1>0, <1>1 DEF BufferInv
  <2>2. ASSUME NEW p \in Post PROVE CopyOf(p)'
    <3>1. Uncopied(p)' <=> Uncopied(p)
      BY <1>1, UncopiedKept
    <3> QED BY <1>0, <1>1, <3>1, CopyKept
  <2> QED BY <2>1, <2>2
<1>2. ASSUME NEW p \in Post, NEW c \in Ctx, NEW q \in Ptr, NEW s \in BOOLEAN, Alloc(p, c, q, s)
      PROVE  BufferInv' /\ \A o \in Post : CopyOf(o)'
  <2>1. /\ at[p] = "idle" /\ at' = [at EXCEPT ![p] = "store"]
        /\ with[p] = NoCtx /\ with' = [with EXCEPT ![p] = c] /\ used[p] = NoPost
        /\ UNCHANGED <<used, fills, filled, content, buffer, copyBack, closed>>
    BY <1>0, <1>2 DEF Alloc, AgentInv, Apart, Goto
  <2>2. \A a \in Agent : with[a] # c
    BY <1>2 DEF Alloc, AgentInv
  <2>3. BufferInv'
    <3>1. ASSUME NEW d \in Ctx, \A o \in Post : with'[o] = d => at'[o] \in {"store", "stage"}
          PROVE  buffer'[d] = NoPost
      BY <1>0, <2>1, <2>2, <3>1 DEF BufferInv
    <3>2. ASSUME NEW d \in Ctx, copyBack'[d] # NoPost PROVE with'[copyBack'[d]] = d
      BY <1>0, <2>1, <3>2 DEF BufferInv
    <3> QED BY <1>0, <2>1, <3>1, <3>2 DEF BufferInv
  <2>4. ASSUME NEW o \in Post PROVE CopyOf(o)'
    <3>1. CASE o = p
      BY <2>1, <3>1 DEF CopyOf
    <3>2. CASE o # p
      <4>1. Uncopied(o)' <=> Uncopied(o)
        BY <2>1, <2>2, <3>2, UncopiedKept
      <4> QED BY <1>0, <2>1, <3>2, <4>1, CopyKept
    <3> QED BY <3>1, <3>2
  <2> QED BY <2>3, <2>4
<1>3. ASSUME NEW p \in Post, AllocFails(p) \/ Store(p) \/ Accept(p) \/ Inject(p) \/ Refuse(p) \/ Delete(p)
      PROVE  BufferInv' /\ \A o \in Post : CopyOf(o)'
  <2>1. /\ UNCHANGED <<with, used, fills, filled, content, buffer, copyBack, closed>>
        /\ \A o \in Post : at'[o] \in {"store", "stage"} => at[o] \in {"store", "stage"}
        /\ \A a \in Agent : at'[a] \in {"delete", "body"} <=> at[a] \in {"delete", "body"}
    BY <1>3 DEF AllocFails, Store, Accept, Inject, Refuse, Delete, caller, Goto
  <2> QED BY <1>1, <2>1
<1>4. ASSUME NEW p \in Post, NEW c \in Ctx, Reuse(p, c) PROVE FALSE
  <2>1. PICK o \in Post : with[o] = c
    BY <1>4 DEF Reuse
  <2>2. with[p] = NoCtx /\ with'[p] = c
    BY <1>4 DEF Reuse, AgentInv
  <2> QED BY <1>0, <2>1, <2>2 DEF Unshared
<1>5. ASSUME NEW p \in Post, NEW k \in BOOLEAN, NEW g \in BOOLEAN, StageBuffer(p, k, g)
      PROVE  BufferInv' /\ \A o \in Post : CopyOf(o)'
  <2>1. PICK c \in Ctx : with[p] = c
    BY <1>5 DEF StageBuffer, AgentInv
  <2>2. \A o \in Post : with[o] = c => o = p
    BY <1>0, <2>1 DEF Unshared
  <2>3. buffer[c] = NoPost /\ at[p] = "stage"
    BY <1>0, <1>5, <2>2 DEF BufferInv, StageBuffer
  <2>4. /\ buffer' = [buffer EXCEPT ![c] = p] /\ used' = [used EXCEPT ![p] = p]
        /\ fills' = [fills EXCEPT ![p] = k] /\ at' = [at EXCEPT ![p] = "post"]
        /\ copyBack' = IF k THEN [copyBack EXCEPT ![c] = p] ELSE copyBack
        /\ content' = IF k THEN content ELSE [content EXCEPT ![p] = "staged"]
        /\ UNCHANGED <<with, filled, closed>>
    BY <1>5, <2>1, <2>3 DEF StageBuffer, Goto
  <2>5. ~closed[c]
    BY <1>0, <2>1, <2>3 DEF Apart, Live, Intact
  <2>6. BufferInv'
    <3>1. ASSUME NEW d \in Ctx, \A o \in Post : with'[o] = d => at'[o] \in {"store", "stage"}
          PROVE  buffer'[d] = NoPost
      BY <1>0, <2>1, <2>4, <3>1 DEF BufferInv
    <3>2. ASSUME NEW d \in Ctx, copyBack'[d] # NoPost PROVE with'[copyBack'[d]] = d
      BY <1>0, <2>1, <2>4, <3>2 DEF BufferInv
    <3>3. \A o \in Post : used'[o] \in {NoPost, o}
      BY <1>0, <2>4 DEF BufferInv
    <3> QED BY <3>1, <3>2, <3>3 DEF BufferInv
  <2>7. ASSUME NEW o \in Post PROVE CopyOf(o)'
    <3>1. CASE o = p
      BY <2>1, <2>4, <2>5, <3>1 DEF CopyOf, Uncopied
    <3>2. CASE o # p
      <4>1. \A a \in Agent : at'[a] \in {"delete", "body"} <=> at[a] \in {"delete", "body"}
        BY <2>3, <2>4
      <4>2. Uncopied(o)' <=> Uncopied(o)
        BY <2>4, <4>1, UncopiedKept
      <4>3. with[o] # c
        BY <2>2, <3>2
      <4>4. copyBack'[with[o]] = copyBack[with[o]] /\ buffer'[with[o]] = buffer[with[o]]
        BY <2>4, <4>3
      <4>5. content'[o] = content[o] /\ used'[o] = used[o] /\ fills'[o] = fills[o]
        BY <2>4, <3>2
      <4> QED BY <1>0, <2>4, <4>2, <4>4, <4>5, CopyKept
    <3> QED BY <3>1, <3>2
  <2> QED BY <2>6, <2>7
<1>6. ASSUME NEW p \in Post, NEW k \in BOOLEAN, StageRegion(p, k)
      PROVE  BufferInv' /\ \A o \in Post : CopyOf(o)'
  <2>1. PICK c \in Ctx : with[p] = c
    BY <1>6 DEF StageRegion, AgentInv
  <2>2. /\ at[p] = "stage" /\ at' = [at EXCEPT ![p] = "post"] /\ used[p] = NoPost
        /\ fills' = [fills EXCEPT ![p] = k]
        /\ copyBack' = IF k THEN [copyBack EXCEPT ![c] = p] ELSE copyBack
        /\ UNCHANGED <<with, used, buffer, content, filled, closed>>
    BY <1>0, <1>6, <2>1 DEF StageRegion, Apart, Goto
  <2>3. BufferInv'
    <3>1. ASSUME NEW d \in Ctx, \A o \in Post : with'[o] = d => at'[o] \in {"store", "stage"}
          PROVE  buffer'[d] = NoPost
      BY <1>0, <2>1, <2>2, <3>1 DEF BufferInv
    <3>2. ASSUME NEW d \in Ctx, copyBack'[d] # NoPost PROVE with'[copyBack'[d]] = d
      BY <1>0, <2>1, <2>2, <3>2 DEF BufferInv
    <3> QED BY <1>0, <2>2, <3>1, <3>2 DEF BufferInv
  <2>4. ASSUME NEW o \in Post PROVE CopyOf(o)'
    <3>1. CASE o = p
      BY <2>2, <3>1 DEF CopyOf
    <3>2. CASE o # p
      <4>1. \A a \in Agent : at'[a] \in {"delete", "body"} <=> at[a] \in {"delete", "body"}
        BY <2>2
      <4>2. Uncopied(o)' <=> Uncopied(o)
        BY <2>2, <4>1, UncopiedKept
      <4>3. with[o] # c
        BY <1>0, <2>1, <3>2 DEF Unshared
      <4>4. copyBack'[with[o]] = copyBack[with[o]] /\ fills'[o] = fills[o]
        BY <2>2, <3>2, <4>3
      <4> QED BY <1>0, <2>2, <4>2, <4>4, CopyKept
    <3> QED BY <3>1, <3>2
  <2> QED BY <2>3, <2>4
<1>7. ASSUME NEW p \in Post, NEW ok \in BOOLEAN, Deliver(p, ok)
      PROVE  BufferInv' /\ \A o \in Post : CopyOf(o)'
  <2>1. /\ prov[p] = "pending"
        /\ content' = IF ok /\ fills[p] /\ used[p] # NoPost
                      THEN [content EXCEPT ![used[p]] = "received"] ELSE content
        /\ UNCHANGED <<at, with, used, fills, filled, buffer, copyBack, closed>>
    BY <1>7 DEF Deliver
  <2>2. BufferInv'
    BY <1>0, <2>1 DEF BufferInv
  <2>3. ~closed[with[p]]
    BY <1>0, <2>1 DEF Apart, Live, Intact
  <2>4. ASSUME NEW o \in Post PROVE CopyOf(o)'
    <3>1. Uncopied(o)' <=> Uncopied(o)
      BY <2>1 DEF Uncopied
    <3>2. CASE o = p
      <4>1. Uncopied(p)
        BY <2>3 DEF Uncopied
      <4> QED BY <1>0, <2>1, <3>1, <3>2, <4>1 DEF CopyOf
    <3>3. CASE o # p
      <4>1. content'[o] = content[o]
        BY <1>0, <2>1, <3>3 DEF BufferInv
      <4> QED BY <1>0, <2>1, <3>1, <4>1, CopyKept
    <3> QED BY <3>2, <3>3
  <2> QED BY <2>2, <2>4
<1>8. ASSUME NEW r \in Resolver, ResolverStep(r)
      PROVE  BufferInv' /\ \A o \in Post : CopyOf(o)'
  <2>1. /\ UNCHANGED <<used, fills, filled, content, buffer, copyBack, closed>>
        /\ \A a \in Agent \ {r} : with'[a] = with[a] /\ at'[a] = at[a]
        /\ at[r] \in {"idle", "resolve"} /\ at'[r] \in {"idle", "resolve", "swap"}
    BY <1>8 DEF ResolverStep, Read, Resolve, ResolveUnknown, caller, Goto
  <2>2. \A o \in Post : with'[o] = with[o] /\ at'[o] = at[o]
    BY <2>1
  <2>3. \A a \in Agent : at'[a] \in {"delete", "body"} <=> at[a] \in {"delete", "body"}
    BY <2>1
  <2>4. \A a \in Agent : at[a] \in {"delete", "body"} => with'[a] = with[a]
    BY <2>1
  <2> QED BY <1>1, <2>1, <2>2, <2>3, <2>4
<1>9. ASSUME NEW a \in Agent, SwapLost(a) \/ Free(a)
      PROVE  BufferInv' /\ \A o \in Post : CopyOf(o)'
  <2>1. /\ UNCHANGED <<used, fills, filled, content, buffer, copyBack, closed>>
        /\ at[a] \in {"swap", "free"} /\ at'[a] \in {"returned", "idle"}
        /\ \A b \in Agent \ {a} : with'[b] = with[b] /\ at'[b] = at[b]
        /\ \A o \in Post : with'[o] = with[o]
    BY <1>9 DEF SwapLost, Free, Leave, caller, Goto
  <2>2. \A b \in Agent : at'[b] \in {"delete", "body"} <=> at[b] \in {"delete", "body"}
    BY <2>1
  <2>3. \A b \in Agent : at[b] \in {"delete", "body"} => with'[b] = with[b]
    BY <2>1
  <2>4. \A o \in Post : at'[o] \in {"store", "stage"} => at[o] \in {"store", "stage"}
    BY <2>1
  <2> QED BY <1>1, <2>1, <2>2, <2>3, <2>4
<1>10. ASSUME NEW a \in Agent, Swap(a)
       PROVE  BufferInv' /\ \A o \in Post : CopyOf(o)'
  <2>1. PICK c \in Ctx : with[a] = c
    BY <1>10 DEF Swap, AgentInv
  <2>2. /\ at[a] = "swap" /\ at'[a] \in {"delete", "body"}
        /\ \A b \in Agent \ {a} : at'[b] = at[b]
        /\ ~closed[c] /\ closed' = [closed EXCEPT ![c] = TRUE]
        /\ UNCHANGED <<with, used, fills, filled, content, buffer, copyBack>>
    BY <1>10, <2>1 DEF Swap, caller, Goto
  <2>3. BufferInv'
    BY <1>0, <2>2 DEF BufferInv
  <2>4. ASSUME NEW o \in Post PROVE CopyOf(o)'
    <3>1. with[o] # NoCtx => (Uncopied(o)' <=> Uncopied(o))
      <4>1. CASE with[o] = c
        <5>1. Uncopied(o) /\ Uncopied(o)'
          BY <2>1, <2>2, <4>1 DEF Uncopied
        <5> QED BY <5>1
      <4>2. CASE with[o] # c
        BY <2>1, <2>2, <4>2 DEF Uncopied
      <4> QED BY <4>1, <4>2
    <3> QED BY <1>0, <2>2, <3>1, CopyKept
  <2> QED BY <2>3, <2>4
<1>11. ASSUME NEW a \in Agent, Body(a)
       PROVE  BufferInv' /\ \A o \in Post : CopyOf(o)'
  <2>1. PICK c \in Ctx : with[a] = c
    BY <1>11 DEF Body, AgentInv
  <2>2. /\ at[a] = "body" /\ at' = [at EXCEPT ![a] = "free"]
        /\ filled' = IF copyBack[c] # NoPost /\ buffer[c] # NoPost
                     THEN [filled EXCEPT ![copyBack[c]] = content[buffer[c]]] ELSE filled
        /\ buffer' = [buffer EXCEPT ![c] = NoPost] /\ copyBack' = [copyBack EXCEPT ![c] = NoPost]
        /\ UNCHANGED <<with, used, fills, content, closed>>
    BY <1>11, <2>1 DEF Body, Goto
  <2>3. /\ closed[c]
        /\ \A b \in Agent \ {a} : at[b] \in {"delete", "body"} => with[b] # c
    BY <2>1, <2>2 DEF ReleaseInv, Releasing
  <2>4. BufferInv'
    <3>1. ASSUME NEW d \in Ctx, \A o \in Post : with'[o] = d => at'[o] \in {"store", "stage"}
          PROVE  buffer'[d] = NoPost
      <4>1. \A o \in Post : at'[o] \in {"store", "stage"} => at[o] \in {"store", "stage"}
        BY <2>2
      <4> QED BY <1>0, <2>2, <3>1, <4>1 DEF BufferInv
    <3>2. ASSUME NEW d \in Ctx, copyBack'[d] # NoPost PROVE with'[copyBack'[d]] = d
      BY <1>0, <2>2, <3>2 DEF BufferInv
    <3> QED BY <1>0, <2>2, <3>1, <3>2 DEF BufferInv
  <2>5. ASSUME NEW o \in Post PROVE CopyOf(o)'
    <3>1. CASE with[o] = c
      <4>1. Uncopied(o)
        BY <2>1, <2>2, <3>1 DEF Uncopied
      <4>2. ~Uncopied(o)'
        BY <2>2, <2>3, <3>1 DEF Uncopied
      <4>3. fills[o] /\ used[o] # NoPost => filled'[o] = content[o]
        BY <1>0, <2>2, <3>1, <4>1 DEF CopyOf
      <4> QED BY <2>2, <3>1, <4>2, <4>3 DEF CopyOf
    <3>2. CASE with[o] # c
      <4>1. Uncopied(o)' <=> Uncopied(o)
        BY <2>1, <2>2, <3>2 DEF Uncopied
      <4>2. filled'[o] = filled[o]
        BY <1>0, <2>2, <3>2 DEF BufferInv
      <4>3. with[o] # NoCtx => copyBack'[with[o]] = copyBack[with[o]] /\ buffer'[with[o]] = buffer[with[o]]
        BY <2>2, <3>2
      <4> QED BY <1>0, <2>2, <4>1, <4>2, <4>3, CopyKept
    <3> QED BY <3>1, <3>2
  <2> QED BY <2>4, <2>5
<1>12. CASE UNCHANGED vars
  BY <1>1, <1>12 DEF vars
<1> QED
  BY <1>2, <1>3, <1>4, <1>5, <1>6, <1>7, <1>8, <1>9, <1>10, <1>11, <1>12 DEF Next, PostStep, ReleaseStep

\* While posts have contexts of their own, release leaves a receive that
\* arrived in the caller's buffer.
THEOREM ReceivesAreCopied == Spec => []ReceivedIsCopied
<1>1. Init => CopyInv
  BY DEF Init, CopyInv, BufferInv, CopyOf
<1>2. ContextInv /\ OwnInv /\ CopyInv /\ [Next]_vars => CopyInv'
  BY CopyNext DEF CopyInv
<1>3. CopyInv => ReceivedIsCopied
  BY DEF CopyInv, BufferInv, CopyOf, Uncopied, ReceivedIsCopied
<1> QED BY <1>1, <1>2, <1>3, ContextCorrect, ContextsStayApart, PTL DEF Spec
-----------------------------------------------------------------------------
(* Contexts implement the abstract delivery (module Delivery).             *)

\* One post gets further, its context is turned over, or neither.
LEMMA Advanced ==
  ASSUME NEW p \in Post, NEW v, Progress(p)' = v,
         \A o \in Post \ {p} : Progress(o)' = Progress(o)
  PROVE  D!Advance(p, v)
BY DEF D!Advance

LEMMA Turned ==
  ASSUME NEW p \in Post, NEW v, Standing(p)' = v,
         \A o \in Post \ {p} : Standing(o)' = Standing(o)
  PROVE  D!Turn(p, v)
BY DEF D!Turn

LEMMA ProgressKept ==
  ASSUME UNCHANGED prov PROVE UNCHANGED [p \in Post |-> Progress(p)]
<1>1. \A p \in Post : Progress(p)' = Progress(p)
  BY DEF Progress
<1> QED BY <1>1

LEMMA StandingsKept ==
  ASSUME \A p \in Post : Standing(p)' = Standing(p)
  PROVE  UNCHANGED [p \in Post |-> Standing(p)]
OBVIOUS

\* The standing of a post depends on its context, on its pointer and on
\* whether the registry has it.
LEMMA SameStanding ==
  ASSUME NEW p \in Post, with'[p] = with[p], at'[p] = "store" <=> at[p] = "store",
         with[p] # NoCtx => Found(p)' <=> Found(p)
  PROVE  Standing(p)' = Standing(p)
BY DEF Standing

\* Two posts that have not given up their contexts have different pointers.
LEMMA OnePointer ==
  ASSUME ContextInv, Unshared, NEW p \in Post, NEW o \in Post,
         with[p] \in Ctx, Holds(with[p]), Found(o), with[o] \in Ctx,
         ptr[with[o]] = ptr[with[p]]
  PROVE  o = p
<1>1. Holds(with[o])
  <2>1. ptr[with[o]] \in Ptr
    BY DEF ContextInv, TypeOK, Holds
  <2> QED BY <2>1, ContextAssumption DEF ContextInv, RegistryLive, Found
<1> QED BY <1>1, ContextAssumption DEF ContextInv, HoldInv, Unshared

\* A step that leaves the registry and the pointers alone turns no context.
LEMMA RegistryKept ==
  ASSUME UNCHANGED <<registry, ptr>>, \A p \in Post : with'[p] = with[p],
         \A p \in Post : at'[p] = "store" <=> at[p] = "store"
  PROVE  \A p \in Post : Standing(p)' = Standing(p)
BY SameStanding DEF Found

\* A step of a post makes its context, or hands it over, or withdraws it.
LEMMA PostDelivery ==
  ASSUME ContextInv, OwnInv, NEW p \in Post, PostStep(p), Unshared, Unshared'
  PROVE  D!Next \/ UNCHANGED D!vars
<1> USE ContextAssumption DEF ContextInv, TypeOK, Agent
<1>0. Apart
  BY DEF OwnInv
<1>1. ASSUME NEW c \in Ctx, NEW q \in Ptr, NEW s \in BOOLEAN, Alloc(p, c, q, s)
      PROVE  UNCHANGED D!vars
  <2>1. /\ with' = [with EXCEPT ![p] = c] /\ ptr' = [ptr EXCEPT ![c] = q] /\ ptr[c] = NoPtr
        /\ with[p] = NoCtx /\ at[p] = "idle" /\ at' = [at EXCEPT ![p] = "store"]
        /\ UNCHANGED <<prov, registry>>
    BY <1>1 DEF Alloc, AgentInv, Goto
  <2>2. Standing(p)' = Standing(p)
    BY <2>1 DEF Standing
  <2>3. ASSUME NEW o \in Post, o # p PROVE Standing(o)' = Standing(o)
    <3>1. with[o] # c
      BY <2>1 DEF AgentInv
    <3> QED BY <2>1, <2>3, <3>1, SameStanding DEF Found
  <2> QED BY <2>1, <2>2, <2>3, ProgressKept, StandingsKept DEF D!vars
<1>2. ASSUME Store(p) PROVE D!Register(p)
  <2>1. PICK c \in Ctx : with[p] = c /\ ptr[c] \in Ptr
    BY <1>2 DEF Store, AgentInv
  <2>2. /\ at[p] = "store" /\ at' = [at EXCEPT ![p] = "stage"]
        /\ registry' = [registry EXCEPT ![ptr[c]] = c]
        /\ UNCHANGED <<with, prov, ptr>>
    BY <1>2, <2>1 DEF Store, Goto, caller
  <2>3. Progress(p) = "unposted" /\ Standing(p) = "none" /\ Holds(c)
    BY <2>1, <2>2 DEF Progress, Standing, AgentInv, StoreInv, Holds
  <2>4. Standing(p)' = "registered"
    BY <2>1, <2>2 DEF Standing, Found
  <2>5. ASSUME NEW o \in Post, o # p PROVE Standing(o)' = Standing(o)
    <3>1. with[o] # NoCtx => with[o] \in Ctx /\ with[o] # c
      BY <2>1, <2>5 DEF Unshared
    <3>2. CASE with[o] # NoCtx /\ ptr[with[o]] = ptr[c]
      <4>1. ~Found(o)
        BY <2>1, <2>3, <2>5, <3>1, <3>2, OnePointer
      <4>2. ~Found(o)'
        BY <2>1, <2>2, <3>1, <3>2 DEF Found
      <4> QED BY <2>2, <2>5, <4>1, <4>2, SameStanding
    <3>3. CASE with[o] # NoCtx /\ ptr[with[o]] # ptr[c]
      BY <2>2, <2>5, <3>3, SameStanding DEF Found
    <3>4. CASE with[o] = NoCtx
      BY <2>2, <2>5, <3>4, SameStanding
    <3> QED BY <3>2, <3>3, <3>4
  <2>6. D!Turn(p, "registered")
    BY <2>4, <2>5, Turned
  <2> QED BY <2>2, <2>3, <2>6, ProgressKept DEF D!Register
<1>3. ASSUME NEW c \in Ctx, Reuse(p, c) PROVE FALSE
  <2>1. PICK o \in Post : with[o] = c
    BY <1>3 DEF Reuse
  <2>2. with[p] = NoCtx /\ with'[p] = c /\ (o # p => with'[o] = c)
    BY <1>3, <2>1 DEF Reuse, AgentInv
  <2> QED BY <2>1, <2>2 DEF Unshared
<1>4. ASSUME \/ AllocFails(p) \/ Inject(p) \/ Refuse(p)
             \/ \E recv, grow \in BOOLEAN : StageBuffer(p, recv, grow)
             \/ \E copy \in BOOLEAN : StageRegion(p, copy)
      PROVE  UNCHANGED D!vars
  <2>1. /\ UNCHANGED <<with, prov, ptr, registry>>
        /\ at[p] # "store" /\ at'[p] # "store" /\ \A o \in Post \ {p} : at'[o] = at[o]
    BY <1>4 DEF AllocFails, Inject, Refuse, StageBuffer, StageRegion, Goto, caller
  <2> QED BY <2>1, RegistryKept, ProgressKept, StandingsKept DEF D!vars
<1>5. ASSUME Accept(p) PROVE D!Submit(p)
  <2>1. /\ at[p] = "post" /\ at' = [at EXCEPT ![p] = "posted"] /\ with[p] \in Ctx
        /\ prov' = [prov EXCEPT ![p] = "pending"]
        /\ UNCHANGED <<with, ptr, registry>>
    BY <1>5 DEF Accept, Goto, AgentInv
  <2>2. Standing(p) = "registered"
    BY <1>0, <2>1 DEF Apart, Live, Intact, Standing, Found
  <2>3. Progress(p) = "unposted"
    BY <2>1 DEF AgentInv, Progress
  <2>4. \A o \in Post : Standing(o)' = Standing(o)
    BY <2>1, RegistryKept
  <2>5. Progress(p)' = "posted" /\ \A o \in Post \ {p} : Progress(o)' = Progress(o)
    BY <2>1 DEF Progress
  <2> QED BY <2>2, <2>3, <2>4, <2>5, Advanced, Turned DEF D!Submit
<1>6. ASSUME Delete(p) PROVE D!Withdraw(p) \/ UNCHANGED D!vars
  <2>1. PICK c \in Ctx : with[p] = c /\ ptr[c] \in Ptr
    BY <1>6 DEF Delete, AgentInv
  <2>2. /\ at[p] = "delete" /\ at' = [at EXCEPT ![p] = "body"]
        /\ registry' = [registry EXCEPT ![ptr[c]] = NoCtx]
        /\ UNCHANGED <<with, prov, ptr>>
    BY <1>6, <2>1 DEF Delete, Goto, caller
  <2>3. Progress(p) = "unposted" /\ Holds(c)
    BY <2>1, <2>2 DEF Progress, AgentInv, Holds, Releasing
  <2>4. Standing(p)' = "released"
    BY <2>1, <2>2 DEF Standing, Found
  <2>5. ASSUME NEW o \in Post, o # p PROVE Standing(o)' = Standing(o)
    <3>1. CASE with[o] # NoCtx /\ ptr[with[o]] = ptr[c]
      <4>1. ~Found(o)
        BY <2>1, <2>3, <2>5, <3>1, OnePointer
      <4>2. ~Found(o)'
        BY <2>1, <2>2, <3>1 DEF Found
      <4> QED BY <2>2, <2>5, <4>1, <4>2, SameStanding
    <3>2. CASE with[o] # NoCtx /\ ptr[with[o]] # ptr[c]
      BY <2>2, <2>5, <3>2, SameStanding DEF Found
    <3>3. CASE with[o] = NoCtx
      BY <2>2, <2>5, <3>3, SameStanding
    <3> QED BY <3>1, <3>2, <3>3
  <2>6. CASE Found(p)
    <3>1. Standing(p) = "registered"
      BY <2>1, <2>2, <2>6 DEF Standing
    <3> QED BY <2>2, <2>3, <2>4, <2>5, <3>1, ProgressKept, Turned DEF D!Withdraw
  <2>7. CASE ~Found(p)
    <3>1. Standing(p) = "released"
      BY <2>1, <2>2, <2>7 DEF Standing
    <3> QED BY <2>2, <2>4, <2>5, <3>1, ProgressKept, StandingsKept DEF D!vars
  <2> QED BY <2>6, <2>7
<1> QED BY <1>1, <1>2, <1>3, <1>4, <1>5, <1>6 DEF PostStep, D!Next

\* A resolver reads a completion and resolves the context of that operation.
LEMMA ResolverDelivery ==
  ASSUME ContextInv, OwnInv, NEW r \in Resolver, ResolverStep(r), Unshared
  PROVE  D!Next \/ UNCHANGED D!vars
<1> USE ContextAssumption DEF ContextInv, TypeOK, Agent
<1>0. Apart
  BY DEF OwnInv
<1>1. \A p \in Post : at'[p] = at[p] /\ with'[p] = with[p]
  BY DEF ResolverStep, Read, Resolve, ResolveUnknown, Goto
<1>2. ASSUME NEW p \in Post, Read(r, p) PROVE D!Read(p)
  <2>1. prov[p] = "event" /\ prov' = [prov EXCEPT ![p] = "read"] /\ UNCHANGED <<ptr, registry>>
    BY <1>2 DEF Read
  <2>2. \A o \in Post : Standing(o)' = Standing(o)
    BY <1>1, <2>1, RegistryKept
  <2>3. Progress(p) = "reported" /\ Progress(p)' = "read"
        /\ \A o \in Post \ {p} : Progress(o)' = Progress(o)
    BY <2>1 DEF Progress
  <2> QED BY <2>2, <2>3, Advanced, StandingsKept DEF D!Read
<1>3. ASSUME Resolve(r) PROVE \E p \in Post : D!Resolve(p)
  <2>1. PICK p \in Post : hand[r] = p /\ prov[p] = "read" /\ at[r] = "resolve"
    BY <1>3 DEF Resolve, AgentInv
  <2>2. Live(p) /\ Intact(p) /\ at[p] = "posted" /\ with[p] \in Ctx /\ ptr[with[p]] \in Ptr
    BY <1>0, <2>1 DEF Apart, Live, AgentInv
  <2>3. /\ registry' = [registry EXCEPT ![ptr[with[p]]] = NoCtx]
        /\ UNCHANGED <<prov, ptr>>
    BY <1>3, <2>1 DEF Resolve, Pointer, caller
  <2>4. Progress(p) = "read" /\ Standing(p) = "registered" /\ Holds(with[p])
    BY <2>1, <2>2 DEF Progress, Standing, Found, Intact, Holds
  <2>5. Standing(p)' = "released"
    BY <1>1, <2>2, <2>3 DEF Standing, Found
  <2>6. ASSUME NEW o \in Post, o # p PROVE Standing(o)' = Standing(o)
    <3>1. CASE with[o] # NoCtx /\ ptr[with[o]] = ptr[with[p]]
      <4>1. ~Found(o)
        BY <2>2, <2>4, <2>6, <3>1, OnePointer
      <4>2. ~Found(o)'
        BY <1>1, <2>2, <2>3, <3>1 DEF Found
      <4> QED BY <1>1, <2>6, <4>1, <4>2, SameStanding
    <3>2. CASE with[o] # NoCtx /\ ptr[with[o]] # ptr[with[p]]
      BY <1>1, <2>3, <2>6, <3>2, SameStanding DEF Found
    <3>3. CASE with[o] = NoCtx
      BY <1>1, <2>6, <3>3, SameStanding
    <3> QED BY <3>1, <3>2, <3>3
  <2> QED BY <2>3, <2>4, <2>5, <2>6, ProgressKept, Turned DEF D!Resolve
<1>4. ASSUME ResolveUnknown(r) PROVE UNCHANGED D!vars
  <2>1. UNCHANGED <<prov, ptr, registry>>
    BY <1>4 DEF ResolveUnknown, caller
  <2> QED BY <1>1, <2>1, RegistryKept, ProgressKept, StandingsKept DEF D!vars
<1> QED BY <1>2, <1>3, <1>4 DEF ResolverStep, D!Next

\* Every step that leaves contexts unshared is a step of the abstract
\* delivery, or none.
LEMMA StepIsDelivery ==
  ASSUME ContextInv, OwnInv, [Next]_vars, Unshared'
  PROVE  D!Next \/ UNCHANGED D!vars
<1> USE ContextAssumption DEF ContextInv, TypeOK, Agent
<1>0. Unshared
  BY StaysShared
<1>1. ASSUME NEW p \in Post, PostStep(p) PROVE D!Next \/ UNCHANGED D!vars
  BY <1>0, <1>1, PostDelivery
<1>2. ASSUME NEW r \in Resolver, ResolverStep(r) PROVE D!Next \/ UNCHANGED D!vars
  BY <1>0, <1>2, ResolverDelivery
<1>3. ASSUME NEW a \in Agent, ReleaseStep(a) PROVE UNCHANGED D!vars
  <2>1. /\ UNCHANGED <<prov, ptr, registry>>
        /\ \A p \in Post : with'[p] = with[p]
        /\ \A p \in Post : at'[p] = "store" <=> at[p] = "store"
    BY <1>3 DEF ReleaseStep, Swap, SwapLost, Body, Free, Leave, Goto, caller
  <2> QED BY <2>1, RegistryKept, ProgressKept, StandingsKept DEF D!vars
<1>4. ASSUME NEW p \in Post, NEW ok \in BOOLEAN, Deliver(p, ok) PROVE D!Report(p)
  <2>1. prov[p] = "pending" /\ prov' = [prov EXCEPT ![p] = "event"]
        /\ UNCHANGED <<at, with, ptr, registry>>
    BY <1>4 DEF Deliver
  <2>2. \A o \in Post : Standing(o)' = Standing(o)
    BY <2>1, RegistryKept
  <2>3. Progress(p) = "posted" /\ Progress(p)' = "reported"
        /\ \A o \in Post \ {p} : Progress(o)' = Progress(o)
    BY <2>1 DEF Progress
  <2> QED BY <2>2, <2>3, Advanced, StandingsKept DEF D!Report
<1>5. CASE UNCHANGED vars
  BY <1>5, RegistryKept, ProgressKept, StandingsKept DEF vars, D!vars
<1> QED BY <1>1, <1>2, <1>3, <1>4, <1>5 DEF Next, D!Next

\* While posts have contexts of their own, pointers that malloc recycles, a
\* shared registry and overlapping releases deliver every completion to its
\* own context, once, and withdraw none that the provider still has.
THEOREM ContextsImplementDelivery == Spec => ImplementsDelivery
<1>1. Init => D!Init
  BY DEF Init, D!Init, Progress, Standing, Agent
<1>2. ContextInv /\ OwnInv /\ [Next]_vars => [Unshared' => D!Next \/ UNCHANGED D!vars]_vars
  BY StepIsDelivery
<1> QED BY <1>1, <1>2, ContextCorrect, ContextsStayApart, PTL DEF Spec, ImplementsDelivery
=============================================================================
