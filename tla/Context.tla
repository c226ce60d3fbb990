------------------------------ MODULE Context ------------------------------
(***************************************************************************)
(* CompletionContext (fi/context.go) and the post calls that use it        *)
(* (fi/messaging.go, fi/tagged.go, fi/rma.go).  A context owns a pointer   *)
(* from malloc, which the provider gives back with the completion and      *)
(* which contextRegistry maps to the context, and the buffer in which a    *)
(* payload is staged.  Its memory goes back to malloc when the post fails  *)
(* (Release) or the completion is resolved (resolveCompletion); the next   *)
(* context may get the same pointer.                                       *)
(*                                                                         *)
(* An element of Post is one call of a post function; an element of        *)
(* Resolver is a goroutine that reads completions and resolves them.  A    *)
(* caller may pass one context to several posts.                           *)
(***************************************************************************)
EXTENDS Naturals

CONSTANTS Post, Resolver, Ctx, Ptr, NoPost, NoCtx, NoPtr

ASSUME ContextAssumption ==
  /\ Post \cap Resolver = {}
  /\ NoPost \notin Post
  /\ NoCtx \notin Ctx
  /\ NoPtr \notin Ptr

Agent == Post \cup Resolver

VARIABLES
  at,        \* where each post and each resolver is
  with,      \* the context it works on
  supplied,  \* the caller passed the context in the request
  fills,     \* the post asks release to fill the caller's buffer
  used,      \* the staging buffer the provider was given, named by its first user
  prov,      \* what the provider did with the post
  hand,      \* the post whose completion a resolver has read
  ptr,       \* the pointer of each context
  allocated, \* the pointers malloc has handed out
  registry,  \* contextRegistry
  closed,    \* CompletionContext.closed
  buffer,    \* CompletionContext.buffer
  copyBack,  \* CompletionContext.copyBack: the post whose buffer is to be filled
  runs,      \* how often the callbacks ran
  content,   \* what is in each staging buffer
  filled     \* what release copied into the buffer of each caller

caller == <<supplied, fills, used, prov, filled>>
vars == <<at, with, supplied, fills, used, prov, hand, ptr, allocated,
          registry, closed, buffer, copyBack, runs, content, filled>>

Bytes == {"raw", "staged", "received"}

TypeOK ==
  /\ at \in [Agent -> {"idle", "store", "stage", "post", "posted", "returned",
                       "resolve", "swap", "delete", "body", "free"}]
  /\ with \in [Agent -> Ctx \cup {NoCtx}]
  /\ supplied \in [Post -> BOOLEAN]
  /\ fills \in [Post -> BOOLEAN]
  /\ used \in [Post -> Post \cup {NoPost}]
  /\ prov \in [Post -> {"none", "pending", "event", "read"}]
  /\ hand \in [Resolver -> Post \cup {NoPost}]
  /\ ptr \in [Ctx -> Ptr \cup {NoPtr}]
  /\ allocated \subseteq Ptr
  /\ registry \in [Ptr -> Ctx \cup {NoCtx}]
  /\ closed \in [Ctx -> BOOLEAN]
  /\ buffer \in [Ctx -> Post \cup {NoPost}]
  /\ copyBack \in [Ctx -> Post \cup {NoPost}]
  /\ runs \in [Ctx -> Nat]
  /\ content \in [Post -> Bytes]
  /\ filled \in [Post -> Bytes \cup {"untouched"}]

Init ==
  /\ at = [a \in Agent |-> "idle"]
  /\ with = [a \in Agent |-> NoCtx]
  /\ supplied = [p \in Post |-> FALSE]
  /\ fills = [p \in Post |-> FALSE]
  /\ used = [p \in Post |-> NoPost]
  /\ prov = [p \in Post |-> "none"]
  /\ hand = [r \in Resolver |-> NoPost]
  /\ ptr = [c \in Ctx |-> NoPtr]
  /\ allocated = {}
  /\ registry = [q \in Ptr |-> NoCtx]
  /\ closed = [c \in Ctx |-> FALSE]
  /\ buffer = [c \in Ctx |-> NoPost]
  /\ copyBack = [c \in Ctx |-> NoPost]
  /\ runs = [c \in Ctx |-> 0]
  /\ content = [p \in Post |-> "raw"]
  /\ filled = [p \in Post |-> "untouched"]

Goto(a, l) == at' = [at EXCEPT ![a] = l]

-----------------------------------------------------------------------------
(* ensureContext and NewCompletionContext.                                 *)

\* malloc returns a pointer that nobody has; the caller made the context
\* itself (s) or the post function makes it.
Alloc(p, c, q, s) ==
  /\ at[p] = "idle"
  /\ ptr[c] = NoPtr
  /\ q \notin allocated
  /\ allocated' = allocated \cup {q}
  /\ ptr' = [ptr EXCEPT ![c] = q]
  /\ with' = [with EXCEPT ![p] = c]
  /\ supplied' = [supplied EXCEPT ![p] = s]
  /\ Goto(p, "store")
  /\ UNCHANGED <<fills, used, prov, hand, registry, closed, buffer, copyBack,
                 runs, content, filled>>

AllocFails(p) ==
  /\ at[p] = "idle"
  /\ Goto(p, "returned")
  /\ UNCHANGED <<with, caller, hand, ptr, allocated, registry, closed, buffer,
                 copyBack, runs, content>>

\* contextRegistry.Store.
Store(p) ==
  /\ at[p] = "store"
  /\ registry' = [registry EXCEPT ![ptr[with[p]]] = with[p]]
  /\ Goto(p, "stage")
  /\ UNCHANGED <<with, caller, hand, ptr, allocated, closed, buffer, copyBack,
                 runs, content>>

\* The caller passes a context it made earlier or got from an earlier post,
\* and ensureContext finds it not released.
Reuse(p, c) ==
  /\ at[p] = "idle"
  /\ \E o \in Post : with[o] = c /\ at[o] # "store" /\ (supplied[o] \/ at[o] = "posted")
  /\ ~closed[c]
  /\ with' = [with EXCEPT ![p] = c]
  /\ supplied' = [supplied EXCEPT ![p] = TRUE]
  /\ Goto(p, "stage")
  /\ UNCHANGED <<fills, used, prov, hand, ptr, allocated, registry, closed,
                 buffer, copyBack, runs, content, filled>>

-----------------------------------------------------------------------------
(* PostSend and PostRecv.                                                  *)

\* ensureBuffer: the context keeps a buffer that is large enough, and frees
\* and replaces one that is too small (grow).  A send is copied into it, a
\* receive leaves in it what malloc or an earlier post put there, and is
\* copied back on release.
StageBuffer(p, recv, grow) ==
  LET c == with[p]
      b == IF buffer[c] # NoPost /\ ~grow THEN buffer[c] ELSE p
  IN
  /\ at[p] = "stage"
  /\ buffer' = [buffer EXCEPT ![c] = b]
  /\ used' = [used EXCEPT ![p] = b]
  /\ fills' = [fills EXCEPT ![p] = recv]
  /\ content' = IF recv THEN content ELSE [content EXCEPT ![b] = "staged"]
  /\ copyBack' = IF recv THEN [copyBack EXCEPT ![c] = p] ELSE copyBack
  /\ Goto(p, "post")
  /\ UNCHANGED <<with, supplied, prov, hand, ptr, allocated, registry, closed,
                 runs, filled>>

\* The payload is in a registered region; a receive with a buffer besides
\* asks for a copy.
StageRegion(p, copy) ==
  /\ at[p] = "stage"
  /\ fills' = [fills EXCEPT ![p] = copy]
  /\ copyBack' = IF copy THEN [copyBack EXCEPT ![with[p]] = p] ELSE copyBack
  /\ Goto(p, "post")
  /\ UNCHANGED <<with, supplied, used, prov, hand, ptr, allocated, registry,
                 closed, buffer, runs, content, filled>>

\* Mutant: the post releases its context on the way out.
Accept_DefersRelease(p) ==
  /\ at[p] = "post"
  /\ prov' = [prov EXCEPT ![p] = "pending"]
  /\ Goto(p, "swap")
  /\ UNCHANGED <<with, supplied, fills, used, hand, ptr, allocated, registry,
                 closed, buffer, copyBack, runs, content, filled>>

\* The provider takes the operation, and the post returns the context.
Accept(p) ==
  /\ at[p] = "post"
  /\ prov' = [prov EXCEPT ![p] = "pending"]
  /\ Goto(p, "posted")
  /\ UNCHANGED <<with, supplied, fills, used, hand, ptr, allocated, registry,
                 closed, buffer, copyBack, runs, content, filled>>

\* The payload of a send was injected: the context the post made is released.
Inject(p) ==
  /\ at[p] = "stage"
  /\ ~supplied[p]
  /\ Goto(p, "swap")
  /\ UNCHANGED <<with, caller, hand, ptr, allocated, registry, closed, buffer,
                 copyBack, runs, content>>

\* Mutant: the error is returned without releasing the context.
Refuse_Leaks(p) ==
  /\ at[p] \in {"stage", "post"}
  /\ Goto(p, "returned")
  /\ UNCHANGED <<with, caller, hand, ptr, allocated, registry, closed, buffer,
                 copyBack, runs, content>>

\* The region lacks access or is too short, malloc fails, or the provider
\* does not take the operation: the context is released.
Refuse(p) ==
  /\ at[p] \in {"stage", "post"}
  /\ Goto(p, "swap")
  /\ UNCHANGED <<with, caller, hand, ptr, allocated, registry, closed, buffer,
                 copyBack, runs, content>>

-----------------------------------------------------------------------------
(* The provider and the reader of the completion queue.                    *)

\* A receive that succeeds writes the buffer, one that fails (ok = FALSE)
\* and a send do not.
Deliver(p, ok) ==
  /\ prov[p] = "pending"
  /\ prov' = [prov EXCEPT ![p] = "event"]
  /\ content' = IF ok /\ fills[p] /\ used[p] # NoPost
                THEN [content EXCEPT ![used[p]] = "received"] ELSE content
  /\ UNCHANGED <<at, with, supplied, fills, used, hand, ptr, allocated, registry,
                 closed, buffer, copyBack, runs, filled>>

\* A completion or an error entry is read; it carries the pointer.
Read(r, p) ==
  /\ at[r] = "idle"
  /\ prov[p] = "event"
  /\ prov' = [prov EXCEPT ![p] = "read"]
  /\ hand' = [hand EXCEPT ![r] = p]
  /\ Goto(r, "resolve")
  /\ UNCHANGED <<with, supplied, fills, used, ptr, allocated, registry, closed,
                 buffer, copyBack, runs, content, filled>>

Pointer(r) == ptr[with[hand[r]]]

\* Mutant: the registry is looked up and not cleared.
Resolve_Loads(r) ==
  /\ at[r] = "resolve"
  /\ registry[Pointer(r)] # NoCtx
  /\ with' = [with EXCEPT ![r] = registry[Pointer(r)]]
  /\ Goto(r, "swap")
  /\ UNCHANGED <<caller, hand, ptr, allocated, registry, closed, buffer,
                 copyBack, runs, content>>

\* resolveCompletion: LoadAndDelete, then release.
Resolve(r) ==
  /\ at[r] = "resolve"
  /\ registry[Pointer(r)] # NoCtx
  /\ with' = [with EXCEPT ![r] = registry[Pointer(r)]]
  /\ registry' = [registry EXCEPT ![Pointer(r)] = NoCtx]
  /\ Goto(r, "swap")
  /\ UNCHANGED <<caller, hand, ptr, allocated, closed, buffer, copyBack, runs,
                 content>>

\* ErrContextUnknown.
ResolveUnknown(r) ==
  /\ at[r] = "resolve"
  /\ registry[Pointer(r)] = NoCtx
  /\ hand' = [hand EXCEPT ![r] = NoPost]
  /\ Goto(r, "idle")
  /\ UNCHANGED <<with, caller, ptr, allocated, registry, closed, buffer,
                 copyBack, runs, content>>

-----------------------------------------------------------------------------
(* CompletionContext.release.                                              *)

\* An agent is done with its context: a post has returned, a resolver reads
\* the next completion.
Leave(a) ==
  IF a \in Post
  THEN Goto(a, "returned") /\ UNCHANGED <<with, hand>>
  ELSE /\ Goto(a, "idle")
       /\ with' = [with EXCEPT ![a] = NoCtx]
       /\ hand' = [hand EXCEPT ![a] = NoPost]

\* Mutant: the flag is set without looking at it.
Swap_Unchecked(a) ==
  /\ at[a] = "swap"
  /\ closed' = [closed EXCEPT ![with[a]] = TRUE]
  /\ Goto(a, IF a \in Post THEN "delete" ELSE "body")
  /\ UNCHANGED <<with, caller, hand, ptr, allocated, registry, buffer,
                 copyBack, runs, content>>

\* closed.CompareAndSwap succeeds.
Swap(a) ==
  /\ at[a] = "swap"
  /\ ~closed[with[a]]
  /\ closed' = [closed EXCEPT ![with[a]] = TRUE]
  /\ Goto(a, IF a \in Post THEN "delete" ELSE "body")
  /\ UNCHANGED <<with, caller, hand, ptr, allocated, registry, buffer,
                 copyBack, runs, content>>

\* It does not: somebody else releases the context.
SwapLost(a) ==
  /\ at[a] = "swap"
  /\ closed[with[a]]
  /\ Leave(a)
  /\ UNCHANGED <<caller, ptr, allocated, registry, closed, buffer, copyBack,
                 runs, content>>

\* Mutant: the pointer is freed before it leaves the registry.
Delete_FreesFirst(p) ==
  /\ at[p] = "delete"
  /\ allocated' = allocated \ {ptr[with[p]]}
  /\ Goto(p, "body")
  /\ UNCHANGED <<with, caller, hand, ptr, registry, closed, buffer, copyBack,
                 runs, content>>

\* contextRegistry.Delete, in Release only.
Delete(p) ==
  /\ at[p] = "delete"
  /\ registry' = [registry EXCEPT ![ptr[with[p]]] = NoCtx]
  /\ Goto(p, "body")
  /\ UNCHANGED <<with, caller, hand, ptr, allocated, closed, buffer, copyBack,
                 runs, content>>

\* Mutant: Release runs the callbacks as well.
Body_AlwaysRuns(a) ==
  LET c == with[a]
  IN
  /\ at[a] = "body"
  /\ runs' = [runs EXCEPT ![c] = @ + 1]
  /\ buffer' = [buffer EXCEPT ![c] = NoPost]
  /\ copyBack' = [copyBack EXCEPT ![c] = NoPost]
  /\ Goto(a, "free")
  /\ UNCHANGED <<with, caller, hand, ptr, allocated, registry, closed, content>>

\* The callbacks when a completion was resolved, the copy into the caller's
\* buffer, and the buffer is freed.
Body(a) ==
  LET c == with[a]
  IN
  /\ at[a] = "body"
  /\ runs' = IF a \in Resolver THEN [runs EXCEPT ![c] = @ + 1] ELSE runs
  /\ filled' = IF copyBack[c] # NoPost /\ buffer[c] # NoPost
               THEN [filled EXCEPT ![copyBack[c]] = content[buffer[c]]] ELSE filled
  /\ buffer' = [buffer EXCEPT ![c] = NoPost]
  /\ copyBack' = [copyBack EXCEPT ![c] = NoPost]
  /\ Goto(a, "free")
  /\ UNCHANGED <<with, supplied, fills, used, prov, hand, ptr, allocated,
                 registry, closed, content>>

\* CompletionContextFree.
Free(a) ==
  /\ at[a] = "free"
  /\ allocated' = allocated \ {ptr[with[a]]}
  /\ Leave(a)
  /\ UNCHANGED <<caller, ptr, registry, closed, buffer, copyBack, runs, content>>

-----------------------------------------------------------------------------
PostStep(p) ==
  \/ \E c \in Ctx, q \in Ptr, s \in BOOLEAN : Alloc(p, c, q, s)
  \/ AllocFails(p)
  \/ Store(p)
  \/ \E c \in Ctx : Reuse(p, c)
  \/ \E recv, grow \in BOOLEAN : StageBuffer(p, recv, grow)
  \/ \E copy \in BOOLEAN : StageRegion(p, copy)
  \/ Accept(p)
  \/ Inject(p)
  \/ Refuse(p)
  \/ Delete(p)

ResolverStep(r) ==
  \/ \E p \in Post : Read(r, p)
  \/ Resolve(r)
  \/ ResolveUnknown(r)

ReleaseStep(a) == Swap(a) \/ SwapLost(a) \/ Body(a) \/ Free(a)

Next ==
  \/ \E p \in Post : PostStep(p)
  \/ \E p \in Post, ok \in BOOLEAN : Deliver(p, ok)
  \/ \E r \in Resolver : ResolverStep(r)
  \/ \E a \in Agent : ReleaseStep(a)

Spec == Init /\ [][Next]_vars

-----------------------------------------------------------------------------
\* The agent won the compare-and-swap and has not freed the pointer.
Releasing(a) == at[a] \in {"delete", "body", "free"}

\* The context has its pointer and nobody has freed it.
Holds(c) ==
  /\ ptr[c] # NoPtr
  /\ closed[c] => \E a \in Agent : Releasing(a) /\ with[a] = c

(* The registry maps a pointer to the context that has it, although malloc *)
(* recycles pointers: release removes the entry before it frees.           *)
RegistryLive ==
  \A q \in Ptr : registry[q] # NoCtx =>
    q \in allocated /\ ptr[registry[q]] = q /\ Holds(registry[q])

(* A pointer about to be freed is allocated and nobody else frees it, also *)
(* when a failing post and a resolver release one context.                 *)
FreedOnce ==
  \A a \in Agent : at[a] = "free" =>
    /\ ptr[with[a]] \in allocated
    /\ \A b \in Agent \ {a} : at[b] = "free" => ptr[with[b]] # ptr[with[a]]

(* No memory is lost: a post that returns no context has released the one  *)
(* it took, and a pointer that malloc handed out belongs to a context that *)
(* some post made or was given, open or about to be freed.                 *)
NoLeak ==
  /\ \A p \in Post : at[p] = "returned" /\ with[p] # NoCtx => closed[with[p]]
  /\ \A q \in allocated : \E c \in Ctx :
       ptr[c] = q /\ Holds(c) /\ \E p \in Post : with[p] = c

\* Every post so far has a context of its own.  The context of a post is
\* kept when it is over: what was shared once stays shared.
Unshared == \A p, o \in Post : with[p] = with[o] /\ with[p] # NoCtx => p = o

(* While every post has its own context, the callbacks run once, and only  *)
(* after a completion of the context was read: Release runs none.          *)
CallbacksOnResolve ==
  Unshared => \A c \in Ctx : runs[c] > 0 =>
    runs[c] = 1 /\ \E p \in Post : with[p] = c /\ prov[p] = "read"

ResolvesOwn ==
  \A r \in Resolver : at[r] \in {"swap", "body", "free"} => with[r] = with[hand[r]]

(* While every post has its own context, a completion resolves to that of  *)
(* its operation, never to another one malloc gave the same pointer.       *)
OwnContext == Unshared => ResolvesOwn

(* While every post has its own context and the provider holds an          *)
(* operation, the pointer stays allocated and registered and the staging   *)
(* buffer is not freed.                                                    *)
MemoryWhilePending ==
  Unshared => \A p \in Post : prov[p] \in {"pending", "event"} =>
    /\ registry[ptr[with[p]]] = with[p]
    /\ ptr[with[p]] \in allocated
    /\ used[p] # NoPost => buffer[with[p]] = used[p]

(* While every post has its own context, a receive that arrived is in the  *)
(* caller's buffer once its context is released: release copies the bytes  *)
(* after the provider has written them and before the staging buffer is    *)
(* freed.  It says nothing of a receive that was refused or that failed.   *)
ReceivedIsCopied ==
  Unshared => \A p \in Post :
    /\ fills[p]
    /\ used[p] # NoPost
    /\ content[used[p]] = "received"
    /\ closed[with[p]]
    /\ \A a \in Agent : with[a] = with[p] => at[a] \notin {"delete", "body"}
    => filled[p] = "received"

(* "The provided buffer is populated once the completion context resolves" *)
(* (PostRecv, messaging.go:99-100): what release puts into the buffer of a *)
(* caller comes after the completion was read.                             *)
PopulatedOnResolve ==
  \A p \in Post : filled[p] # "untouched" => prov[p] = "read"

\* Which places an agent has, and what it works on there.
AgentInv ==
  /\ \A a \in Agent :
       /\ at[a] \in {"store", "stage", "post", "posted", "swap", "delete", "body", "free"}
            => with[a] \in Ctx
       /\ with[a] # NoCtx => ptr[with[a]] # NoPtr
  /\ \A p \in Post :
       /\ at[p] # "resolve"
       /\ prov[p] # "none" => at[p] = "posted"
       /\ at[p] = "idle" => with[p] = NoCtx
  /\ \A r \in Resolver :
       /\ at[r] \in {"idle", "resolve", "swap", "body", "free"}
       /\ at[r] = "idle" <=> hand[r] = NoPost
       /\ hand[r] # NoPost => prov[hand[r]] = "read"

\* A context that is not in the registry yet is known to one post only.
StoreInv ==
  \A p \in Post : at[p] = "store" =>
    /\ ~closed[with[p]]
    /\ \A b \in Agent \ {p} : with[b] # with[p]
    /\ \A q \in Ptr : registry[q] # with[p]

\* Contexts that have a pointer have different ones.
HoldInv ==
  /\ \A c \in Ctx : closed[c] => ptr[c] # NoPtr
  /\ \A c \in Ctx : Holds(c) => ptr[c] \in allocated
  /\ \A c, d \in Ctx : Holds(c) /\ Holds(d) /\ ptr[c] = ptr[d] => c = d

\* One agent releases a context, after it left the registry.
ReleaseInv ==
  /\ \A a \in Agent : Releasing(a) =>
       /\ closed[with[a]]
       /\ \A b \in Agent \ {a} : Releasing(b) => with[b] # with[a]
  /\ \A a \in Agent :
       at[a] \in {"body", "free"} \/ (a \in Resolver /\ at[a] = "swap") =>
         \A q \in Ptr : registry[q] # with[a]

\* The inductive invariant of contexts, shared or not.
ContextInv ==
  /\ TypeOK
  /\ AgentInv
  /\ StoreInv
  /\ HoldInv
  /\ ReleaseInv
  /\ RegistryLive

\* The context of a post that did not give it up is registered, and the
\* buffer it staged is there.
Intact(p) ==
  /\ ~closed[with[p]]
  /\ registry[ptr[with[p]]] = with[p]
  /\ used[p] # NoPost => buffer[with[p]] = used[p]

\* The post has not handed its context over, the provider holds the
\* operation, or its completion is about to be resolved.
Live(p) ==
  \/ at[p] \in {"stage", "post"}
  \/ prov[p] \in {"pending", "event"}
  \/ \E r \in Resolver : at[r] = "resolve" /\ hand[r] = p

\* What is added while every post has a context of its own.
Apart ==
  /\ Unshared
  /\ \A p \in Post : at[p] \in {"idle", "store", "stage"} => used[p] = NoPost
  /\ \A p \in Post : Live(p) => Intact(p)
  /\ \A r, s \in Resolver : hand[r] = hand[s] /\ hand[r] # NoPost => r = s
  /\ ResolvesOwn

OwnInv == Unshared => Apart

(* Behind CallbacksOnResolve: the callbacks of a context have run only     *)
(* when its release got past them, and while posts have contexts of their  *)
(* own a completion of the context was read.                               *)
RunInv ==
  \A c \in Ctx : runs[c] > 0 =>
    /\ runs[c] = 1
    /\ closed[c]
    /\ \A a \in Agent : with[a] = c => at[a] \notin {"delete", "body"}
    /\ Unshared => \E p \in Post : with[p] = c /\ prov[p] = "read"

\* The context of the post is not released, or its buffer not copied yet.
Uncopied(p) ==
  \/ ~closed[with[p]]
  \/ \E a \in Agent : with[a] = with[p] /\ at[a] \in {"delete", "body"}

\* Which buffer a post uses: a new one, in a context that had none, and the
\* context names no other post for the copy.
BufferInv ==
  /\ \A c \in Ctx : (\A p \in Post : with[p] = c => at[p] \in {"store", "stage"}) =>
       buffer[c] = NoPost
  /\ \A c \in Ctx : copyBack[c] # NoPost => with[copyBack[c]] = c
  /\ \A p \in Post : used[p] \in {NoPost, p}

\* A receive finds itself and its buffer in the context until release has
\* copied the bytes, and these stay as copied.
CopyOf(p) ==
  fills[p] /\ used[p] # NoPost =>
    /\ with[p] # NoCtx
    /\ IF Uncopied(p)
       THEN copyBack[with[p]] = p /\ buffer[with[p]] = p
       ELSE filled[p] = content[p]

\* Behind ReceivedIsCopied, while posts have contexts of their own.
CopyInv == Unshared => BufferInv /\ \A p \in Post : CopyOf(p)

-----------------------------------------------------------------------------
(* What remains of a post and its context without pointers and registry.   *)

Progress(p) ==
  CASE prov[p] = "none"    -> "unposted"
    [] prov[p] = "pending" -> "posted"
    [] prov[p] = "event"   -> "reported"
    [] prov[p] = "read"    -> "read"

\* A lookup of the pointer of the post finds its context.
Found(p) == registry[ptr[with[p]]] = with[p]

Standing(p) ==
  IF with[p] = NoCtx \/ at[p] = "store" THEN "none"
  ELSE IF Found(p) THEN "registered" ELSE "released"

D == INSTANCE Delivery WITH Op <- Post, progress <- [p \in Post |-> Progress(p)],
                            context <- [p \in Post |-> Standing(p)]

(* While every post has its own context, pointers that malloc recycles, a  *)
(* registry shared by all and releases that overlap deliver completions as *)
(* module Delivery says: each resolves its own context, once, and none is  *)
(* released under the provider.                                            *)
ImplementsDelivery == D!Init /\ [][Unshared' => D!Next \/ UNCHANGED D!vars]_vars
=============================================================================
