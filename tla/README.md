# libfabric-go: specification and proofs

TLA+ modules of the Go package in `src/`: the high-level client (`src/client`)
and the parts of the bindings (`src/fi`) it is built from. TLC checks the
modules on small instances; TLAPS proves the safety properties for every value
of the constants. `PROJECT.json` lists the runs, the source lines of every
definition, the hazards and the divergences found.

## 1. The system

| Component | State | Operations | Correct when |
|---|---|---|---|
| Client (`client/client.go`) | `closed`, `dispatcherErr`, counters, handlers, `stopCh`, the handles it owns | `SendAsync`, `ReceiveAsync` and their blocking forms; `dispatch`; `handleCompletion`; `Close`; handlers | every reported operation resolves its future once, with the provider's verdict and after its memory was given back; `Close` ends and nothing is torn down under the dispatcher |
| Operation and futures (`client/client.go`) | `result`, `completed`, `callbacks`, `done` | `complete`, `addCallback`, `Await`, `operationContext` | everybody is told one result, callbacks run, a call ends neither early nor never |
| Memory pool (`fi/memory_pool.go`) | a buffered channel of regions, `closed` | `Acquire`, `Release`, `Close` | one owner per region, owned regions open, bound kept |
| Completion contexts (`fi/context.go`) | global registry from C pointer to context; per context pointer, value, callbacks, staging buffer, `closed` | `NewCompletionContext`, `ensureContext`, `release`, `resolveCompletion` | a completion finds the context of its post; pointers freed once, and not under the provider |
| Posts (`fi/messaging.go`, `tagged.go`, `rma.go`, `endpoint.go`) | none of their own | `Send`, `Recv`, `Inject`, tagged and RMA forms, `PostSend`, `PostRecv` | every error path releases its context |
| Blocking helpers (`fi/wait.go`, `*Sync`) | locals: deadline, target | post, then `waitForCompletion` | the caller's own verdict, the timeout kept |
| Bring-up (`client/client.go`, `connect.go`, `listener.go`) | a tree of libfabric handles with reference counts, the `fi_info` the descriptors point into | `Dial`, `Connect`, `Listen`, `Accept`, both `Close` | nothing forgotten on an error path, closes in an order the provider accepts |
| Event queues (`fi/passive.go`, the loops of `Accept` and `waitForConnected`) | events of the listener and of each connection, error entries | `ReadCM`, `waitForConnected`, closing under a reader | a client has a peer, no closed queue is read, waits end |
| Peers (`client/client.go`, `fi/address_vector.go`) | addresses in the vector, `defaultDest` | `RegisterPeer`, `SetDefaultPeer`, the insertions of `Dial` | default sends go to an address of the vector |
| Domain, fabric, endpoint, completion queue (`fi`) | a handle each | open, bind, read, close | steps of Bringup, the queue of Client and SyncWait |
| Wait sets, C bindings, versions, metrics, examples; most of discovery | – | – | not modelled (section 9) |

How they interact. A user goroutine calls the client, which takes a region from
the pool, makes a context, posts, and then attaches its operation to the
context. The provider reports the operation on the completion queue. The
dispatcher goroutine reads the queue, resolves the context through the
registry, and completes the operation: it counts, calls handlers, gives the
region back, closes `done` and starts callbacks. `Close` stops the dispatcher,
waits for it, and takes the client apart. Without a client, users post through
package `fi` and read the queue themselves, or call the blocking helpers, which
read it for them.

What is hard here: the post is visible to the dispatcher before the operation
is attached; the pool, the client and the listener may be closed while others
are inside them; whoever reads a queue reads everybody's completions; C
pointers that key a Go map are recycled by `malloc`; each constructor has about
ten steps that can fail; `Accept` polls a queue that `Listener.Close` closes;
several `RegisterPeer` and `Close` meet in one address vector; timeouts leave
operations behind that complete later.

## 2. The modules

| Module | Models | Proofs |
|---|---|---|
| `MRPool` | `fi/memory_pool.go` | `MRPoolProofs` |
| `Client` | posting, dispatching, completing and closing, with the pool's channel inside | `ClientProofs` |
| `Future` | what a caller is promised (abstract) | `ContractProofs` |
| `Lease` | what a pool promises to those who use its regions (abstract) | `ContractProofs` |
| `Delivery` | what the completion path promises to those who post (abstract) | `ContractProofs` |
| `ClientFuture` | the refinement mappings from `Client` to `Future`, `Lease` and `Delivery` | `ClientFutureProofs` |
| `Operation` | one operation, its callbacks, its waiters and their deadlines | `OperationProofs` |
| `Context` | `fi/context.go` and the shape shared by all posts | `ContextProofs` |
| `SyncWait` | `waitForCompletion` and the calls that end in it | `SyncWaitProofs` |
| `Bringup` | constructors, `Accept`, both `Close`, and the event queues | `BringupProofs` |
| `Peers` | `Bringup` with the address vector and the default destination | `BringupProofs` |

`MCClient` and `MCContext` add the symmetry sets for TLC; `MCBringup` restricts
the interleavings of `Bringup` and `Peers` to those that can be told apart; the
other modules are checked as they are. Definitions whose name ends in
`_Something` after a mapped name are mutants: the forms a plausible bug would
give that definition. They stand before the definition they mutate and are used
nowhere else.

Three abstract modules state the contracts between the parts, and each is
implemented by every module that has that part in it:

| Contract | Implemented by | Part in the code |
|---|---|---|
| `Future` | `Client`, `Operation` | the future a caller holds |
| `Lease` | `MRPool`, `Client` | registered memory |
| `Delivery` | `Context`, `Client`, `SyncWait` | a context from registration to release |

`Context` has the pointers, the registry and the overlapping releases of package
`fi`; `Client` and `SyncWait`, which use that package, reduce it to one flag per
operation. That `Context` implements `Delivery`, and that the other two take
only steps of `Delivery`, is what makes the reduction sound, as long as nobody
shares contexts (the client never does).

A step of a model ends where another goroutine or the provider can observe or
change something: an atomic load, a lock, a channel operation, a C call. Go
statements between two such points are one step.

**MRPool.** A thread is a goroutine and holds at most one region at a time.
`Acquire` is a check of `closed` and then a receive or a registration;
`Release` is a check and then a send or a close of the region; `Close` swaps
the flag and then drains. `Foreign` regions have another size and are closed,
not pooled. `Lease` is the abstract pool: a region is unregistered, leased to
one user, spare, or gone. Gone means that the pool has called `Close` on it,
also when that failed and left it registered; a spare need not go. `MRPool`
implements it with a channel, and `Client` with the regions of its operations,
so that the two descriptions of one pool are held to one contract. A region on
its way into the channel is still leased.

**Client.** An element of `Op` is one call, its goroutine, its operation and its
context. `pc` follows the goroutine through `ensureOpen`, `dispatchFailure`,
`prepareSend` or `prepareReceive`, `PostSend` or `PostRecv`, the counter,
`SetValue` and, for injected sends, `complete`. `prov` is the provider's side:
pending, an entry of the queue, an error entry, read. `dpc` follows the
dispatcher through `dispatch`, `ReadContext`, `ReadError`, `resolveCompletion`
and `handleCompletion`; it is a goroutine with one operation in hand (`dop`).
`comp` is how far `complete` is. `closePC` follows `Close`. Buffer contents are
one bit, `filled`: the message has reached the caller's buffer. Lengths are
kept because whether a payload is injected, pooled or registered depends on
them.

**Operation.** One operation seen by those who wait. `poster` is the goroutine
that makes a blocking call (`operationContext`, which reads the clock twice,
the post, the wait) or nobody, and then everybody who waits calls `Await` on a
future; it is chosen in `Init`. The dispatcher is in `complete`, from the record
under the lock to the callbacks. The clock stops at `MaxTime`, which stands for
every later moment; calls begin early enough for their timeout to end before it.

**Context.** Posts and resolvers are goroutines; contexts are Go objects, which
are never reused, and pointers are C memory, which is. `release` is several
steps: the swap of `closed`, the registry, the copy of the staging buffer, the
free. Callers may pass one context to several posts, which `ensureContext`
allows. What only holds for a context per post is stated under `Unshared`: no
two posts so far have the same context. A post keeps its context in the model
when it is over, so what was shared once stays shared.

**SyncWait.** Calls post once and poll; background operations are posted again
and again. Time is two bits per call: the deadline has passed, the context is
cancelled. Somebody may close the queue (`open`): a call that posts after that
returns an error and leaves its operation behind (`PostNoQueue`), and so does
one that polls. The branch of `waitForCompletion` for a completion without a
context (`ErrContextUnknown`) has no action: the contexts of all entries are
registered until they are resolved (`SyncInv`).

**Bringup.** Each constructor is a sequence of steps (discover, open, bind,
enable, connect, wait) read off the code, and one set of actions interprets
them: `Take` a step, `Fail` at it and unwind in the order of the code's error
path, go up, close. An object others use may refuse to be closed; the handle is
dropped all the same, and the object is `lost`. `info` stands for the `fi_info`
list behind the descriptors, which the deferred calls free when the constructor
returns. The two loops that read an event queue have three places: the tests at
the top (`PollTop`), the look at the handle (`BeginRead`), and the C call, from
which a party comes back with nothing, with an error or with its event. The
queue may be closed at any of them. Of the memory regions of a client it only
matters that there are some on its domain: `regions` says whether any are in its
pool and whether any are held otherwise, by operations or because their
deregistration failed. Operations take and return regions while the client is
up, closing and closed (`UseRegion`, `ReleaseRegion`), and `Close` drains the
pool. An error entry of the listener's queue
(`broken`) is never drained, as in the code. `AcceptRequest` lets the provider
report a connection to both sides or to either alone.

**Peers.** Extends `Bringup`: the two insertions of `Dial` put the own address
and the configured service into the vector and make them the default;
`RegisterPeer` is three steps (the client is open, the insertion, the store of
the default), between which others and `Close` run. `fi_av_insert` may insert
nothing without an error, which `InsertRaw` passes on as success: the address
is then `FI_ADDR_NOTAVAIL`, whether it is in the vector already or not.
`SetDefaultPeer` takes any address, as in the code, and the client has then
chosen its default itself (`chosen`) until a `RegisterPeer` stores another.

Some calls are one step although the code is several: an insertion together
with the look at the vector's handle, and a `Close` of package `fi` together
with setting the handle to nil. What lies between the two is a use after free,
which is not a state of these models.

## 3. The runs

| Run | Instance | States | Shows |
|---|---|---|---|
| `MRPool` | 3 goroutines, capacity 1, a region of another size, fairness | 24 k | `PoolInv` (one owner, owned regions open), `Lease` is implemented, what `Close` drains only shrinks, `Close` ends |
| `Client_pool` | 2 calls, 2 regions, pool of 1, registration required, injection, a handler | 918 k | memory, counters, silence after the join, `ClientInv` (which has the verdicts), `Lease` and `Delivery` are implemented |
| `Client_plain` | 2 calls, no regions, empty buffers, injection, a queue that may break, fairness | 199 k | receives fill the buffer; `Future` is implemented; `Close` ends, attached operations complete |
| `Operation` | 1 waiter or blocking call, 2 callbacks, timeout 2, clock to 4, fairness | 70 k | one result for all, never early, calls return, callbacks run, `OperationInv`, `Future` is implemented |
| `Context` | 3 posts, 2 resolvers, 2 contexts, 2 pointers | 1.4 M | freed once, nothing leaked, `ContextInv` (which has the live registry); with a context per post: `Delivery` is implemented, own context found, memory kept, callbacks once, receives that arrived are copied |
| `SyncWait` | 2 calls, 1 background operation, failures, a queue that may be closed, fairness | 368 k | own verdict, `SyncInv` (contexts outlive the wait), `Delivery` is implemented, the deadline ends the wait once the queue is quiet |
| `Bringup` | 1 dial in all variants with 2 goroutines in `RegisterPeer`; a listener, 1 connect, 1 accept; memory regions; fairness | 282 k | `BringupInv`; no handle forgotten, closes in order but for four places, only an overtaken `Accept` reads a closed queue, clients have a peer, defaults are in the vector, constructors return |
| `Client_race` | 1 call, fairness | | **violated**: a reported operation never resolves |
| `Client_eavail` | 2 calls | | **violated**: one failed operation fails the client |
| `Client_copyback` | 1 receive into a registered region | | **violated**: the caller's buffer stays untouched |
| `Context_unwritten` | 1 post | | **violated**: a refused receive overwrites the caller's buffer |
| `SyncWait_stolen` | 2 calls, fairness | | **violated**: each resolves the other's context and both wait on |

`CHECK_DEADLOCK FALSE` stands where users may stop calling, which is everywhere:
a client that nobody uses any more is at rest.

**Bounds.** The hazards are between two parties at a time: a call and the
dispatcher, a call and `Close`, two calls over one region, two readers of one
queue. Two calls and two regions with a pool of one reach a full pool, an empty
pool and a new region. Three goroutines in the pool let one be between check
and send while another receives and a third closes. Two contexts and two
pointers make `malloc` hand out a pointer a second time, and let a third post
share either context. Two lengths lie on either side of the pool's and of the
inject limit. Two callbacks are registered on either side of the completion,
beside one goroutine that waits; waiters only read the operation, so a second
adds no behaviour. The timeout 2 and the clock to 4 leave room for deadlines
before, at and after the timeout, and for a tick between the two readings of
the clock. One accept meets one connect. Two goroutines register peers, so that
one stores its default after the other or after `Close`; one peer address is
enough beside the own address and the service. `MCBringup` drops interleavings
that nobody can observe: a dialed client shares nothing with a listener, so only
one side leaves "idle" in a behaviour, and a connector before its request or
while it closes, and a listener before `Listen` returns, move without the others
in between. Memory regions are followed for dials without an address vector and
for accepted clients: the vector does not touch the domain, and a connector
closes its own domain as such a dial does. Two accepts on one queue are left to
the proofs, and so are the regions of the clients left out here. `Client_plain`
has fairness but no pool: that the drain of a pool ends is a question of the
pool alone, which `MRPool` answers with its own `CloseTerminates`. Nothing else
in the models is unbounded. The proofs do not depend on any of these bounds.

## 4. Fairness

Weak fairness of the code's own goroutines only: a goroutine that can run its
next Go statement does. It is assumed of a call once it has begun, of
`complete`, of the dispatcher (a loop with a sleep), of `Close` once it has
swapped the flag, of polling loops, and of the clock. Nothing forces users to
call, close or cancel, and nothing forces the provider to complete. In Bringup
a step of a constructor comes to an end with success or failure; a read of an
event queue comes back, since the code gives it a timeout; and the deadline of
`waitForConnected` passes (`End` is fair for a wait). `Accept` has no deadline
of its own, so nothing makes its context end: `ConstructorsReturn` says when it
returns instead.
No strong fairness is used.

## 5. What is proved

All theorems are for any number of calls, goroutines, regions, contexts and
pointers, and any capacity, length and timeout allowed by the assumptions of
the modules (sentinels are not elements, `Op` is finite, sizes are naturals).
Each proof has the same form: an inductive invariant, one lemma per group of
actions, and the properties as its conjuncts or consequences.

* `PoolCorrect`, `RegionHasOneOwner`, `OwnedRegionIsOpen`, `PoolStaysBounded`,
  and `PoolImplementsLease`.
  `PoolInv` adds to the properties what each goroutine holds at each place; a
  region about to be sent is held by its sender, so the send cannot make a
  second owner. `CloseDrainsBounded`: once the pool is closed no goroutine
  passes the check any more, so the regions that are in the channel or on
  their way into it (`Sendable`) only become fewer, and each turn of the drain
  takes one out for good. With the fairness of `Close` that is
  `CloseTerminates`; the last step, from a finite set that shrinks to an end,
  stays with TLC. None of this says that every region is deregistered in the
  end, which is false (section 6).
* The contracts. `LeaseIsExclusive`, `SparesAreBounded`, `RegionsLiveOnce`,
  `ContextsAreReachable`, `ContextsReleasedOnce` and `FutureIsFinal` say what
  `Lease`, `Delivery` and `Future` are worth: they follow from the steps of
  the contract alone, so they hold of everything that implements it.
* `ClientCorrect` and its consequences. `ClientInv` ties the four views of an
  operation together: where its caller is, what the provider did, how far its
  completion is, what the dispatcher has in hand. The central facts: an
  operation that was read has no registered context, except while the
  dispatcher resolves it; a completion runs for an operation that was read and
  attached, or that its caller injected. So it runs once. `StatsExact` makes
  the counters cardinalities of sets of operations; `StatsOrdered` follows
  because an operation is counted as posted before it can be attached, and
  what is not attached is dropped.
* `ClientImplementsFuture`. Every step of `Client` maps to a step of `Future`
  or changes nothing a caller can see; it uses `ClientInv`. So do
  `ClientImplementsLease`, for the regions, and `ClientImplementsDelivery`,
  for the contexts: one lemma per group of actions, and for the many actions
  that leave the mapped state alone one lemma that says so.
* What liveness rests on. `ContextsStayRegistered`: from the post until the
  dispatcher resolves it, the context of an operation is in the registry.
  `AttachedNeverDropped`: once an operation is attached and its completion was
  not read before, the completion is never dropped. `AttachedCompletes` adds
  the fairness of the dispatcher. So the window between the post and
  `SetValue`, which `Client_race` shows, is the only place where the dispatcher
  drops a completion. `FailureIsCaused` is the same for `Client_eavail`: nothing but a
  broken queue or a failed operation marks the dispatcher as failed.
* `PlainReceivesFill` has a hypothesis: neither pool nor registration. Then no
  region comes between post and buffer (`FilledInv`), and the one `Resolve` of
  a completed receive copies the message. Without the hypothesis it is false,
  which `Client_copyback` shows.
* `OperationCorrect`, `NobodyGivesUpEarly`, `OneResultForAll`. The invariant
  says that the deadline a call waits under is in time: at or after the
  caller's, or without one at or after the configured timeout. The derived
  deadline is computed from a reading of the clock that is out of date, which
  can only make it later, and the parent's deadline still holds.
  `OperationImplementsFuture` needs one more invariant, `PostInv`: a call that
  has not reached its post has not posted, so one that gives up there never
  posts later.
* `SyncCorrect`, `SuccessIsOwn`, `ContextOutlivesPost`, `ResolvedByOne` and
  `CallsImplementDelivery`. `MissedReturnIsTheft` is the converse of the run
  `SyncWait_stolen`: a call that waits on although its context is resolved
  has lost the completion to another call; there is no other reason. So a call
  alone on its queue does return (`SoleCallerReturns`, which assumes
  `Call = {c}`; operations nobody waits for may share the queue).
* `ContextCorrect`, `RegistryStaysLive`, `PointerFreedOnce` hold however
  contexts are shared. The argument: a context *holds* its pointer until its
  release is through; holders have different pointers, and the registry maps
  pointers to holders only. `ContextsStayApart`, `CompletionFindsItsContext`
  and `ProviderMemoryStays` hold until a context is shared: `Apart` adds that
  a pointer the provider still has is intact, and since sharing cannot be
  undone (`StaysShared`), its induction may assume that the next state is
  unshared as well.
  `ContextsImplementDelivery` uses both: a step of release, a recycled pointer
  or a lookup for one post leaves the registration of every other as it was,
  because other contexts in use hold other pointers.
  `FailedPostsRelease` proves `NoLeak`: every allocated pointer has a context
  that holds it and a post that knows that context, so somebody can still
  free it, and a post that failed has freed its own. Its induction adds that
  owners are not lost (`OwnersKept`). `CallbacksRunOnce` and
  `ReceivesAreCopied` add `RunInv` (callbacks run behind the swap of `closed`)
  and `CopyInv` (what is not copied back yet is still in the staging buffer of
  its own context, and is not written to afterwards).
* `BringupStaysWithin` proves `BringupInv`, for any number of dials, connects
  and accepts. Its parts: `HandleInv`, the open handles of a party are those of
  the steps it took, and when it closes each still has its turn, so nothing is
  left (`NothingIsLeft`); `ScriptInv` and `ConnectionInv`, how far each
  constructor is and whose request an accept has (`ConnectionsHaveTwoEnds`,
  `QueuesAreOpen`); `OrderInv`, objects are opened by increasing and closed by
  decreasing rank, so an object is closed under its users only where the code
  breaks that order (`ClosesUsersFirst`, a property of steps); `RegionInv`, only
  clients that were returned have regions, so no error path closes a domain
  under one.
* `DefaultsAreKnown` is a theorem of `Peers`: every step of it is a step of
  `Bringup` or leaves `Bringup` alone, so `BringupInv` may be used; `PeersInv`
  adds that the address a `RegisterPeer` is about to store is known already. It
  says nothing while the default is one that `SetDefaultPeer` has set.

Only model-checked: liveness (fairness and `ENABLED` are outside the prover),
that is `CloseTerminates` of `MRPool` and `Client`, `AttachedCompletes`,
`DeadlineReturns`, `CallReturns`, `CallbacksRun` and `ConstructorsReturn`; of
`CloseTerminates` (in `MRPool`) and `AttachedCompletes` the theorems above prove
the part that is safety. Every
invariant, step property and refinement of the passing runs is also a theorem.
Parts of the inductive invariants that have a theorem of their own
(`RegionHasOneOwner`, `RegistryStaysLive`, `ContextOutlivesPost`,
`VerdictIsTheProviders`, ...) are checked by the run of that invariant. The
five disagreements of section 6 are TLC's counterexamples.

## 6. Where the code departs from what it says

Five runs must find their property violated; `PROJECT.json` quotes the sentence
each contradicts.

* `sendAsync` and `ReceiveAsync` attach the operation after the post: a fast
  completion is dropped and the future never resolves (`Client_race`). This is
  a bug by any reading.
* The error of one operation marks the dispatcher as failed and refuses every
  later call (`Client_eavail`).
* A receive through a region does not reach the caller's buffer
  (`Client_copyback`).
* `waitForCompletion` swallows completions of others (`SyncWait_stolen`).
* `release` copies the staging buffer back whether or not anything was received:
  a receive that the provider refuses overwrites the caller's buffer with memory
  nobody wrote (`Context_unwritten`). `ReceivedIsCopied` is the part that holds:
  what was received arrives.

Others were met while modelling. They have no run of their own; some are
visible as the conditions under which a passing property holds.

* `waitForCompletion` looks at its deadline only when the queue is empty
  (`wait.go:97`), so `DeadlineReturns` asks that others leave the queue alone.
* A context posted twice leaves a completion that may find another context with
  the same pointer (`context.go:145`): the reason for `Unshared`.
* The same copy happens when a receive resolves with an error
  (`context.go:126`): the buffer then holds what the staging buffer held.
* `Client.Close` closes the address vector before the endpoint
  (`client.go:720`), the error paths of `Accept` the queues before the endpoint
  (`listener.go:220`), `Listener.Close` the domain and the fabric under
  accepted clients (`listener.go:144`), and `Client.Close` and `Listener.Close`
  a domain under memory regions (`client.go:717-734`), those of operations still
  pending or sent to the pool after its drain: the four exceptions of
  `ClosesInOrder`. Whether anything is lost depends on the provider counting
  references; regions do stay registered after `Client.Close`.
* `MRPool.Release` may send into a pool already drained (`memory_pool.go:77`):
  the region stays registered in the closed pool for ever. So does a region
  whose deregistration fails, since every caller ignores the error. The comments
  say "Regions with a mismatched size or when the pool is closed are closed
  immediately" (`memory_pool.go:67`) and "Close releases all pooled regions"
  (`memory_pool.go:84`). Neither leaks into another operation, which is what
  `Lease` is about.
* The length of a received message is that of the buffer (`client.go:1238`).
* Accepted clients have no timeout (`listener.go:259`).
* `Dial` enables the endpoint before it binds the address vector
  (`client.go:571`); `docs/MESSAGING_DESIGN.md` asks for the opposite order.
* `peerConfigured` is set whether or not a peer was given (`client.go:648`), so
  `defaultDestination` refuses nobody: without a peer, default sends go to the
  client itself, and those of a datagram client without a vector to address 0.
* `RegisterPeer` succeeds when `fi_av_insert` inserts nothing
  (`internal/capi/av.go:128`): the exception of `DefaultInVector`.
* `Stats` loads its counters one by one (`client.go:923`) and may return a
  completed count above the posted one; `StatsOrdered` is about the counters.
* After an error entry every further `Accept` of the listener fails
  (`listener.go:175`): no property forbids it, since `Accept` does return.

## 7. Modelled from use: the environment

libfabric, `malloc` and `context.Context` are external and appear only as this
code uses them: an operation accepted by a post is reported at most once, by an
entry or an error entry; a read that meets an error entry fails until it is
read; pointers are allocated when free; an object in use is not closed.

`fi_close` of an object others use may succeed or fail; both are allowed. A read
of an event queue that was closed under its reader comes back with nothing or
with an error. `fi_av_insert` gives an address, an error, or neither.

## 8. What could follow

1. `Handlers`: the order of emission against registration and removal, with the
   goroutine each handler runs in; `Client` has the set of handlers only.
2. Registration keys and the access checks of RMA, with `MemoryRegion.Close`
   while a remote peer holds the key.
3. An abstract contract for the handles of `Bringup`: opened once, used while
   open, closed once, for constructors and both `Close`.
4. A liveness proof, should the prover get there: `CloseDrainsBounded` has the
   measure for `CloseTerminates`.

## 9. Not modelled

* Discovery's hints and entries, and version queries: sequential data. The
  life of the list is part of `Bringup`.
* `AddressVector.Remove`, which the client never calls.
* Wait sets: the client polls and sleeps.
* The cgo layer beyond what the environment of section 7 says of it; error
  names; registration options and remote keys; address encoding: marshalling.
* Metric, trace and log hooks: they change no state of the client.
* Tests and examples.
* Data races on handles: a post on an endpoint being closed and a read of a
  queue being closed are given the outcomes of section 7, not a crash.
