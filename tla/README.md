# TLA+ models of rphp

rphp is a PHP implementation in Rust. This directory models the parts whose
correctness depends on orders of events that tests rarely produce: the
process-global allocator (`src/heap`), the coroutine scheduler with its channels,
descriptors and resolver (`src/runtime/coroutine`), and the cycle collector with
the weak maps (`src/runtime/cycle.rs`, `weak.rs`). TLC checks them on small
instances; TLAPS proves central safety properties of five of the modules for
instances of any size.

## The system and its parts

A script goes through lexer, parser, bytecode compiler and a virtual machine with
interpreted, quickened and native regions (`docs/architecture.md`). These are
sequential and data-dominated. The concurrent or re-entrant parts are:

| part | source | modules | proofs |
|---|---|---|---|
| free-page stacks | `heap/region.rs` | `PageStack`, abstract `AtomicStack` | `PageStackProofs` |
| pages, remote frees, thread exit | `heap/pages.rs`, `remote.rs`, `thread.rs`, `slow.rs` | `HeapPages`, abstract `Allocator` | |
| reservation, carving, routing of frees | `heap/region.rs`, `mod.rs`, `slow.rs` | `HeapReservation` | `HeapReservationProofs` |
| large blocks | `heap/region.rs` | `HeapLarge` | `HeapLargeProofs` |
| size classes, realloc | `heap/layout.rs`, `slow.rs`, `mod.rs` | `SizeClasses` | |
| coroutine tasks, timers, join | `coroutine/scheduler.rs`, `scheduler/driver.rs`, `lifecycle.rs`, `readiness.rs` | `CoroutineTasks` | |
| channels | `scheduler/channel.rs` | `CoroutineChannels`, abstract `BoundedFifo` | `CoroutineInvariants`, `CoroutineScopeProofs`, `CoroutineChannelsProofs` |
| descriptors, connects, resolver | `scheduler/io.rs`, `io_connect.rs`, `resolver.rs` | `CoroutineIo` | |
| weak references and maps | `runtime/weak.rs`, `stdlib/weak.rs` | `WeakObjects` | |
| cycle collector, destructors | `runtime/cycle.rs`, `value/mod.rs`, `vm/execute/call_frames.rs` | `CycleCollector` | `CycleCollectorProofs` |

`PROJECT.json` lists every component, with the reason for each that is left out,
the source lines of each definition, and the hazards with the properties that
would notice them.

How they compose. A thread allocates from its own pages; when a page is full it
drains the queue of pages other threads freed into, takes an orphan or a pooled
page (a `PageStack` pop), or carves one (`HeapReservation`). `HeapPages` and
`HeapLarge` treat a stack operation as one step; `PageStack` is shown to implement
exactly that. `CoroutineTasks` has the parts of steps that all waits share;
`CoroutineChannels` and `CoroutineIo` extend it with what a task may wait for and
complete the loop of `next_runnable`. `CycleCollector` extends `WeakObjects`.

`Listing` and `ListLemmas` belong to no part: they hold the notion of a sequence
that lists the elements of a set, each once, and what proofs use of it.

## The modules

**PageStack** has one action per atomic access of `push` and `pop`: `head` is the
packed word (version, index), `link` the word of each entry, `pc`, `entry`, `snap`
and `next` the locals. `VersionModulus` stands for 2^40. The actions are the code's;
`NoFullWrap`, a conjunct of `Next`, is an assumption on scheduling that the code
relies on and does not enforce: no thread stays between reading the head and its
compare-exchange while the version makes a full turn. It is needed: without it, and
with the modulus 4 of the run, TLC finds two threads owning the same entry.

**HeapPages** keeps the owner-only cells (`hdr`, `heap`), the shared words
(`state`: owner, QUEUED, pusher count; `remote`; `nextQueued`; `queue`), the orphan
lists with their lock and counter, and the pools. An action is one access to a
shared word with the private work up to the next one: the orphan count that
`adopt_orphan` reads without the lock, the list it takes a page from and the count it
lowers are three accesses, and so are the three of `orphan_all` that put a page on the
list. A thread may exit and its heap address be reused (`Restart`).

**HeapReservation** models `init_thread` and `alloc_large` up to the carved range:
mode decision, racing `mmap`s, the winner's seven stores one by one, the loser's
`munmap` and spin, the compare-exchange loop of `carve`. `Route` is what a free
does with a pointer, evaluated for every thread and address in every state.

**HeapLarge** tracks, per block, whether its first OS page and its body are dirty,
and what the program was promised to be zero.

**SizeClasses** uses the real constants and table.

**CoroutineTasks** is the scheduler of one `coroutine_scope`: the table of tasks
(`status`, `wait`), the ready queue, the timers in the order of their deadlines, the
pool of stacks, and the scope's single thread (`pc`): in PHP code of the root
(`"php"`), in a task (`"run"`), or at a place of `join` and `next_runnable`. Time is
seen only where `drain_due` reads the clock: any prefix of the timers may be due.
A running task may call `join` too: of a task that has ended it gets the result
(`JoinEnded`); of one that waits it drives `next_runnable` itself (`JoinWaiting`), and
only `resume` of the task popped there refuses it, with that task off the ready queue.
Such an error is a `VmError::Fatal`, which no PHP code catches: the running task is
cancelled by its `resume` and the error leaves the scope (`Fatal`). A scope ends by
returning or by an error, and another may begin.

**CoroutineChannels** adds buffers and the queues of blocked senders and receivers.
A send or receive is one action with the wake of the task at the other end. The
abstract `BoundedFifo` knows one queue: its items are the buffer of channel 1
followed by the values of the blocked senders (`QueueItems`), its stopped users the
tasks that wait at that channel (`StoppedTasks`). What a task does at other channels
is the step `Elsewhere` of the abstract queue.

**CoroutineIo** adds descriptors with waiting readers and writers and their
in-flight flags, pending connects with the addresses left to try, and the resolver:
request queue, threads of the pool, completions, wake stream. What `poll` reports,
the outcome of a connect and the answer to a lookup are the environment's. An
answer with no address stands for a failed lookup and for an empty one. Errors that
leave `next_runnable` half way are modelled as the code has them: due timers and
drained completions not yet handled are forgotten, and the scope ends. A task may
wait for any registered descriptor, as `ensure_waitable` has it: also for one that
another task is connecting and for the wake stream, whose numbers PHP code was not
given (`published`) but may use.

**WeakObjects** is the state of `WeakReference` and `WeakMap`: references by
target, entries, and the count of entries per key (`map_keys`).

**CycleCollector** counts handles: variables, properties, map values, receivers of
running destructors, and handles being dropped. `NativeRoots` are the objects whose
native state keeps them alive whatever their counts say. `stack` holds the activations:
main, destructors, the collector. Between two steps of a pass destructors run PHP
code that may create, link, unlink, resurrect, drop, and collect again. Arrays,
closures and references are nodes of the same graph and have no case of their own.
The order in which the destructors of a pass run, and in which a group of final
objects is released, is any order.

In all modules, atomics are interleaved sequentially: the weaker orderings of
`Ordering::Relaxed` are not modelled. An operator named `...Bug` is the next
operator with a plausible mistake; the properties are tested against them and no
specification uses them.

## Runs

| run | instance | shows |
|---|---|---|
| `page_stack` | 3 threads, 2 entries, modulus 4 | `ExclusiveOwnership`, `CountCoversStack`, refinement of `AtomicStack` |
| `heap_pages` | 2 threads, 2 pages of 2 blocks, 2 classes | conservation of blocks and pages, no lost remote free, no stranded room, also when pages change class; the orphan count is off by at most the page the lock's holder is moving (`OrphanCountLags`) |
| `heap_pages_three` | 3 threads, 2 pages of 1 block, 1 pusher at a time | the remote queue, the pusher count, refinement of `Allocator` |
| `heap_pages_live` | 2 threads, 2 pages of 1 block, 1 pusher at a time | `GivingUpFinishes` |
| `size_classes` | all sizes to 4 KiB and all edges | blocks hold what was asked for, in the smallest class |
| `reservation_race` | 2 threads, 2 mappings | publication, disjoint claims and headers, page lookup, one reservation, every request returns |
| `large_blocks` | 2 threads, 3 blocks, budget 1 | zeroed memory, byte counter, resident budget |
| `coroutine_channels` | 3 tasks, 1 channel of capacity 1 or 2, 2 values | exact ready queue and waiters, real deadlocks, clean end of scope, refinement of `BoundedFifo` |
| `coroutine_io` | 2 tasks, 3 descriptors, 2 lookups of up to 2 addresses, request queue of 1, 1 pool thread | no lost wait, readiness or answer, no false deadlock, everything withdrawn at the end |
| `coroutine_io_live` | the same with 2 descriptors and lookups of up to 1 address | `TasksServed` |
| `coroutine_io_assert` | 3 tasks, 1 descriptor, no lookups | violation: the assertion `OneWaiterInFlight` |
| `cycle_collector` | objects `a`, `b` and map `m`; properties a→a, b→b, a→b; both destructible; a weak reference to `b`; entry m[b] = a | exact key index, nothing reachable collected, nothing lost left behind |

*Bounds.* Three threads are the fewest for a stale pop to meet a pop and a push of
the same entry, and for two freers to race an owner. Two pages suffice for a
current and a retired page, and for an orphan beside an owned page. Two blocks
make a page partly free. A pusher limit of one or two (31 in the code) makes
freers wait. In `heap_pages_live` a page is recycled only while its thread has another
one, so there are two. In `HeapReservation` units are 4 bytes and medium pages 8; one
mapping has a base aligned to a medium page and the other, aligned to a unit only, has
its first medium page above half, so that both cases of the layout occur. Three large
blocks exceed the budget plus one block per thread. Three tasks are a sender, a receiver and one that joins or is
joined, or two blocked at one end of the channel. In `coroutine_io` a request queue
of one (64 in the code) is often full; one pool thread (two in the code) suffices
for a lookup under way beside one queued and one answered; three descriptors are the
wake stream, a connect that fails while another task waits for it, and the next address
(`MaxAddresses` 2) that is tried then. `MaxDescriptors` bounds the descriptors that
exist or are still referred to: an id nobody refers to any more is used again, which
`allocate_id` never does, but nothing can tell the two apart. `TasksServed` ends where a
connect begins, so its run needs neither the second address nor the third descriptor.
Three tasks on one descriptor are two readers and a writer. The collector's instance has a cycle
through one object and through a map entry, a chain between two destructible
objects, and a key that dies before its map; it has no native root
(`NativeRoots` is empty), because one more object takes the run past what TLC can do in
minutes. Symmetry is used over threads, pages,
entries, blocks and values, never in a run with a liveness property.

*Fairness.* `heap_pages_live` assumes weak fairness of the steps of recycling and
orphaning and of finishing a push: a running thread is scheduled again. It assumes
nothing of the program's calls. `reservation_race` assumes the same of a thread
inside a request. `coroutine_io_live` assumes that `join` keeps driving (weak fairness of
the driver's steps, strong fairness of a poll that ends without an interruption),
that the pool's threads go on and lookups return, that time passes every deadline
(strong fairness of finding a given timer due), and that a task's code does not run
for ever. `TasksServed` excepts a joined task that suspends itself again and again:
`join` resumes that one directly, ahead of the queue, and starves the others.

*Deadlock* is checked in all runs.

## What the runs found

`coroutine_io_assert` violates `OneWaiterInFlight`: `poll_ready` asserts that the
direction it takes a waiter from is not in flight (`scheduler/io.rs:284`, 300). A
poll that asks only for writability may report a hang-up, and `poll_ready` then pops
a reader too, while the readiness given to the previous reader has not been
acknowledged. The panic is a state of the model (`"panicked"`), from which only a new
process starts.

A second panic is reachable, in `coroutine_io`: task 1 connects to a host with two
addresses, task 2 waits to read from the descriptor of the connect by its number, and
one poll reports both directions. Task 2 becomes Ready with the readiness in flight,
the connect fails and its descriptor is removed, the next address goes on, and the
`resume` of task 2 finds no descriptor against the `expect` "ready coroutine descriptor
must remain registered" (`scheduler/io.rs:229`; action `AcknowledgeStale`).
`InFlightTracked` states that this happens to no descriptor PHP code was given. In the
same way a task may lose its place in the queue of such a descriptor and then wait for
ever; `WaitersRegistered` and `NoFalseDeadlock` state that it happens to no other wait.

A task that calls `join` makes `next_runnable` pop a task it may not run; the scope
then ends with that task off the ready queue (`QueuedOnce`). It ends cleanly all the
same (`ScopeEndsClean`).

Two observations on the collector, made while choosing its properties:

- On a larger instance (objects a, b, c and a map m; properties c→c, c→a, a→b; an
  entry with key b and a scalar value; a destructible) an identity that is stale
  when the first graph is traced is released after the destructors
  (`cycle.rs:598`). If a destructor removes the entry that pinned it, a new object may
  have taken the address, and loses its weak state. `ReachableNotCollected` is
  therefore stated of the collected objects only.
- A destructor selected by a pass may be skipped when an earlier one of the same
  pass unlinks its object and the object is released in the ordinary way; so "Retire
  every selected destructor" (`cycle.rs:645`) does not mean that each is called by
  the pass.

## Proofs

All theorems are of the form `Spec => []P`, or `Spec => Abstract`, for the
specification and the property of the runs. Each rests on an inductive invariant,
with one lemma or step per action.

| theorem | states | for any |
|---|---|---|
| `PageStackProofs!TypeCorrect`, `OwnershipIsExclusive`, `CountIsEnough` | `TypeOK`, `ExclusiveOwnership`, `CountCoversStack` | threads, entries (finitely many), modulus of at least 2 |
| `PageStackProofs!StackRefinement` | `ImplementsAtomicStack` | the same |
| `HeapReservationProofs!CarvesAreDisjoint`, `ReservedOnce` | `ClaimsDisjoint`, `OneReservation` | threads, unit sizes, mappings |
| `HeapLargeProofs!BudgetHolds`, `ZeroedMemory` | `ResidentBudget`, `ZeroedIsZero` | finitely many threads, blocks, budget |
| `CoroutineChannelsProofs!ReadyQueueIsExact`, `WaitersAreRegistered`, `DeadlocksAreReal`, `ScopesEndClean` | `QueuedOnce`, `WaitersRegistered`, `DeadlockIsReal`, `ScopeEndsClean` | tasks, channels, capacities, values |
| `CoroutineChannelsProofs!ChannelRefinement` | `ImplementsFifo` | the same |
| `CycleCollectorProofs!KeyIndexIsExact` | `KeyIndexExact` | objects, properties, classes, maps |

**PageStackProofs**, under `NoFullWrap`. `StackInv` adds to the types that the
entries behind the head can be ranked (each linked to the one below, none of them
held), that the counter is the depth plus the threads between counting and linking,
and that what a thread remembers is true while the version it read is current. The
existential rank replaces a walk along the links. The rank is unique, so the
entries in the order of their ranks are the abstract stack (`Contents`): a push
whose compare-exchange succeeds puts one entry in front, a pop takes the first, and
every other access leaves the sequence alone. That gives `StackRefinement`; the
depth is the length of the sequence, which gives `CountIsEnough`.

**HeapReservationProofs**, for any threads, unit sizes (`UnitsAssumption`) and
mappings that leave a reserve and hold their header array below half
(`MappingsAssumption`; the smallest mapping of the code is far larger):
`CarvesAreDisjoint` (`ClaimsDisjoint`) and `ReservedOnce` (`OneReservation`).
`RangeInv` says that all mappings but at most one belong to threads about to swap,
that a base is set together with one winner who has stored the fields before its
step, that nobody relies on the range before `reserve` is stored, and that carved
ranges lie between the start of their region and its cursor, in order. The
arithmetic of `reserve_range` is in `LayoutFacts`.

**HeapLargeProofs**, for any finite set of threads, any blocks of bounded length and
any positive budget: `BudgetHolds` (`ResidentBudget`) and `ZeroedMemory`
(`ZeroedIsZero`). The first holds while the kernel has refused to drop no block. The
budget is not inductive because it is checked in one step and
added to in another: each thread between the two reserves one longest block. For
the contents, `OwnInv` puts every carved block in exactly one place (held, on one
stack, with one thread) and `ZeroInv` says which of its parts may be dirty there.

**CoroutineScopeProofs** and **CoroutineChannelsProofs**, with the invariants in
`CoroutineInvariants`. The first proves that each step keeps them (the facts only one
of its two inductions needs are the first named steps of that induction's proof), the
second the refinement and the theorems. `QueueInv` states the ready queue as an
injective listing of the Created and Ready tasks (`Lists`), of all but one of them once
a join that a task has called has popped that one (`Nested`), and that the active task
is Running, also while a join it has called looks for another. `ScopeInv` adds what the other properties need and none of them says by
itself: the senders, the receivers and the two lists of timers list exactly the tasks
with that wait reason (`Registered`, until the scope has ended, when the lists are
dropped unread); a channel has blocked senders only when it is full and blocked
receivers only when it is empty (`OneSided`), without which a reported deadlock might
not be one and a receive might overtake a blocked sender; live tasks and no others
have stacks (`Stacked`); and what the scope's thread has found out at each place of
`next_runnable` (`Driven`). For `ChannelRefinement` each branch of send and receive
is one step of the abstract queue: a value handed to a waiting receiver, one that
fits, one that blocks its sender, and a receive that lets the next blocked sender's
value in.

**ListLemmas** proves what becomes of a listing when an element is appended, removed
or taken from the front. Two techniques are used there and in the modules above.
Where a proof needs induction it takes the least number that fails, because the
library's induction theorems are out of the provers' reach. And the few facts on
numbers and finite sets that the lemmas need are the hypothesis `Counting` of those
lemmas; `CardinalityCounts` proves it from the library, at the end of the module of
the theorems.

**CycleCollectorProofs**, for any objects, properties, classes and maps:
`KeyIndexIsExact` (`KeyIndexExact`). `KeyInv` adds that a map has at most one entry
per key and that entries are finitely many.

Only model-checked: the properties of `HeapPages` with the refinement of `Allocator`,
whose invariant relates nine variables in some thirty actions; `FreesGoHome` and
`HeadersApart` of `HeapReservation`, which divide addresses by page sizes;
`WarmBytesCover` of `HeapLarge`, a sum over stacks; the properties of `CoroutineIo`;
`ReachableNotCollected` and `CollectsAll`, which speak of reachability; `SizeClasses`,
whose table is checked entry by entry; and liveness. The provers have no induction
over data, which sums and reachability need, and no fairness.

## Not modelled

- Heap: weak memory orderings; the debug bitmap (`heap/debug.rs`); failure of
  `System` allocations; transparent huge pages.
- Coroutines: bytes, addresses and names; non-blocking reads, writes, accepts and
  datagrams, which change no state of the scheduler but for the descriptors they
  make; the contents of frames and the exchange of executor state in `resume`.
- Collector: objects that are mutably borrowed while a collection runs; fibers and
  generators as owners; exceptions thrown by destructors; the
  automatic start and its threshold; roots from before the collector was enabled;
  iterators over maps, `clone` of a map, the death of a `WeakReference` object, and
  values shared by reference.
- Fibers and generators themselves: their transitions are those of saved
  interpreter frames and of exceptions unwinding through them; a faithful model
  needs one of the virtual machine.
- The lexer, parser, compiler, virtual machine, native code generator and standard
  library are sequential transformations of data whose specification is PHP itself.
