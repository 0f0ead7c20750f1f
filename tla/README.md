# FAT-P: a verification project

TLA+ models of the stateful core of FAT-P, a header-only C++20 library
(`include/fat_p/*.h`), with the TLC runs that check them and the proofs that
TLAPS checks. Line numbers refer to the headers of this commit.

Contents: 1 the system; 2 what is modelled; 3 how a model relates to the code;
4 the runs; 5 where code and documentation disagree; 6 the proofs; 7 what only
TLC has checked, and what nothing has; 8 the plan.

## 1. The system

FAT-P is a set of some sixty components, each a header (or a few), with tests and
documents under `components/<Name>/`. They form layers: most are sequential
value types, containers and compile-time machinery; a few keep state that several
threads share, and those are the ones whose correctness a test hardly reaches.

| Component | State it keeps | Operations that change it | Hard behaviour | What makes it correct |
|---|---|---|---|---|
| LockFreeQueue | two position counters, a ring of slots with a sequence number each | enqueue, dequeue, (empty, size read) | any number of producers and consumers; a thread may stop between claiming a slot and publishing it | a slot is never used by two threads; the calls implement a bounded FIFO; a failure has a cause |
| LockFreeRingBuffer | the same, for one producer and one consumer (SPSC) or many (MPMC) | push, pop, peek | as above; capacity rounding | as above |
| CircularBuffer | ring, two wrapping indices, a private cached copy of the other side's index on each side | push, emplace, pop, front, clear | stale caches, index wrap, throwing assignments, observers on a third thread | FIFO, true failures, a front that stays put |
| ThreadPool | a global priority queue, a deque per worker, pending and active counters, flags, two condition variables | submit, submit_priority, submit_batch, wait_idle, shutdown, the worker loop | tasks that submit tasks, stealing, lost wake-ups, allocation failure, shutdown racing submission | every admitted task runs exactly once; wait_idle() covers what came before it; shutdown() drains |
| Signal | list of slots, list of parked connections, recursion depth, cleanup flag, alive token | connect, disconnect, disconnectAll, emit, emitCollect, emitUntil | slots that call the signal again, on several threads, under a lock that is shared, exclusive or neither; throwing slots | the list does not move under an emission; no connection is lost; calls return |
| WorkQueue | shards of lock-free queues, tokens | enqueue, dequeue with a preferred shard | probing one shard after another while the others change | nothing lost; per-shard order |
| ConcurrencyPolicies | locks of fifteen kinds | lock, try_lock, update | hand-over, reclamation | mutual exclusion; no reader sees freed memory |
| ServiceLocator | registry, state per singleton, one gate for factories | resolve, register, remove | factories that resolve other services, on several threads; removal during creation | one instance per registration; no deadlock |
| RateLimiter | tokens, timestamps or a level, per limiter | try_acquire, acquire, refill, leak | clocks, truncation, deadlines | never more than the rate allows |
| ObjectPool, SlotMap | free lists, generations | acquire, release, insert, erase, clear | exceptions between two steps, T's code that calls the pool again, wrap of generations | no double use; a stale handle is found out |
| StringPool | interned strings, statistics | intern, clear | two locks in a row, failing allocation | one copy per string |
| IdGenerator | a counter, a pool or free intervals, the active identifiers, guards | generate, claim, release, batches, reset | rollback of a batch, guards that outlive their identifier, the top of the type | nobody's identifier is issued again |
| FeatureManager | a graph of relationships, who is on | enable, disable, replace, scopes | cascades, rollback, other threads between a scope's steps | the state satisfies every relationship |
| FastHashMap | control bytes with a mirror, slots, counters | insert, erase, reserve, rehash | tombstones and backward shift, groups that wrap | a lookup ends and finds what was put |
| StateMachine, SlidingFileWindow, StableHashMap | a state; a window on a file; chains of nodes | transition; slide; insert | throwing actions | all or nothing |
| containers, serialization, arithmetic, tensors, error handling, reflection, diagnostics, test and benchmark harness | values | many, sequential | numeric edges | functional correctness; mostly within reach of unit tests |

Interactions. `WorkQueue` is built of `LockFreeQueue` shards. `LockFreeQueue`,
the single-producer ring of `LockFreeRingBuffer` and `CircularBuffer` promise the same thing, a bounded
FIFO queue, and are checked against one abstract specification of it. `Signal`
takes its lock from `ConcurrencyPolicies`, keeps its slots in a `SmallVector`
and restores its depth with a `ScopeGuard`. `ThreadPool` calls user tasks, which
call `submit()`; `Signal` calls user slots, which call the signal;
`ServiceLocator` calls user factories, which call the locator; `ObjectPool` calls
constructors, which may call the pool: the callbacks, under locks or in the middle
of an operation, are where most of the hard behaviour is.

## 2. What is modelled

| Module | Models | Lines of the header |
|---|---|---|
| `BoundedFifo` | the abstract queue: a sequence that `Put` extends when there is room, `Take` shortens when there is something, and `HandOver`, which gives the taker what it took | - |
| `LockFreeQueue` | `LockFreeQueue.h`: all operations | 154-340 |
| `CircularBuffer` | `CircularBuffer.h`: all operations, with the index arithmetic modulo a power of two | 120-490 |
| `ThreadPool` | `ThreadPool.h`: `WorkStealingQueue` and `ThreadPool` | 80-761 |
| `Signal` | `Signal.h`: slots, emissions, deferred cleanup | 370-1100 |
| `Locks` | `ConcurrencyPolicies.h`: spin, ticket, MCS and adaptive lock, guards and `try_lock()` | 850-1990 |
| `OptimisticReads` | `ConcurrencyPolicies.h`: sequence lock, versioned lock, RCU | 1060-1560, 2130-2230 |
| `HazardPointers` | `ConcurrencyPolicies.h`: records, `protect()`, `retire()`, scans, thread exit | 1560-1790 |
| `SpscRing` | `LockFreeRingBuffer.h`: the ring of one producer and one consumer | 89-422 |
| `WorkQueue` | `WorkQueue.h`: routing, probes, scans, tokens, over shards | 60-645 |
| `ServiceLocator` | `ServiceLocator.h`: registration, resolution along parents, singletons and their gate | 340-1561 |
| `SlotMap` | `SlotMap.h`: slots, dense array, erase map, free list | 235-961 |
| `ObjectPool` | `ObjectPool.h`: blocks, free list, compaction | 128-525 |
| `RateLimiter` | `RateLimiter.h`: token bucket, sliding window, leaky bucket | 118-431 |
| `StringPool` | `StringPool.h`: `intern()` under its two locks, statistics | 238-439 |
| `FeatureManager` | `FeatureManager.h`: relationships, plans, batches, scopes | 363-3266 |
| `FastHashMap` | `FastHashMap.h`: probing, both deletion policies, rehashing | 343-1860 |
| `IdGenerator` | `IdGenerator.h`: allocation and recycling policies, claims, batches, guards | 377-2936 |
| `RingLemmas` | arithmetic of slots and tickets, for the proofs | - |
| `LockFreeQueueProofs` | the theorems about `LockFreeQueue` | - |
| `RingProofs` | the theorems about `CircularBuffer`, `SpscRing` and `FastHashMap` | - |
| `PoliciesProofs` | the theorems about `Locks`, `HazardPointers`, `OptimisticReads`, and the three together | - |
| `ThreadPoolProofs` | the theorems about `ThreadPool` | - |
| `SignalProofs` | the theorems about `Signal` | - |
| `ContainersProofs` | the theorems about `ServiceLocator`, `StringPool`, `WorkQueue`, `ObjectPool`, `SlotMap` | - |
| `ServicesProofs` | the theorems about `RateLimiter`, `IdGenerator` and `FeatureManager` | - |
| `MCPolicies`, `MCContainers` | several small components in one specification: a behaviour is about one of them (`part`) | - |
| other `MC...` | instances for TLC: symmetry sets, task bodies | - |

`PROJECT.json` lists every component of the repository with its status, and
maps every definition to the lines it stands for.

## 3. How a model relates to the code

**Actions.** One action per access to shared memory that another thread can tell
apart: an atomic load, store or read-modify-write, or a region under an exclusive
lock. Local computation between two of them belongs to the action before or after.
A copy of a value into or out of a slot is not atomic in the code and is an
action of its own, so that a race on it would be visible as two threads at the
same slot (`SlotExclusive`). A variable has the name of the member it stands for;
`pc` and the locals are per thread; a variable called a *history* is read by
properties only.

**Memory order.** The models interleave the atomic accesses, that is, they are
sequentially consistent. What a weaker order of the accesses (the code uses
acquire, release and relaxed) could add is not explored. In `LockFreeQueue` and
`CircularBuffer` a stale read of another thread's counter can still happen: the
code reads it into a local or a cache and uses that later.

**Data.** Values, tasks and slots are model values. What the code does to a
payload (hash, print, convert) changes nothing here.

### LockFreeQueue

`mEnqueuePos`, `mDequeuePos`, `sequence` and `data` are the members; `pos` and
`item` the locals. `Claim...` is the compare-and-swap, `Retry...` its failure.
The counters have 64 bits; at one operation per nanosecond they wrap after five
centuries, so they are natural numbers, and `MaxTickets` bounds them for TLC: no
call of `enqueue()` starts once that many tickets are out. `Stalled` is the set of
threads fairness is not assumed for: they may stop for ever anywhere in a call.
`log` records the values in the order their tickets were claimed; the abstract
queue of the refinement is the part of the log between the two positions. That is
the point of the model: a value is in the queue as soon as its ticket is claimed,
although the slot is written later, and out of it when its ticket is claimed by
a consumer.

### CircularBuffer

Indices are numbers modulo `Modulus`, which stands for 2^64 and is a small power
of two at least twice the ring's size, so TLC sees every wrap: with Modulus 8 and a ring of 4 the
indices go round after two laps, and no call is bounded. The one bound is
`WithinLap`: no `push()` begins when the indices could go all the way round
during one bracket of an observer's loads, which with 64 bits would take
centuries. `mCachedReadIdx` and
`mCachedWriteIdx` are the private copies; `PushFails` needs both the cached and
the fresh index to say "full". The assignment of an element may throw
(`PushThrows`, `PopThrows`); as the code's comments demand, a throwing move
leaves its source as it was. `clear()` and `clearAndDestruct()` are documented
as unsafe beside other calls and are only taken when both sides are idle. The
operands of `==` in `empty()` are evaluated in either order (`LoadFirst`), as the
standard allows.

### ThreadPool

`globalQueue`, `localQueues`, the counters and the flags are the members. A thread is a worker
or a client. Each client makes any of the calls the instance allows it; a task is
submitted once; the body of a task may submit others (`Spawns`), through the same
`SubmitStep` a client goes through. `AllocFails` names tasks whose push may throw.
Condition variables: `Asleep` and `IdleWaiters` are the threads in a wait, a
notification wakes one or all of them and is lost on none; the timed wait of a
worker may time out at any moment. Mutexes that only cover one access do not show;
`submit_batch()` holds the global queue's mutex across its pushes, and does show.

### Signal

A thread is a stack of calls, the innermost last: a slot called by `emit()` may make any call the
thread may make. `Frame` is an activation: operation, place in it, and the index
of its loop. `shared[t]` counts the shared locks of a thread, which a nested call
takes again. The lock is that of `SharedMutexPolicy`; `WritersFirst` says
whether its `std::shared_mutex` makes new readers wait for a waiting writer, which
the standard leaves open. An exclusive region is one action. `connectManual()`,
`disconnect()` and `disconnectAll()` look at the depth a second time under the
exclusive lock; `DepthCountsEmissions` (in `DepthIsSound`) shows that they then find 0, and the branch for anything
else is not written out.
`Propagates` is the set of emission policies, of which a behaviour has one, `propagates`. Bounds: `MaxCalls` calls per thread, those
of its slots included, and `MaxSlots` connections. Not modelled of `Signal.h`:
`ScopedConnection` and its alive token, move construction, the read-only
queries, and `SpinlockSynchronizationPolicy`, whose shared lock is exclusive and not
recursive, so that a slot which uses the signal waits for itself.

### Locks, OptimisticReads, HazardPointers

Each is about one policy at a time, chosen in the initial state. In `Locks` a thread is at one atomic access
of `lock()`, `try_lock()` or the guard's destructor. Ticket numbers wrap at
`Modulus`, which stands for 2^64; the bound `NotLapped` says that a `try_lock()`
between its loads and its compare-and-exchange is not overtaken by a whole round of them. A
`try_lock()` that succeeds on the ticket lock keeps it (`kept`): the policy has no
way to release it. `arrived` is a history. Not modelled: the wrappers of
standard mutexes, the scaling of the adaptive lock's spinning and window by the
number of processors.

`OptimisticReads` gives the data two words, read and written one by one, which is
what makes a torn read visible. RCU's objects are recycled as soon as nobody
refers to them, so a stale snapshot would be seen. The SeqLock excludes no
writers: `SeqWriters` holds the one that may use it, and with two the model shows
torn reads at once. Not modelled: the RCU variant with two mutexes.

`HazardPointers` links each node once; `Nodes` bounds how many there ever are.
A scan takes the list of records under the global mutex and the hazard pointers one by one, so that a
`protect()` can publish between two loads. Not modelled: the destructor of the
domain, which must be alone.

### SpscRing, WorkQueue

The ring is `CircularBuffer`'s with every cell in use and positions that run
freely modulo 2^w; `Requested` is rounded up as the constructor rounds it. A
look at the ring (`empty()`, `full()`, `size()`) changes nothing, so one at a time shows
all it can return. A shard of `WorkQueue` is an abstract queue that refuses and is in contention
as `LockFreeQueueProofs` shows its queue may: failing without cause only while
another thread is in the middle of a call on it. `ready` is a history, the shards that could
have served the call all along. Not modelled: the ring of many producers and
consumers (the algorithm of `LockFreeQueue`), adaptive back-off.

### ServiceLocator, SlotMap, ObjectPool, RateLimiter, StringPool

A resolving thread is a stack of frames, one per factory that waits for another
resolution; the registry is read under the shared lock and the creation state
under its own mutex, each in one action, and factories run without either. An entry is identified by its
registration, so that a removal and a second registration under the same key
are told apart.

The four vectors of `SlotMap` are sequences, of which an exception may cut off the
operation at every step that constructs; generations wrap at `GenModulus`, and a
handle issued a whole round earlier is not used again (bound). `ObjectPool`'s `busy` is the stack of
constructors and destructors in progress, each of which may call the pool; `cut` is a history: a
compaction failed after it had emptied the free list, and none has succeeded since. Time in
`RateLimiter` is counted in ticks, `TicksPerToken` of which make a token; the
rounding of floating-point tokens is left out. `StringPool` has the two locks of `intern()`, the
lookup under the shared one and the second lookup and insertion under the
exclusive one.

### FeatureManager

A plan is a record that the planning functions pass on (`PlanEnable`,
`PlanDisable`), as the code passes a `TransactionPlan`; a transaction plans,
validates and commits under one lock. The nesting of calls is what a planning function is
defined by: `PlanDisable[calls]` is `DisableClosure` with `PlanDisable[calls - 1]` for the calls
from inside, and a call at the limit of depth (`calls = 0`) fails. A loop is `After(step, start, n)`,
what `n` steps make of `start`. The search of `validate()` keeps the list of work, with its marks
and depths, and gives up beyond `kMaxValidationDepth` as the code does (`Visit`); `MaxVisits` is no bound
of the model, but what the search needs at the most, which is proved. `ScopedFeatureChange` does it in three
critical sections and undoes in a fourth, and other transactions come in between. `changed` is a history of
who changed what around the scope: its own operation, others before it compared the states, others since.
`mFeatures` is a hash table, and the loops over it (841, 1283, 1318) go in the order of the hashes; the model takes
the order of the numbers, on which the order within a plan depends, but not what the properties
say of it. Not modelled: groups, JSON, lists of observers, features registered later.

### FastHashMap, IdGenerator

`FastHashMap` keeps the bytes, the mirror of the first group and the probe
sequences as they are; a group is searched as a set. Probing that never ends is
a probe sequence without an empty byte, `~Ends`. Hash functions are a variable: TLC
tries all of them, in non-decreasing order because keys are alike. Not modelled: `freeze()`,
which only debug builds look at, the fixed allocator, iterators. A capacity that doubling makes is
`kMinCapacity` times a number without an odd divisor (`PowerOfTwo`); the loops of `rehash_internal()` and of
the backward shift are functions of the number of slots they have been at.

A step of `IdGenerator` is a call, which holds the lock from beginning to end. The
activation token of a guard is the guard's own name, which is as good as an
address: a guard has one activation at a time. `owner`, `ahead` and `used` are histories, of
what has been given to whom, and say what the generator should know. Not modelled: random
allocation, moving generators, which the aliases cannot do, and a domain without an identifier or
with one: the base is below the last value of the type, and the bound not below the base (`IdAssumption`).

## 4. The runs

All passing runs are exhaustive within their bounds. Sizes are distinct states.

| Run | Instance | Shows |
|---|---|---|
| `lfq` | 2 producers, 2 consumers, 1 observer, 2 slots, 3 tickets; one thread on each side may stop for ever (352,973) | one thread per slot; refinement of `BoundedFifo`; a call that fails saw a full (empty) queue or one whose next slot another thread holds; `size()` and `empty()` never report more than was there; every call of a thread that runs returns, whatever the stalled ones hold |
| `tp_safety` | 2 clients, 2 workers, a batch of two whose first task spawns a third, a fourth submitted by itself, pushes that may throw (2,556,943) | each task in one place, counters, drain, `wait_idle()` |
| `tp_progress` | 2 clients, 2 workers, 2 tasks (35,596) | admitted tasks run, calls return |
| `sig` | two threads, two priorities, slots that throw, both emission policies (846,408) | depth, order, no connection lost or doubled, a list that does not move under an emission, skipped slots, every call returns and parks nothing for ever |
| `policies` | three threads on each lock with tickets modulo 4; two readers and two writers; two threads, three nodes (235,106) | the locks exclude, in the order they promise, and are not lost; what was read without a lock is whole; nothing protected is deleted and garbage is bounded |
| `containers` | the eleven components below (877,377) | see below |

The components of `containers`, with their own bounds in `Containers.cfg`. A behaviour is about one of them; two of
them, `CircularBuffer` and `FeatureManager`, are run with two sets of bounds each:

| Component | Properties | What they say |
|---|---|---|
| `CircularBuffer` | `BufferIsSound`, `ImplementsFifo`, `FailuresAreTrue`, `SizeIsFaithful` | exclusion and a stable `front()`; FIFO refinement with throwing assignments and `clear()`; a failed call met a full or empty buffer; `size()` was true at some moment of the call, or is the documented estimate |
| `SpscRing` | `RingIsSound`, `RingImplementsFifo` | no cell is written while it is read; FIFO refinement; `empty()`, `full()` and `size()` are true at some moment of their call for the two sides, and within the capacity for anybody |
| `WorkQueue` | `WorkIsDelivered` | an item is in one shard until one consumer has it; a caller is refused only if no shard could serve it all through the call |
| `ServiceLocator` | `SingletonsAreSound`, `WaitsAreSound` | a factory makes its singleton once, one chain of factories runs at a time, what it made is published under its own registration only; no ring of waiting threads, and a reported circularity is one |
| `SlotMap` | `SlotsAreSound` | the vectors agree after failed insertions too; a handle is valid exactly as long as its element is there, and finds that |
| `ObjectPool` | `PoolIsSound` | a node has one user, whatever constructors do; the counters count the users, and the free list unless a compaction failed |
| `RateLimiter` | `RatesAreKept` | over every interval of time: a burst and what is refilled; no window with too many, wherever it is laid; the queue and what leaks |
| `StringPool` | `StringsAreSound` | one copy per string; statistics whose differences do not wrap |
| `FeatureManager` | `PlansAreSound`, `ScopesUndoTheirOwn` | a cycle is reported if and only if there is one; a plan changes nothing without a cause, and is reported as carried out; a scope undoes all of what changed until it had compared the states and nobody has changed since, or nothing, and what it makes satisfies every relationship |
| `FastHashMap` | `MapIsFaithful` | a lookup finds what was last put and nothing that was erased, and ends; no key twice; the counters behind rehashing are right |
| `IdGenerator` | `IdsAreSound` | active is what somebody has, whatever fails and whichever guard outlives its identifier; the pool has no gap, keeps its order and refuses only when all are active; free intervals are disjoint, not adjacent, the rest of the domain, and paid for |

A property of the tables is often a conjunction of named parts, each with a
comment of its own in the module. `ContainersTypeOK`, `PoliciesTypeOK` and the
first conjunct of `CountersAreSound`, `DepthIsSound` and `BufferIsSound` are the
type invariants; `LockFreeQueue`'s is proved (`TypeCorrect`) instead of run.

Why the bounds are enough to be interesting. `lfq`: three tickets on two slots
reuse a slot after a full lap, so a thread can meet sequence numbers of three laps;
two threads on each side race for one ticket. One value is enough there because the log
tells positions apart; that the order is right for all values is `QueueImplementsFifo`.
`CircularBuffer`: two elements in a ring of four, modulo 8, can be out of order, and wrap both index and ring with the
buffer empty and full at each phase. Without an observer (`buffer`) there are two values, throwing assignments,
`front()` and `clear()`; beside an observer (`observed`), who looks at indices only, all elements are alike
and neither throw when they are put nor are looked at by `front()` (`ElementsAlike`). The theorems are for every `Capacity`.
`tp_*`: two workers are what stealing needs, a spawning task is what a worker's
own `submit()` needs, a batch of two can break off in the middle, two clients are what submission against `shutdown()` and
`wait_idle()` needs. `sig`: two threads are what an emission against a
disconnect needs, three calls per thread reach an emission inside an emission
with a call inside that, and two connections of two priorities can be out of order.
`policies`: three threads are a holder, a successor and one between its exchange of the tail
and its link; four tickets wrap. `ServiceLocator`: two threads, a locator and its parent, three
nested factories. `SlotMap`: six changes to three slots reuse a slot several times; a generation does not wrap, as the
theorem's assumption `NoWrap` says too (section 6). `FeatureManager`:
three features and two relationships of any kinds are every pair of kinds in a
chain, a fork or a cycle; with a limit of five nothing is too deep there, and what happens beyond the limit
is covered by the theorems, which hold for every limit. That is without a scope (`features`); beside one (`scopes`) there
is one relationship at a time, which can appear, or go with `clear()`, at any point of the scope. `FastHashMap`: groups of two in tables of four and eight slots, two hashes that differ in
the group or collide, so groups wrap, tombstones are reused and tables are rebuilt at the same
size. `IdGenerator`: four identifiers, of which the last may be the sentinel
or the bound, reach both ends of the domain and intervals that merge on both sides.

Deadlock is checked wherever a stuck state would be wrong. In `Signal`,
`MCPolicies`, `MCContainers` and `FastHashMap` a run out of calls stops, and the configurations say so;
there `CallsReturn`, `LocksProgress` and `WaitsAreSound` look for threads that are stuck.

**Fairness.** `LockFreeQueue`: weak fairness of each thread that is not stalled,
inside a call; the calls of the code have no lock, and a running thread takes its
next step. A compare-and-swap that fails has been overtaken by another call, and
the bound on tickets bounds how often; so the run shows lock freedom, not
wait freedom. `ThreadPool`: strong fairness of each thread. A mutex or a condition
variable is granted again and again but not continuously; the
schedulers the library runs on do not pass over one waiter for ever. The timed wait's
timeout is part of a worker's steps: without it `TasksRun` fails, which is the
mutant `Fault_WaitForever`, because a notifier does not hold the mutex and the
wake-up can fall between the predicate and the sleep. `Signal`: weak fairness of
each thread inside a call, which includes that slots return. `Locks`: weak fairness of each
thread inside a guard or its acquisition (`LocksFairness`): the scheduler runs every
thread and critical sections end. That is not enough for a thread to get a
spinlock, and `LocksProgress` claims that for the ticket and MCS lock only; of
the others it says that somebody enters. `OptimisticReads`: of readers only
(`ReadsFairness`); a writer may stop anywhere, and readers return all the same. The containers
are checked for safety.

Each property has a mutant in `PROJECT.json`: an operator of the same module with
one plausible mistake, under `Fault_...`, that TLC shows to break it.

## 5. Where code and documentation disagree

Each of these is a run that TLC is expected to violate. The property states what
a comment or a manual says.

| Run | What happens |
|---|---|
| `lfq_capacity_one` | with `MaxSize` 1, which the `static_assert` allows, "free for the next lap" and "filled" are the same sequence number: two values are in a queue of one |
| `cb_full` | the third-thread hazard that `size()` was hardened against is still in `full()`: the read index overtakes the loaded write index and the difference wraps |
| `tp_wait_race` | `wait_idle()` returns although some task was queued or running at every moment of the call |
| `sig_writer_first` | with a shared mutex that favours writers, a slot that uses the signal and a writer on another thread wait for each other |
| `versioned_torn` | a `VersionedLockPolicy` read that began before a writer came validates although the writer is in the middle: the version changes only when the writer leaves |
| `hash_full` | `rehash(size())` with tombstones, which the manual recommends, builds a table without an empty slot when `size()` is a power of two; the lookup of an absent key then never ends. For fewer slots than elements the rebuild itself never ends |

Seen while modelling, and not given a run of their own:

- `LockFreeQueue`: `dequeue()` fails on a queue that holds a published value behind
  a claimed but unpublished one, and `enqueue()` on one with a free slot behind one that is
  being emptied; `FailureHasACause` is what does hold.
- `CircularBuffer::empty()` answers wrongly from a third thread in a build that
  evaluates the right operand of its `==` first.
- `ThreadPool`: a worker tries the global queue before its own deque, where the
  user manual has them the other way round, and priorities do not order the deques.
- `Signal`: with `PropagateExceptionPolicy` a slot that throws skips the
  cleanup, and connections parked in that emission stay parked until a later
  one; a soft delete that comes after the outermost emission tested the flag leaves
  its tombstone until then; a slot found active may be called after a
  `disconnect()` on another thread has returned.
- `ObjectPool`: `stats()` asserts `(mAcquiredCount + mFreeCount) == total`, "counter mismatch"
  (`ObjectPool.h:557`). `acquire()` takes a node off the free list before it constructs T and counts it as
  acquired after that; `release()` counts it as returned before it destroys T and as free after that. With
  `SingleThreadedPolicy` T's constructor and destructor may call `stats()`, and find the sum one
  short for each T that is under construction or destruction: a debug build stops there. `CountersAddUp` says by how
  much the sum is short.
- `ObjectPool`: `Stats::available` is "Objects currently in free list" (`ObjectPool.h:537`), and
  `available()` the "number of objects available for acquire()" (line 600). `try_compact_free_list()` sets
  `mFreeList` to `nullptr` (499) before it reserves its vector of blocks (503). When that throws, `mFreeCount` stays the
  number of all nodes although none is on the list; `acquire()` allocates another block, or
  `try_acquire()` returns nothing, until a compaction succeeds. `CountersAddUp` claims the documented
  meaning only while no compaction has failed (`~cut`).
- `SlotMap`: `insert_at()` past the end leaves slots of generation 0 below the hint,
  and an `insert_at()` whose constructor throws takes a new slot's generation back
  to 0; of such a slot 0 the default-constructed handle is valid
  (`SlotMap.h:949` says "refers to an existing element").
- `FeatureManager`: `replace(from, to)` where `to` requires `from` leaves `from` on;
  enabling a feature that preempts another one with which it shares an entailed
  feature always fails; `forceExclusive()` can fail for other reasons than the internal
  conflict its comment names; relationships added late, and a group of a name that is
  taken, can leave a live state that breaks them; a scope takes what another thread changed between its snapshot
  and its comparison for its own and undoes it, though "Rollback only considers features that are still in the state
  this guard set them to" (`FeatureManager.h:1619`); `batchDisable()` inserts into
  the unordered set it is iterating; notifications of two transactions can arrive
  in the other order.
- `FastHashMap`: an assignment that throws in the middle of a backward shift leaves the
  count too low and a byte that is another slot's.
- `IdGenerator`: without recycling ("Released IDs are never reused", User Manual
  line 558) the last identifier of the type, or of the bound, is issued again
  whenever it has been released, because the counter stays there; the conjunct
  about `used` leaves it out. A batch that
  runs into the sentinel rewinds the counter by one less than it should, which
  loses an identifier.

## 6. The proofs

`LockFreeQueueProofs` proves, for every number of threads, slots and values, and
without the bound on tickets playing a part:

- `TypeCorrect`: `Spec => []TypeOK`;
- `Invariance`: the inductive invariant `IInv` below;
- `SlotsAreExclusive`: no two threads copy into or out of one slot at a time;
- `FailuresHaveACause`: what a failing call saw;
- `QueueImplementsFifo`: every behaviour is one of `BoundedFifo` under the
  mapping of section 3;
- `ObserversBoundBelow`: what `empty()` and `size()` may be trusted for.

All but the first assume `MaxSize >= 2`. The run `lfq_capacity_one` shows that
the assumption is needed. `MaxSize` need not be a power of two: the code's
`static_assert` is there for the mask.

`SlotExclusive` is not inductive: whether a thread is alone at a slot depends on
what the sequence numbers say about threads that are not there. `IInv` says that:
`PcOK` and `PositionsOK` bound each thread's local ticket by the counters;
`WritersOK` and `ReadersOK` say that a thread between its claim and its
publication finds the sequence number of its slot at its own ticket (plus one,
for a reader), and that no other thread has that ticket; `QueuedOK` says that a
slot whose sequence number is a ticket plus one, not yet claimed by a reader,
holds that ticket's value in the log; `RoomOK` says that every ticket that is
neither queued nor next is held by a thread; `CountersOK` relates the counters
and the log. Two tickets within one lap have the same slot only if they are equal,
which is where `MaxSize >= 2` and the lemmas of `RingLemmas` come in.

The proof has one step per action and, under it, one per conjunct that the action
disturbs. The refinement proof maps the two claims to `Put` and `Take`, the release of a
slot to `HandOver`, and everything else to a stutter.

An observer loads the two counters one after the other. `ObserversOK` says what it may conclude: the
enqueue counter has not gone back behind what it loaded, and a call that has seen the queue
empty at every moment has seen neither counter move.

The first part of `RingProofs` is about `CircularBuffer` and proves, for every `Capacity`, every width
of the indices, any values and any observers:

- `NeverOverfull`: `Spec => []TypeOK`, whose last conjunct bounds the elements by
  `Capacity`;
- `BufferSound`: the run's `BufferIsSound`, that is `TypeOK` with these two,
  `NoSlotRace` and `FrontStays`: the slot of a running `push()` holds no queued
  element, and what `front()` points at stays;
- `FailuresTrue`: a failing call met a full, or an empty, buffer;
- `BufferImplementsFifo`: every behaviour is one of `BoundedFifo` that `clear()`
  may also empty;
- `SizeFaithful`: the run's `SizeIsFaithful`, the argument that the comment in `size()` makes.

They assume what the code's `static_assert`s and the two powers of two give: a
positive `Capacity`, a ring larger than it whose size is itself a `size_t`, and an index range
that is a whole number of laps. That `next_power_of_two` delivers such a ring is an assumption TLC
evaluates for the instances. The bound `WithinLap` plays a part in
`SizeFaithful` only, where the code's comment appeals to it too ("a 64-bit counter cannot cycle").

None of these is inductive, because the threads decide on copies. The part of
`IInv` that carries the rest is `CachesOK`: seen through the producer's copy of
the read index the buffer is at least as full as it is and never above
`Capacity`; seen through the consumer's copy of the write index it is at least as
empty as it is; and a thread past its check has a copy that still says what the
check needed. All of it is stated with wrapped distances (`DistanceFacts`: one
step of an index changes a distance by one; `SlotFacts`: a wrap does not change
the slot). `SlotsOK` adds what the slots hold: values between the indices, the
element of a `push()` that has yet to publish it, the one of a `pop()` that has yet
to release it, and the target of `front()`. The refinement maps the publication to
`Put`, the move out of the slot to `Take`, the release to `HandOver`.

`CallOK` is what a running `size()` may rely on. It measures how far the write index is ahead of the index
the observer loaded first (`Lead`), which a running `push()` cannot bring round to zero. A read index loaded first
is behind the present one, so neither index can come back to the loaded one after it has left: as long as the
bracket holds, the pair of loads is one of the counts that were seen.

`PoliciesProofs` has three parts, and joins them. The first is about `Locks` and proves, for any finite number of threads, every modulus of the tickets above it and
every threshold:

- `LocksTypesHold`: `LocksSpec => []LocksTypeOK`;
- `LocksStaySafe`: the run's `LocksAreSafe`: each of the four locks admits one thread at a time,
  the ticket and the MCS lock in the order of arrival, and no MCS guard reaches into the node of
  a guard that has ended.

The invariant is one part per lock. `SpinOK` and `AdaptOK` are local. `TicketOK` says that
the queue `arrived` lists the holders of tickets once each (`Lists`), that the ticket of the k-th is
`mNowServing + k - 1` modulo the width, and `mNextTicket` the one after the last; since there are fewer
threads than tickets, only the first can find its own ticket served (`SameTicket`). A `try_lock()`
in flight has loaded a ticket at a time when it was served: at least as many tickets have been drawn
since as are out now, so its compare and exchange can only win when the queue is empty. This
is where the bound `NotLapped` is used. `McsOK` gives the list of nodes its shape: the first thread is past its
wait or released, every other one is waiting or about to link itself behind its predecessor, and the `next` of a
node is the node behind it exactly if that one has linked itself; so a guard about to hand over
finds its successor waiting, and one whose exchange of the tail wins is alone.

The second is about `HazardPointers` and proves, for any finite number of threads, any nodes, any number of hazard
pointers per thread and every threshold:

- `HazardTypesHold`: `HazardSpec => []HazardTypeOK`;
- `HazardPointersAreSafe`: the run's `HazardsAreSafe`: a node that `protect()` has
  returned is not deleted while its guard lives, and the retired list of a
  thread between two calls is below the threshold, or no longer than there are hazard pointers.

Why nothing is deleted too early is a matter of order. `LinkOK`: a node is linked, being
retired, on one list, or deleted, so what the second load of `protect()` still finds
linked is on no retired list. `GuardsOK`: what a guard has returned stands in its hazard
pointer, and the record of its thread is active (`RecordsOK`). `ScansOK` is the part
that carries the rest: while a scan runs, a retired node that a guard has returned is
among those the scan has seen, or its hazard pointer is ahead of the
scan (`Ahead`); at the end of the scan nothing is ahead. That needs the list of records to stay
as it is during a scan, which the mutex gives. `GarbageOK` counts: a scan keeps at most as many
nodes as it has loaded hazard pointers, and `RecordsOK` says there is one record
per registered thread. The assumptions name at least one node and one hazard pointer; memory is
sequentially consistent here too, so the theorem is about the algorithm and
not about the `acquire` and `release` the code puts on it.

The third is about `OptimisticReads` and proves, for any finite sets of readers and writers, any number of writes and every
`MAX_RETRIES`, with one hypothesis, that at most one writer uses the SeqLock, whose guards exclude nobody:

- `ReadsTypesHold`: `ReadsSpec => []ReadsTypeOK`;
- `ReadsStaySound`: the run's `ReadsAreSound`.

In `RdIInv`, `WriterOK` describes the one writer that may be at work, by policy: how many words of which object it has
changed (`InPlaceOK`, `UpdateOK`), that the sequence is odd while it does (`SequenceOK`), and that an
RCU update builds an object that is neither current nor in a snapshot. `ReadOK` describes a reader: one whose sequence
is still the lock's has met no writer, so that what it copied is what is there (`UnmovedOK`); one with a snapshot has copied words
of one write that was complete when the read began or later (`SnapshotOK`). `FreeObject` counts the
references: there are two more objects than threads, so one is always free; in the code the allocator sees to that. About reads under the versioned lock nothing is claimed but their types: section 5 shows one that is
torn.

`PoliciesStaySafe` is about the specification of the run, `PartsSpec` of `MCPolicies`: each part keeps its
invariant while the others stay as they began, so `PoliciesTypeOK`, `LocksAreSafe`, `ReadsAreSound` and `HazardsAreSafe` hold
together, for one writer on a SeqLock.

`ThreadPoolProofs` proves, for any workers, callers, tasks, batches and task bodies:

- `TasksAreKept`: the run's `EachTaskInOnePlace`;
- `CountersCount`: the run's `CountersAreSound`, the types included;
- `DrainsOnShutdown`: the run's `ShutdownDrains`;
- `WaitCovers`: the action property `WaitIdleCovers`.

The one assumption, `BatchesAssumption`, says that a task object is submitted once as part of a
batch: no two places of the batches and the bodies of tasks name the same one. `IInv` has twelve
parts. `LabelsOK`, `CallsOK` and `HeldOK` tie the program counter of each thread to the locks it holds and the task it
carries: a thread past a pop and before the run has taken the task out of its queue, one between the admission and
the push has not put it in yet. The owner of a lock is the thread whose program counter is inside the
critical section, which is what makes a queue fixed while its owner decides on it (`DequesOK`).
`Divided` says that queues, hands and finished tasks divide the admitted ones between them; `IdsOK`,
`AdmitOK` and `BatchOK` follow a task from its submission to that point. `CountersAgree` states the counters as
sums over threads and tasks; each action moves one task or one thread from one summand to
the other (`Cardinality` lemmas of the library).

`ShutdownDrains` needs more than a count: a worker leaves its loop when it has read the stop flag and a pending
count of zero (`ExitOK`). The flag is set under the submission mutex, and an admission holds that mutex
from its test of the flag until its task is counted and queued: once the flag is set no admission is
on its way, and a pending count of zero stays so. `WaitIdleCovers` follows from `WaitOK`, about the history
variable `owed`: a waiting thread that saw both counters at zero saw no task of `owed`
unfinished, since a task counts as active before it stops counting as pending.

`SignalProofs` proves, for any finite number of threads, any priorities, any bounds on calls and
connections, and both emission policies:

- `SignalDepth`: the run's `DepthIsSound`, the types included;
- `SignalSlots`: the run's `SlotsAreKept`;
- `SignalParked`: the run's `ParkedAreActivated`;
- `SignalEmissions`: the action properties `EmissionsAreSafe`.

Whether the shared mutex lets a waiting writer go first (`WritersFirst`) makes no difference to
these. `IInv` is `Control /\ Places /\ DutyOK`. `Control` is about the stacks: every call but the innermost
of a thread is an emission waiting for its slot (`FramesOK`), hence holds the shared lock
once (`LocksOK`), and the depth is the number of emissions between their increment and their decrement
(`DepthOK`). From these follows what the second look at the depth under the exclusive lock relies on:
a thread alone with the lock finds 0, and while any emission is in its loop no step changes the identities or
the order of the slots (`StepsStay`). `Places` is about the connections: no id is twice in the
list and the parked slots together, and both lists are active and sorted as they should be (`ListsOK`); a connection on its way
is known to one call only (`ConnectsOK`); and every id given out is in a list, disconnected, or
in the hands of the call that is about to place it (`PlacedOK`), from which `EachSlotInOnePlace` follows by
counting. `DutyOK` says who looks after parked slots: the cleanup flag is up or the thread that parked is about to raise it, and
there is an emission in progress, or a call that will clean up, or exceptions propagate. That an
emission which ends by a propagating exception may leave slots parked until the next one is what the code does.
Compaction and the insertion of parked slots are loops; their lemmas (`PartFacts`, `InsertFacts` and the like) go by induction on the
length with the set of counterexamples, since the library's induction theorems cannot be used.

The second part of `RingProofs` is about `SpscRing` and proves, for every capacity and width of the indices (`RingAssumption`: the index range is a whole number of laps of the `mCapacity`
cells, and at least two):

- `RingSound`: the run's `RingIsSound`: the two sides never share a cell, and what the observers
  tell the owning threads was true during the call;
- `RingFifoImplemented`: the ring implements `BoundedFifo` under the mapping of section 3.

The argument is that of the first part, from the same lemmas on wrapped distances
(`WrapDistance`, `WrapSuccessor`, `WrapFacts`, `WrapSlots` of `RingLemmas`): the distance a side computes from its
copy of the other's index errs on the safe side.

The third part of `RingProofs` is about `FastHashMap` and proves, for any keys, hashes and hash function, every
width of a group and of a hash, every load factor below one and both deletion policies:

- `HashTableIsFaithful`: the run's `MapIsFaithful`;
- `HashTableTyped`: its types.

Both assume `~ShrinksBelow`: no caller asks `rehash()` for a table in which the elements leave no slot empty.
The run `hash_full` shows that the assumption is needed. `HashInv` says that the table is `Faithful` to what was stored:
its bytes are mirrored (`ShapeOK`); a full slot has the byte, the value and the home of its key, and every stored
key has a slot (`Content`), but one (`KeysOnce`); no empty slot is on the way of a key to its slot
(`Reached`); and the counters count, and leave a slot empty (`CountersOK`). `MapIsFaithful` alone is
not inductive: it says what lookups of the keys there are find, and nothing of the ways that later insertions and erasures cut.

1. *Every slot is on every way* (`EverySlot`). A group starts `kWidth` times a triangular number behind the home. Two of the first `g`
   triangular numbers differ by a product of which one factor is odd and neither a multiple of `2 * g`, so no two are equal
   modulo a power of two `g` (`OddFactor`, `TriangularDistinct`); as many numbers as there are groups, all different, are all of them.
   So a search that does not find its key comes to the empty slot there is (`HasEmpty`).
2. *A lookup finds what is there, or that nothing is* (`FindsIt`), though it reads whole groups, past the first empty byte
   of the last one, and the mirror at the end of the table.
3. *What is written keeps the table faithful*: an element in the first free slot of its way (`InsertFaithful`), another
   value (`AssignFaithful`), a tombstone (`TombstoneFaithful`), and rebuilding, by the least number of slots after which it
   would not be (`RehashFaithful`). `ThresholdIs` and `ReadyFaithful` say that an insertion leaves a slot empty.
4. *The backward shift* (`ShiftFaithful`). While it runs, the hole holds a copy of an element that has moved on, and the table is faithful
   but for that (`Around`). The elements that have been scanned do not have the hole on their way (`ShiftedTo`); those beyond the
   first slot that is not full do not either, or they would pass that one (`PassesGap`, `NothingPast`). So emptying the hole
   cuts no way (`HoleCloses`).

`ContainersProofs` has five parts, each with its inductive invariant.

- `ServiceLocator` (`SvIInv`), for any threads, keys, registrations and nesting:
  `SingletonsSound`, `WaitsSound`. The call frames of a thread form a stack; the invariant says what each frame below the top is
  waiting for, that the gate's depth is the number of calls of its owner that entered it (`GateOK`), and that `creating`
  names a thread exactly while one of its frames runs that factory. A thread reaches a wait
  for a creator only without the gate, hence the creator, who has it, is not waiting.
- `StringPool` (`StIInv`), for any finite sets of threads and strings: `StringsSound`. The invariant is short:
  types, `PointersOK` and `CountsOK`. It says that a thread between its two critical sections knows
  nothing: the second look in the exclusive section is what keeps the copies unique.
- `WorkQueue` (`WqIInv`), for any shards, items and probe counts: `WorkTypes`, `WorkOnce` (`DeliveredOnce`: an
  item is in one place), and `WorkDelivered` under `EffectiveScanCount = ShardCount`. `kScanCount` of the policies in the
  library is 0, which means all shards. With a smaller one the code gives up with shards
  unseen, and `RefusalIsHonest` is false: TLC shows it for `kScanCount = 1`.
- `ObjectPool` (`PlIInv`), for every block size, number of blocks and depth of nested calls: `PoolSound`.
  Free list, nodes of clients and nodes under construction are disjoint, without repetition, and
  together with those a failed compaction dropped they are all there is, so that a compaction that the counter allows finds
  every node free. Unless one has failed (`cut`), the counter is the length of the list (`PlListed`); section 5
  says what the code's own assertion and comments claim beyond this.
- `SlotMap` (`SmIInv`), for every number of slots: `SlotsSound`, under `NoWrap`: there are fewer
  changes than generations (2^32 in the code). `SmHandles` carries the proof: the handle
  of a value that lives has the generation of its slot, and that of a dead one a smaller one. Once a
  generation has wrapped, more than stale handles is at stake: a stale handle that became
  valid again can be erased a second time, its slot gets onto the free list twice, and the maps no longer agree (TLC shows
  it with three generations). The header calls this the "theoretical ABA window".

`ServicesProofs` has three parts.

- `RateLimiter` (`LimiterInv`), for every rate, capacity, window and order of calls: `LimitersTyped`,
  `LimitersKeepRates`. `TokensAccounted` adds up, from each token that was let through on: the tokens since, and what is in
  the bucket, come from one burst and from what time has refilled. `RequestsAccounted` does the same for
  what is queued or has leaked. `LatestKept` says that the window's deque is the end of the history, and that the
  rest of it is out of the window.
- `IdGenerator` (`IdInv`), for every domain of two or more identifiers, every policy and any guards: `IdentifiersTyped`,
  `IdentifiersAreSound`. `GenOK` is about the generator: the counter and what is active (`StateOK`); a pool that lists what the counter
  has passed and nobody has, once each, in the order of return (`PoolOK`); no pool (`NoneOK`); free intervals
  that are disjoint, not adjacent and the complement of what is active, with a credit
  for each active identifier, which is what lets a release merge without an allocation (`IntervalsOK`). `HistoryOK` says that
  active is what somebody has, and that the token of an identifier is that of the guard that has it, not of
  one that once had it. Each call is shown to take an identifier that is free (`Takes`) or to leave
  the generator as good as it was (`Ends`). A batch is the hard case: its rollback returns
  the identifiers one by one, last first, and goes back the way it came through the pool,
  the counter or the intervals, whose splits it merges again. The loop goes by induction with the least
  counterexample.
- `FeatureManager`, for any number of features, any relationships and any limit of depth: `FeaturesTyped`,
  `ScopesUndo`, `PlansSound`. For the plans the types are the inductive invariant; the rest is said of
  what is computed from them in one step, by an invariant of each loop (`AfterLeads`) and an induction over the
  depth of calls.
  1. *Plans.* `Ordered`: what differs from the state is in the plan's orders. `Loses` and
     `Gains` say what a plan has become on the way: only what hangs on a feature went, only what it needs came, with
     what that preempts, and nothing lost its last owner but what is still to be looked at (`Orphans`). A call that ends
     `Disables` or `Enables` its feature if those that it makes do (`ClosureDisables`, `ClosureEnables`), at any
     depth (`AllCallsDisable`, `AllCallsEnable`). Each transaction is `Sound`. Consistency comes from `Validated`,
     which refuses the rest, and from the end of a scope, which checks again.
  2. *The search* (`SearchOK`). What is being visited is marked on the list, once each, and what is above a mark is reached
     from it (`Marked`, `Linked`): so an edge back to a mark is a cycle. What was visited needs only what was
     visited, and is in no cycle (`Finished`); what is being visited needs that or what is above it (`Promised`), so a mark
     that is taken from the list leaves nothing open. An item is as deep as there are marks below it (`Deep`), and those are of
     different features: too deep a search has more features than the limit. `Budget` falls with
     every visit (`VisitKeeps`), so that the list is empty before `MaxVisits` is used up, and all features were seen.
  3. *Scopes* (`ScopeRemembers`). The state a scope found is the present one but for what it and others changed until
     it compared the two; from then on what it recorded is that change, each feature the way it went, whatever others
     do. So its end, when it is consistent, takes back the recorded changes that are still in place.

## 7. What is only model-checked, and what is not modelled

Liveness (`CallsReturn`, `TasksRun`, `LocksProgress`, `ReadersReturn`) is beyond
the prover and checked by TLC only. So is `ContainersTypeOK` as it stands, which joins
the types of ten of the eleven components of its run (the types of `CircularBuffer` are in `BufferIsSound`): the types of each are a theorem (`RingTypes`, `PoolTypes`,
`HashTableTyped`, `FeaturesTyped` and so on).

Not modelled: weak memory orders, which is where the lock-free code could still
be wrong (the hazard pointers and the SeqLock above all); exceptions from the constructor of `ThreadPool`, and its
futures; failing growth of `SlotMap`'s vectors of slots; the parts of headers that section 3 and the notes in
`PROJECT.json` name; all components
`PROJECT.json` lists as `not_modelled`, with the reason for each: sequential value types and
compile-time machinery have no interleavings and are left to the unit tests;
floating point, vector instructions, parsers and writers are outside what TLC can
enumerate. Most of the repository's lines are of these kinds: serialization,
numerics, vectorized containers, the test and benchmark harness, vendored
headers and benchmark variants under `Teaching/` and `ThirdParty/`.

## 8. The plan

1. *Done*: the queues and rings with their proofs, `ThreadPool`, `Signal`, the lock
   and reclamation policies, `WorkQueue`, `ServiceLocator`, `SlotMap`, `ObjectPool`,
   `RateLimiter`, `StringPool`, `FeatureManager`, `FastHashMap`, `IdGenerator`.
2. The lifetime part of `Signal` (`ScopedConnection`, the alive token, moves);
   `StateMachine`, `SlidingFileWindow`, `StableHashMap`, `SparseSet`.
