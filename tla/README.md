# Verification of Constantine's threadpool and Rust crates

Constantine is a library of cryptographic primitives and protocols written in Nim, with C, Go and
Rust interfaces. Most of it is sequential arithmetic. States, orders and contracts matter in two
places, and this directory models both in TLA+, checks them with TLC and proves their main safety
properties with TLAPS:

* the work-stealing runtime that the parallel protocols run on, `constantine/threadpool`: lock-free
  queues, futures with hand-made memory reclamation, an eventcount, a scheduler that has to detect
  that nobody has anything left to do, loops that are split while they run;
* the Rust crates, `constantine-rust`, through which programs use the Ethereum protocols: who owns
  native memory, what crosses the foreign-function boundary on which target, and what the protocol
  functions answer.

## The system and its parts

| part | state | operations | modelled in |
|---|---|---|---|
| task queue, `crossthread/taskqueues.nim` | `front`, `back`, `buf`, retired buffers | `push`, `pop` (owner), `steal` (others), `grow`, `garbageCollect` | `Taskqueue`, `WorkStealingDeque` |
| tasks and flowvars, `crossthread/tasks_flowvars.nim` | futex `completed`, packed word `synchro` (thief, waiter, canBeFreed) | `setThief`, `setCompleted`, `sleepUntilComplete`, `setGcReady`, `cleanup` | `TasksFlowvars` |
| eventcount, `crossthread/backoff.nim` | packed word `waitset` (pre-sleepers, sleepers), futex `events` | `sleepy`, `sleep`, `cancelSleep`, `wake`, `wakeAll`, `getNumWaiters` | `Eventcount`, `EventcountCapacity` |
| scheduler, `threadpool.nim` | a queue and a terminate signal per worker, the eventcount, two uses of one barrier | `schedule`, `tryStealOne`, `eventLoop`, `syncAll`, `shutdown` | `Scheduler` |
| awaiting, `threadpool.nim` | the task awaited | `run`, `completeFuture`, `tryLeapfrog`, `sync` | `TasksFlowvars` (one task) |
| scoped barriers, `crossthread/scoped_barriers.nim` | number of descendants | `registerDescendant`, `unlistDescendant`, `wait` | `ParallelLoops` (one scope) |
| loop splitting and reductions, `threadpool.nim`, `parallel_offloading.nim` | loop bounds, reduction DAG | `loadBalanceLoop`, `splitUpperRanges`, `splitAndDispatchLoop`, the loop wrappers | `ParallelLoops` |
| partitioners, `partitioners.nim` | none | chunking of a range | `Partitioners` |
| barriers and futexes, `primitives/` | waiters, generation | `wait`, `wake` | futex: in `Eventcount` and `TasksFlowvars`; macOS barrier: not yet |
| MSM bucket scheduler, `math/elliptic/ec_multi_scalar_mul_scheduler.nim` | queue, collisions, buckets | `schedule`, `flushPendingAndReset` | not yet |
| `constantine-sys` | two generated files of types and prototypes, one chosen per target | layouts, status enums, `extern` functions | `FfiTypes`, `Bindings64`, `Bindings32`, `RustFfi` |
| `constantine-ethereum-kzg` | native context behind a raw pointer, borrowed threadpool | builder, `build`, `Drop`, 14 methods, serial and parallel | `KzgContext`, `EthKzg` |
| `constantine-ethereum-bls-sig` | none | codecs, `sign`, `verify`, aggregates, batches | `EthBls` |
| `constantine-ethereum-evm-precompiles` | none | 16 precompiles | `EthEvm` |
| `constantine-core`, `constantine-halo2-zal` | the native threadpool | `Threadpool::new`, `Drop`, `sysrand`, the MSM engine | `KzgContext`, `CoreZal` |
| streaming hashes, `hashes/` | block buffer, message length | `update`, `finish` | not yet |

How they interact. A worker pushes the tasks it spawns on its own queue and pops them in LIFO
order; a worker without tasks becomes a thief and steals from the front of the other queues. A
push on an empty queue, and every successful theft, calls `wake` on the eventcount. A thief that
finds nothing commits to sleep on it. The root thread's `syncAll` reads the eventcount's counts:
when every other thread is committed to sleep there is no work left, and that is the only
termination detection there is. A task with a future belongs to two threads, the runner and the
waiter, which pass the ownership of its memory through `synchro` and `completed`; the thief's ID in
`synchro` also tells the waiter whose queue to help ("leapfrogging"). `shutdown` is a `syncAll`
followed by a terminate signal per worker, a `wakeAll` and a barrier behind which the queues are
freed. A parallel loop is one task; before an iteration its thread may look for idle threads and
give the upper part of its range away as new tasks, all of them registered in the scope's barrier.
In a reduction each part awaits the parts it gave away and merges their results. The parallel
protocol functions reduce the status of every item this way.

A Rust program creates a threadpool, a builder, from it a context, and calls methods that pass raw
pointers to the native library, together with buffers whose sizes both sides have to know. The
library answers with a byte that Rust reads as an enum. The values are neither `Send` nor `Sync`:
one thread does all of it, and the borrow checker orders the drops. The threads are behind the
boundary.

What is hard here: all of this is lock-free, so each load and store is a point where others may
step in; wake-ups may be lost between "look" and "sleep"; memory is freed while others may have
pointers to it; counts and IDs are packed in words and updated by wrapping additions; a range is
split by a thread that only estimates who is idle. At the Rust boundary nothing is checked by a
compiler: numbering of enums, layouts, lengths, initialisation of outputs, lifetimes of handles.
`PROJECT.json` lists each such hazard at its line.

## Modelling conventions

* One action per access to shared memory. A thread's own loads of a location only it writes, and
  what it does with its locals, belong to the action that uses them.
* Atomics are sequentially consistent. The code uses weaker orders with explicit fences (Chase-Lev
  after Lê et al.; the fences in `setCompleted` and `sleepUntilComplete`); what they allow on weak
  memory is outside TLC's reach, and no claim is made about it.
* The futex is the kernel's set of waiting threads: `wait` compares and parks in one step, `wake`
  releases any one waiter, and a wait may return without a wake (EINTR).
* A local variable is reset when it goes out of scope, so that it does not multiply states.
* Reading freed memory returns anything.
* The protocols are modelled over a small group in place of the curves: points, polynomials and
  pairings keep the algebra the decisions depend on (`EthBls`: integers modulo a prime with the
  product as pairing; `EthEvm`: the same with a cofactor, so that there are points outside of the
  subgroup; `EthKzg`: polynomials of two values, and commitments that tell them apart). What is
  below, and the rules of `repr(C)`, are marked external in `PROJECT.json`.
* A call of a wrapper is one step: the state `call` records the pointers it passes, how far the
  library reaches through each, what it fills, what is handed out, and the answer.
* Each module has a section of *faulty variants* of its actions: plausible bugs which no
  specification uses, and which show that each property can fail (`mutants` in `PROJECT.json`).

## Modules

### WorkStealingDeque and Taskqueue

`WorkStealingDeque` is what the queue promises: a sequence, `Push` and `Pop` at one end, `Steal` at
the other, and every task held by one worker or queued once.

`Taskqueue` is the code. `bufs` is every buffer ever allocated and `buf` the current one; a retired
buffer is in `garbage`; a buffer in neither was freed (`Live`). The owner's `push` is `Push` (load
of front and the decisions taken on it), `Grow` or `PushCollect`, `StoreItem`, `PublishBack`; its
`pop` is `Pop` (lower back), `PopLoadFront`, `PopCas` for the last entry, `PopRestore`,
`PopCollect`. A thief's `steal` is `StealFront`, `StealBack`, `StealBuf`, `StealRead`, `StealCas`,
`StealSetThief`: six steps between which the owner may do anything. `Recycle` frees a stolen task
and lets the allocator hand its address out again, so that the indices and not the addresses have
to tell two lives of a task apart. The queue is torn down when it is empty and no thief is inside
it, which `Scheduler` shows the pool guarantees (`SyncAllDone`, `NoTheftFromDeadQueue`).

The refinement mapping is `Queue` (the slots from `front` to `AbsBack`, where a `pop` in progress
has not taken anything yet) with `held` as it is.

### TasksFlowvars

One task from `Spawn` to its end, and over again in the same memory, between the worker that
spawned it (`wpc`, the waiter) and the one that runs it (`rpc`). `RunFn` stores the result;
`SetCompleted`, `LookForWaiter`, `WakeWaiter` are `setCompleted`; `SetGcReady` passes the memory to
the waiter. The waiter goes through `completeFuture`: `FutReady`, phase 1 (`PopOwn`, `PopNil`,
`PopUnrelated`), phase 2 (`Leapfrog`, then `AnnounceWaiter`, `Park`, `Unpark`), and `Cleanup`.
`synchro` is a number: the three fields and the wrapping additions are the code's, with
`kWaiterShift` as a parameter. Other tasks exist only in what they let the waiter do: `Leapfrog`
finds one to run or not, and `PopUnrelated` meets one on top of the
awaited task that is not a child of the current task. Such a task gets there when phase 1 runs a
sibling of the awaited task and the sibling spawns a task without awaiting it.

### Eventcount, EventcountCapacity and Scheduler

`Eventcount` gives the atomic steps of each operation on the packed word and the futex, with the
width of the word and of the epoch. `Scheduler` composes them with the queues and the workers:
`SetupWorker`/`Start` (the barrier of `Threadpool.new`), `Spawn`/`Push`/`Wake`/`WakeLook`/
`WakeSyscall` (`schedule`, with its peek before the push), `Pop`/`PopNil`/`Finish`, the thief
(`Sleepy`, `TakeTicket`, `StealLook`, `StealCas`, `StealNil`, `CancelSleep`, `CheckTerminate`,
`Commit`, `Sleep`, `WakeUp`, `ExitLoop`), the root (`SyncAll`, `CountWaiters`, `Synced`) and
shutdown (`SignalTerminate`, `WakeAll`, `WakeAllLook`, `WakeAllSyscall`, `Shutdown`, `Teardown`,
`Cleanup`). Tasks are anonymous and a queue is its two indices: `push` and `pop` are single steps,
as `ImplementsDeque` allows, but a theft stays two (look, compareExchange), because it may fail on
a queue with work in it and the thief may then go to sleep. `tryStealOne` visits the other queues
in any order. A task may spawn tasks at any moment it runs, up to `MaxTasks` in all; it does not
await any.

`EventcountCapacity` drops the identity of the threads and runs the eventcount with the code's own
constants up to its limit.

### ParallelLoops and Partitioners

One `syncScope` with one loop in it. The loop is a task with its bounds, its step counter and its
`reductionDAG`; `loop` is what the program wrote: up to `MaxSteps` iterations from 0 or 2 on, with
stride 1 or 2, of which at most two fail. `Begin` starts a queued task, on whatever thread; before
each iteration (`Iterate`) the thread keeps everything (`KeepAll`) or splits for some number of idle
threads (`Split`, then `PushChunk` with `Dispatch` for one chunk after the other, while the earlier
ones already run and split themselves). `MergeRemote` awaits the next part of the list; `Unlist` and
`End` are the end of `run`, in the code's order: the task leaves the barrier first and is freed or
handed over after. The owner (`Schedule`, `Sync`, `LeaveScope`) registers the loop, awaits its
future if it has one, and leaves the scope when the barrier is empty. `ScheduleChunk` is the other
way to fill a scope: one task per chunk of a static partition, after
`sum_reduce_vartime_parallelChunks`. When a thread looks for idle ones (`BalancerBackoff`) and how
many it finds are free, which covers every schedule. `Partitioners` holds the two chunkings as
operators, checked against `PartitionsTile`.

### FfiTypes, Bindings64, Bindings32 and RustFfi

`Bindings64` and `Bindings32` list what the two generated files declare: constants, enums in their
order, structs with the size, alignment and offsets their `const` blocks assert, and the prototypes
of every function that a crate of this repository calls. `FfiTypes` has the rules of `repr(C)`.
`RustFfi` picks one by target (`Include`), has the Nim enums for comparison, converts a status by its
number (`FromNative`), and says when a call respects memory (`CallFits`). Three targets are
tried: 64-bit, and 32-bit with 64-bit words aligned to 4 (i686) or 8 bytes (armv7).

### KzgContext, EthKzg, EthBls, EthEvm, CoreZal and RustCrates

`KzgContext` is ownership: `kind`, `ctx` and `tp` are the Rust values and their pointers, `native`
and `tables` the native heap, `pool` the threadpools, `lost` the contexts nobody can delete any
more. A builder's method consumes it and replaces it in place. The drop of a threadpool has the
borrow checker's guard: no value with its lifetime is left.

`EthKzg`, `EthBls`, `EthEvm` and `CoreZal` have one operator per Rust function, which composes the
checks of the native function in the code's order (serial: the first failure; parallel: the failure
of any item, as `ParallelLoops` shows with `ReductionReports`), the conversion of the status, and
what becomes of the outputs. `RustCrates` composes them: behaviours in which the lifecycle of the
values alternates with calls of one of the crates, on one of the targets, after `Compile`, in which
`rustc` evaluates the `const` blocks (`LayoutsHold`, `BindingsAgree`). `HandlesLive` relates values
and calls.

Two things the wrappers take on trust are modelled as they are. The BLS functions pass several slices
with one length: what the library finds behind a shorter one (`Read`) is any element. MODEXP reads
lengths from its input: `Signed`, `Unsigned` and `Plus` are the casts and the sums of the code, with
`MaxInt` for the largest int, and when base or exponent do not end within that range
(`Fitting`) the value is any; a modulus of more than `MaxInt` bytes makes `vec!` panic in the Rust
wrapper.

## Runs

| run | result | what it shows |
|---|---|---|
| `taskqueue` | passes, 1.3 million states | 3 tasks, 2 thieves, a first buffer of one slot, indices up to 4: `TypeOK`, `NoTaskLostOrDoubled`, `CollectsOnlyWhenEmpty`, `StaleReadsLose`, `StealReadsHead`, `StolenOnce`, `ImplementsDeque` |
| `taskqueue_stale` | violation | `NoThiefHasFreedBuffer`: the comment on `garbageCollect` is wrong |
| `flowvars` | passes, 3 thousand states | 7 workers, 3-bit fields, unrelated tasks: `TypeOK`, `NoUseAfterFree`, `SyncReturnsResult`, `SynchroFields`, `SyncReturnsOrStarves` |
| `flowvars_limit` | violation | `SyncReturnsOrStarves` with 8 workers: an ID equals the sentinel |
| `flowvars_stuck` | violation | `SyncReturns` with one worker and an unrelated task |
| `scheduler` | passes, 323 thousand states | 3 threads, 2 tasks: `TypeOK`, `NumWaitersExact`, `SyncAllDone`, `WakeIsHeard`, `NoTheftFromDeadQueue`, and under fairness `ShutdownEnds`, `SyncAllReturns` |
| `scheduler_notify` | violation | `WorkIsLookedFor`: the notification invariant does not hold |
| `eventcount_capacity` | violation | `CountsFit` at the 256th sleeper, with the code's constants |
| `loops` | passes, 271 thousand states | loops of up to 5 steps from 0 or 2 on, with stride 1 or 2 and at most two failures: `TypeOK`, `EachIterationOnce`, `StepsLeftExact`, `BarrierCounts`, `AwaitedOnce`, `ReductionReports`, `ChunksTile`, `LoopEnds` |
| `rust` | passes, 194 thousand states | all lives of two values, two native contexts and a pool, and every call: `TypeOK`, `NoDanglingContext`, `NativeAccounting`, `HandlesLive`, `BuffersFit`, `OutputsWritten`, `LayoutsHold`, `BindingsAgree`, `KzgAnswers`, `CodecsCanonical`, `SignaturesAgree`, `EvmAnswers` |
| `bls_lengths` | violation | `ReadsInsideSlices`: lists of different lengths are read behind their end |
| `evm_pairing` | violation | `PairingIsProduct`: one pair with infinity decides the whole product |

Bounds. A first buffer of one slot makes the queue grow twice (1, 2, 4) within four pushes, so that
thieves hold pointers to buffers of two generations, and lets indices wrap around the buffer;
`MaxIndex` bounds the pushes a behaviour may start. Two thieves are needed for a theft to lose to
another thief while the owner empties the queue. The safety of the queue does not rest on these
bounds: the theorems hold without them. In `Scheduler` two workers besides the root are the least
with which one sleeps while another steals; two tasks let a task be spawned while another is stolen
or run, and let either spawn the other; every action happens. The safety properties
are proved for any number of tasks. The epoch (`EpochSize = 16`) does not wrap within these bounds.
In `TasksFlowvars` fields of 3 bits keep the layout and the arithmetic of the code's 15, and 7
workers are all that fit besides the sentinel. In `ParallelLoops` five steps and two idle threads
are enough for a part to be split while an earlier split is still being pushed, and for parts of
parts; starts 0 and 2, strides 1 and 2 and ends that are no multiple of the stride exercise the
rounding; up to two failing iterations tell which failure is reported; chunks of at most 2 steps,
hints up to 4. `ChunksTile` goes up to ranges of 20 steps, with all bounds of small chunk sizes. In
`RustCrates` two objects can hold, lose and delete two native contexts in every order; groups of
order 5 (BLS) and 3 (precompiles) have non-trivial sums and products equal to the neutral element;
lists have up to `MaxItems` = 2 items, the shortest in which one item can mask another; the theorems
hold for any `MaxItems`. BLS verification gets keys, messages and signatures in lists of every
length up to it, independently. An int of `EthEvm` goes up to `MaxInt` = 127 and a word up to 255,
in place of 2^63-1 and 2^64-1: the header of 96 bytes fits, and lengths on both sides of each limit
(0, 1, `MaxInt`, `Word - 1` and one that needs more than a word; for the modulus, 2 and `MaxInt + 1`) make each cast and each sum change sign or wrap; the theorems hold for every `MaxInt` from 127
on. Every KZG input is tried on an object that is alone; beside other objects, where only ownership
matters, one input is.

Deadlock is checked except for `Taskqueue`, where the owner stops at `MaxIndex` or after the
teardown, and for the runs whose counterexample is a thread that spins.

Fairness. `FairSpec` of `Scheduler` asks for weak fairness of each thread's own steps: the OS runs
every thread, and every task ends. It does not ask that tasks are spawned, that `syncAll` is
called, or that a thief wins a race. `FairSpec` of `TasksFlowvars` asks for weak fairness of the
runner once a thread has taken the task and of the waiter while it is in `sync`; it does not ask
that anybody steals the task. `SyncReturnsOrStarves` therefore names the one case in which `sync`
does not return (finding 4) and claims that there is no other. `Spec` of `ParallelLoops` asks for
weak fairness of the owner and of every task: the owner pops and steals until its scope is empty,
so a queued task is started even if no other thread ever helps, and bodies end. That a task which
awaits a part is resumed rests on the same, short of finding 4.

## Proofs

Eight modules are checked by TLAPS, for all values of the constants allowed by the `ASSUME`s of the
modules.

| module | about | theorems |
|---|---|---|
| `TaskqueueProofs` | `Taskqueue`, `WorkStealingDeque` | `TypeCorrect`, `CollectSafe`, `StaleReadsHarmless`, `StealTakesHead`, `EachTaskInOnePlace`, `ThiefSetOnce`, `QueueIsADeque` |
| `TasksFlowvarsProofs` | `TasksFlowvars` | `TypeCorrect`, `MemorySafe`, `SyncHasResult`, `FieldsApart` |
| `SchedulerProofs` | `Scheduler`, `Eventcount` | `TypeCorrect`, `WaitersCountedExactly`, `SyncAllIsABarrier`, `WakesAreHeard`, `QueuesOutliveThieves` |
| `PartitionersProofs` | `Partitioners` | `PrioNumberTiles`, `PrioSizeTiles`, `PartitionsAlwaysTile` |
| `ParallelLoopsProofs` | `ParallelLoops` | `LoopInvariant`, `TypeCorrect`, `IterationsRunOnce`, `StepCountersExact`, `BarrierIsExact`, `FuturesAwaitedOnce`, `ReductionIsSound`, `PartitionsOfLoop` |
| `RustCratesProofs` | `KzgContext`, `RustCrates` | `ContextInvariant`, `ContextTypeCorrect`, `ContextsNeverDangle`, `ContextsAccountedFor`, `CratesImplementContexts`, `CratesInvariant`, `NativeHandlesLive` |
| `RustFfiProofs` | `FfiTypes`, `Bindings64`, `Bindings32`, `RustFfi` | lemmas on the tables, the statuses, sums and layouts |
| `RustAnswersProofs` | `RustCrates` with `EthKzg`, `EthBls`, `EthEvm`, `CoreZal` | `OutputsWrittenTheorem`, `KzgAnswersTheorem`, `CodecsCanonicalTheorem`, `SignaturesAgreeTheorem`, `EvmAnswersTheorem`, `BuffersFitTheorem`, `LayoutsHoldTheorem`, `BindingsAgreeTheorem` |

*Queue* (`TypeCorrect`, `CollectSafe`, `StaleReadsHarmless`, `StealTakesHead`). The invariant `IInv`
has four parts. `Indices`: `front` never exceeds the logical back, the queue fits the buffer, and
each point of `push` and `pop` knows what its earlier load of `front` still implies (front only
grows). `Content`: every entry between `front` and the logical back is a task. `Thieves`: a thief
whose `front` is still current holds a live buffer in which the slot it is going to read, or has
read, is the head of the queue. This last one is why `grow` is safe: it copies the entries and
leaves the old buffer untouched while it is in `garbage`, and buffers leave `garbage` only when the
queue is empty, when every thief with an older front has lost. The arithmetic behind it
(two indices closer than the capacity do not share a slot) is a lemma of its own. A thief's read
from a freed buffer is thus never used.

*Queue as a deque* (`EachTaskInOnePlace`, `ThiefSetOnce`, `QueueIsADeque`). On top of that `IInv`,
`OInv` says where the tasks are: no task is in two entries or in two hands (`Ownership`), each is
somewhere (`Kept`), the entry the owner and a thief fight for does not change while they do
(`LastEntry`), and a thief's mark is on a task only while that thief has it (`Marks`). The refinement
is proved step by step. `PublishBack` is the abstract push; the linearisation point of `pop` is the
load of `front` when more than one entry is left, and the compareExchange for the last one; that of
`steal` is its compareExchange, which by `StealTakesHead` takes the head. All else stutters, `Grow`
among it, because the entries have the same content in the new buffer.

*Tasks and futures* (`TypeCorrect`, `MemorySafe`, `SyncHasResult`, `FieldsApart`). `Life` ties the
allocation to who is still at work: a task without a future lives until its runner is done, one with
a future until the waiter has left `sync`. `Result` says what `completed` and the flag in `synchro`
tell the waiter at each of its steps. `Word` gives `synchro` as a sum: the flag if it is set, plus
the announced waiter or the sentinel, plus the thief or the sentinel. That the sum can be read back
needs each ID to fit its field, so `FlowvarAssumption` bounds the number of threads by
`2 ^ kWaiterShift`, the limit that `tasks_flowvars.nim` states; up to it the fields stay apart, even
for the ID that equals the sentinel (what fails there is waking, finding 3).

*Scheduler* (`TypeCorrect`, `WaitersCountedExactly`, `SyncAllIsABarrier`, `WakesAreHeard`,
`QueuesOutliveThieves`). `IInv` says who can be where (`Roles`), that an idle thread has an empty
queue and no task (`Queues`, `Holders`), that a theft that is going to succeed robs a queue with a
task in it (`Thefts`), that `waitset` is exactly `|preSleepers| * kPreWait + |sleepers|` (`Counts`),
that nobody is past a barrier before all have reached it (`Barriers`), and that from the moment
`CountWaiters` sees everybody asleep nothing can happen any more (`Quiet`). The last one is the
heart of the barrier: `Counts` turns what the root read into "all others are committed to sleep",
each of these has an empty queue and no task, the root has none either, and a thread woken by an
earlier notification finds nothing to steal. `WakesAreHeard` is about the syscall that `wake` spares
when it sees a pre-sleeper, the reason for `cancelSleep` before `wake`: with `Parked` (whom the
kernel holds has committed to sleep) and `Counts`, the word is not zero while somebody is parked, so
a spared syscall means a pre-sleeper, and the thread that wakes is not counted any more. `Counts`
needs `CapacityAssumption`: as many threads as fit in the bit fields; `eventcount_capacity` shows
what happens beyond.

*Partitioners*. With `q` and `r` the quotient and the remainder of the division, the first `r` chunks
have `q + 1` steps and the others `q`; the lemmas do the arithmetic of offsets once, and the chunk
sizes stay between the bounds because rounding the number of chunks up can cost a chunk at most what
`PrioSizeTiles` asks to be left between them. All of it holds for ranges that start at 0.

*Loops*. The properties are about indices, strides, counters and DAGs; the invariant is about
iterations by number (iteration `p` has index `start + stride * p`). `Bounded` and `Splitting` give
each part, and each split under way, as an interval of iterations, with its counter and its bounds
in agreement. `Tiling` is the heart: every iteration has run once and lies before nobody, or has not
run and lies before exactly one part, among those being pushed, or is not spawned yet. Splitting
moves an interval from one side to the other, and an iteration moves its number from "before a part"
to "has run", so `EachIterationOnce` follows whatever the threads estimate. `Starts` says that parts
begin at different iterations: there are never more parts than iterations, and by counting, a task
that is to be pushed always finds a free record. `Counted` is the barrier. `Awaiting` and `Owners`
order the futures: a part is awaited by one that began earlier, and by one only, so when the first
part is merged, the least part that is not would have to be awaited by an earlier one: there is
none. `Reported` follows a failure from the part in which it happened to the ones that still have to
be merged.

*Contexts* (`ContextTypeCorrect`, `ContextsNeverDangle`, `ContextsAccountedFor`), for any number of
values, native contexts and pools. `CtxInv` adds two facts to the properties: `NoneHoldsNothing` (a
consumed value keeps no pointer, so that a fresh context overwrites nothing) and `AccountedFor`, the
balance of live, owned and lost contexts handle by handle, of which `NativeAccounting` is the form
by sets. `load_trusted_setup` is the hard case: it may replace a pointer the builder already has,
and the old context moves from owned to lost in the step in which the new one becomes live.

*Crates* (`CratesImplementContexts`, `NativeHandlesLive`). A step of the program is a step of
`KzgContext` or leaves its variables alone, so the program implements it and inherits its theorems.
`HandlesLive` is then inductive together with `CtxInv`: a call changes no ownership, no value
changes hands while it lasts, and each wrapper is shown to pass no handle, a live pool, or the
context and the pool of its own object, whatever its inputs are, also ones that no run tries. This
needs `PoolAssumption`: a context and a threadpool are different allocations.

*Answers* (`OutputsWrittenTheorem`, `KzgAnswersTheorem`, `CodecsCanonicalTheorem`,
`SignaturesAgreeTheorem`, `EvmAnswersTheorem`), for lists of any length (`MaxItems`, the bound that
the runs set to 2, is any natural number in the proofs) and groups of any order that the assumptions
of the protocol modules admit. What they except is stated in the properties: `SignaturesAgree` is
about lists of one length; `EvmAnswers` exempts the value of a BN254 pairing check with a point at
infinity (finding 6), of MODEXP in its corner cases (below), and of MODEXP when base and exponent do
not end within the range of an int. The KZG methods, which compare the lengths of their
slices, are covered for all lengths. There is one lemma per wrapper. It says which statuses may come
back, that the status is one that the inputs deserve, and what the answer is worth: the library
stops at the first failure (`FirstErrorRange`), whichever part of which list it is in. Each status
table reads back as itself (`KzgTable`, `EccTable`, `ScalarTable`, `BlsTable`): the numbers that Nim
gives and the variants that Rust declares are in the same order. Agreement of the signature schemes
is arithmetic in the group: sums of products (`SumTimes`) and reduction of a product factor by
factor. In the precompiles, a scalar may be reduced by the order of the group only when the point is
in the subgroup, which the code checks first. MODEXP takes two calls, one for the size of its result
and one for its value; `ModexpSized`, that the second is made with what the first said of the same
input, is the invariant between them. `AllAnswers` puts the properties together with it and is
inductive. What the proofs do not lift is the abstraction of a single item: the two-valued
polynomials of `EthKzg`, the classes of encodings that `EthBls` and `EthEvm` distinguish.

*Buffers* (`BuffersFitTheorem`). `Buffers` says of the call at hand that it is `Sound`: it respects
memory on all three targets, whichever the program was compiled for. For each native function, its
prototype is looked up in the merged tables, where no name occurs twice and which are the same on
every target (`Takes`); the types it points to get their size and alignment on each target
(`Layout`, `Typed`); and one argument is matched with one parameter at a time (`Fit`). The sizes of
the buffers are those that the wrappers compute from lengths of slices, so the argument is the
wrapper's own arithmetic. It holds for every length where the wrapper compares the slices or passes
each with its own length. It does not hold, and `BuffersFit` does not claim it, for the lists of the
BLS functions unless their lengths agree (`Alike`, finding 7), nor for MODEXP when the lengths in
its header do not fit an int unless an early return is taken (`Contained`). `ModexpSized` is needed
once more: the result buffer of MODEXP has the size that the first call returned.

*Declarations* (`LayoutsHoldTheorem`, `BindingsAgreeTheorem`). The tables are finite, and TLC
visits all of them; the proofs go through the rules of `repr(C)` instead of enumerating. A struct
of equal fields whose size is a multiple of their alignment has no padding (`RepeatedField`), which
covers limbs, byte arrays, extension fields and points; the two hash states, aligned to a cache
line, and `ctt_span` are computed from `FieldEnds`, of which it is first shown that the recursion
defines a function (`EndsExist`).

The invariants were checked by TLC before they were proved. `2 ^ n` is opaque to the prover, so
`EventcountAssumption` states that the two powers are positive, which TLC evaluates. Where a
recursive function has to be known for every length (sums, field ends, powers), the induction is a
search for the least counterexample (`LeastOf`, `UpTo`, `Recursion`), not an operator's.

Every invariant and every step property that a passing run checks is proved. Model-checked only:
liveness (`SyncReturnsOrStarves`, `ShutdownEnds`, `SyncAllReturns`, `LoopEnds`), because fairness
and `ENABLED` are out of the prover's reach.

## Findings

1. `taskqueues.nim:159` (and 188, 195): "no thieves can have a pointer to an old retired buffer".
   They can. The read is harmless in its effect (`StaleReadsHarmless`), but it is a read of freed
   memory.
2. `backoff.nim:52`: "up to 2¹⁶ = 65536 threads are supported". `kPreWaitShift` is 8: 256 sleepers
   overflow the field, and `syncAll` then never sees the counts it waits for.
3. `tasks_flowvars.nim:39`: "Supports up to 2¹⁵ = 32768 threads". The last ID is the sentinel.
4. `threadpool.nim:757`: `completeFuture` gives up its queue at the first task that is not a child,
   although the awaited task may be below it; `tryLeapfrog` then waits for a thief. With one thread,
   or when every thread does the same, `sync` never returns.
5. `threadpool.nim:340`: "there is at least a thread looking for work if work is available, or all
   threads are busy". `schedule` peeks and then pushes, and the queue may be emptied in between: the
   push is not notified. The work is still done, by its owner or by a thread that finishes, so
   `SyncAllReturns` holds.
6. `ethereum_evm_precompiles.nim:614`: "pairing with infinity returns 1, hence no need to compute
   the following". The BN254 check answers 1 for the whole product once one pair has a point at
   infinity; such a pair contributes a factor 1 and the other pairs still count, as the BLS12-381
   check computes it.
7. `constantine-ethereum-bls-sig/src/lib.rs:321` (and 349, 379): "Number of elements in the `pubkeys`
   and `messages` arrays" (`ethereum_bls_signatures.h:254`) is the length of one of the slices, and
   nobody compares it with the others. The functions are safe Rust; a shorter slice is read behind
   its end, the rest of a longer one is ignored. The Nim overloads do compare and have a status for
   it, the versions for C do not.

Smaller observations, from reading the code while modelling it; no run is about them:

* A builder has no `Drop`: one that is dropped, loaded twice, or fails to load after a success
  leaks its native context. `NativeAccounting` shows that nothing else does.
* The parallel KZG batch looks for zero random bytes before it reduces them, the serial one after:
  bytes that are a multiple of the order blind with zero. `KzgAnswers` exempts that draw.
* MODEXP differs from the specified power in corners: no exponent and a modulus of at most 1 gives
  1; no base and an exponent of value 0 gives 0. `EvmAnswers` exempts them.
* MODEXP casts the lengths in its header to int and adds them
  (`ethereum_evm_precompiles.nim:175-187`). A length of 2^63 or more is negative, the sum wraps
  (releases check no overflow: `-d:danger`), and the early return that should catch such lengths is
  not taken. The comment at 209-211, "only the modulus can require right-padding with zeros here",
  "inputs[expStop] cannot buffer overflow", is then wrong: one byte of base, an exponent of 2^63-1
  bytes and one of modulus pass with no byte of input behind the header. Where another early return
  applies the answer may be wrong instead: a base of 2^64-1 bytes and an empty exponent give 1, with
  a modulus of 0. The model does both (`Signed`, `Plus`, `SpecialCase`, `modexp_reach`);
  `BuffersFit` and `EvmAnswers` hold for all other lengths (`Contained`, `Fitting`) and say nothing
  of these.
* `evm_modexp` panics when the header gives the modulus a length of 2^63 or more that fits a word:
  the library reports it as the size of the result, and `vec!` refuses it. `EvmAnswers` says that no
  precompile panics otherwise.
* Three comments of `ethereum_evm_precompiles.nim` give another size for the output buffer than the
  code checks: 994 says 512 bytes (256 at 1007), 1146 says 64 (128 at 1159), 1195 says 128 (256 at
  1208). The Rust wrappers pass the sizes the code checks, which are those of EIP-2537, and so do the
  models.
* `signatures/bls_signatures_parallel.nim:175` stops calling `sync` after a failure, although the
  comment at 172 says it must not. It is not reached through the public functions, which refuse
  neutral points first.
* `sysrand` of `constantine-core` drops the library's success flag.
* `balancedChunksPrioNumber` yields `numChunks` chunks, empty ones too, where its comment has a
  minimum; the iterator is wrong for ranges that do not start at 0, and all callers start at 0.
* Keys and signatures are byte arrays of alignment 1 in the bindings (`bindings64.rs:4339`), while
  the library keeps them in words: `BuffersFit` checks alignment against the declarations, not
  against what the native compiler assumes.
* `Display` prints `cttCodecEcc_Zero` for `InvalidEncoding` (`constantine-sys/src/lib.rs:38`).

## Not modelled, and why

Finite fields, curves, hash functions and the pairing itself are sequential computations on words of
64 bits and more; their correctness is number theory, and TLC's integers have 32 bits. The protocol
modules take them as given. Of the bindings, the prototypes of field and curve arithmetic and of the
streaming hashes are not listed, since no Rust code here calls them; nor are the `Display`
implementations and `build.rs`. `ecRecover` and Verkle IPA are not offered by the crates; the
threads of the pairing accumulators are taken to compute the product of the parts. Code generators,
C and Go bindings, instrumentation, timers and topology keep no state that matters to a property.
Scopes nested in tasks of other scopes, several futures on several queues, and the macOS barrier are
left to the plan. `PROJECT.json` lists every part.

## Plan

1. Done: the queue, one task's life, the eventcount, the scheduler, loops and reductions in a
   scope, the partitioners, the Rust crates; the proofs above, which state every safety property
   that a passing run checks.
2. The MSM bucket scheduler: every point is added to its bucket once, and the queue never exceeds
   its length when collisions are rescheduled (`enqueuePoint`,
   `ec_multi_scalar_mul_scheduler.nim:293`, writes without a bound): a hazard of this code that no
   property covers yet.
3. Futures over several tasks and queues, with awaiting threads that park on a future while the
   scheduler counts the others; nested scopes; the macOS barrier; the buffering of the streaming
   hashes.
