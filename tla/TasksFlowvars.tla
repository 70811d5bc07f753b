--------------------------- MODULE TasksFlowvars ---------------------------
(***************************************************************************)
(* The life of one task and of the future on it, after                     *)
(* constantine/threadpool/crossthread/tasks_flowvars.nim and the code of   *)
(* threadpool.nim that runs a task (run) and awaits it (sync).             *)
(*                                                                         *)
(* Two threads meet on the task's memory: the runner, which publishes the  *)
(* result and hands the memory over, and the waiter, which may spin, sleep *)
(* on the futex `completed`, and frees the task.  Atomics are sequentially *)
(* consistent.  The memory is allocated again after it was freed.          *)
(***************************************************************************)
EXTENDS Integers

CONSTANTS NumThreads,    \* the workers are 0 .. NumThreads-1
          kWaiterShift   \* bits of the thief and waiter fields: 15 in the code

\* The type of the word supports 2 ^ kWaiterShift threads: an ID fits a field.
ASSUME FlowvarAssumption ==
    /\ NumThreads \in Nat \ {0}
    /\ kWaiterShift \in Nat \ {0}
    /\ NumThreads <= 2 ^ kWaiterShift

VARIABLES
    alive,      \* the task is allocated
    hasFuture,  \* the waiter owns the task in the end, otherwise the runner
    completed,  \* the futex word
    synchro,    \* canBeFreed, waiter and thief in one word
    result,     \* the result is in the task's environment
    waiter,     \* the worker that spawned the task
    runner,     \* the worker that took it
    wpc,        \* where the waiter is
    rpc,        \* where the task's execution is
    parked,     \* the waiter is in the kernel, in the futex's wait queue
    copied      \* what completeFuture copied: the result was there

vars == <<alive, hasFuture, completed, synchro, result, waiter, runner, wpc, rpc, parked, copied>>

Worker == 0 .. NumThreads - 1

-----------------------------------------------------------------------------
(* The synchro word. *)

Field == 2 ^ kWaiterShift
kCanBeFreed == 2 * Field * Field
WordSize == 2 * kCanBeFreed
SentinelThief == Field - 1
SentinelWaiter == (Field - 1) * Field

fetchAdd(x, d) == (x + d) % WordSize

thiefField(x) == x % Field
waiterField(x) == ((x \div Field) % Field) * Field
isGcReady(x) == x \div kCanBeFreed # 0

-----------------------------------------------------------------------------
(***************************************************************************)
(* Faulty variants of actions below, each with a bug that such code is     *)
(* prone to.  No specification uses them.                                  *)
(***************************************************************************)

\* The flag is shifted one bit too far, out of the word.
SetGcReadyOverflows ==
    /\ rpc = "gc"
    /\ synchro' = synchro + 2 * kCanBeFreed
    /\ rpc' = "none"
    /\ wpc' = IF wpc = "in_run" THEN "ready1" ELSE wpc
    /\ UNCHANGED <<alive, hasFuture, completed, result, waiter, runner, parked, copied>>

\* sleepUntilComplete trusts the futex instead of checking completed in a loop.
UnparkTrustsWake ==
    /\ wpc = "wait"
    /\ ~parked
    /\ copied' = result
    /\ wpc' = "cleanup"
    /\ UNCHANGED <<alive, hasFuture, completed, synchro, result, waiter, runner, rpc, parked>>

\* The waiter ID is added without taking the sentinel away.
AnnounceKeepsSentinel ==
    /\ wpc = "park"
    /\ synchro' = fetchAdd(synchro, waiter * Field)
    /\ wpc' = "wait"
    /\ UNCHANGED <<alive, hasFuture, completed, result, waiter, runner, rpc, parked, copied>>

\* The waiter parks without comparing completed.
ParkBlindly ==
    /\ wpc = "wait"
    /\ ~parked
    /\ parked' = TRUE
    /\ UNCHANGED <<alive, hasFuture, completed, synchro, result, waiter, runner, wpc, rpc, copied>>

\* The waiter frees the task as soon as it is completed.
CleanupOnCompleted ==
    /\ wpc = "cleanup"
    /\ alive' = FALSE
    /\ wpc' = "idle"
    /\ UNCHANGED <<hasFuture, completed, synchro, result, waiter, runner, rpc, parked, copied>>

-----------------------------------------------------------------------------
Init ==
    /\ alive = FALSE
    /\ hasFuture = FALSE
    /\ completed = 0
    /\ synchro = 0
    /\ result = FALSE
    /\ waiter = 0
    /\ runner = 0
    /\ wpc = "idle"
    /\ rpc = "none"
    /\ parked = FALSE
    /\ copied = FALSE

\* newSpawn with initSynchroState, newFlowVar, schedule.
Spawn(w, future) ==
    /\ ~alive /\ rpc = "none" /\ wpc = "idle"
    /\ alive' = TRUE
    /\ hasFuture' = future
    /\ completed' = 0
    /\ synchro' = SentinelWaiter + SentinelThief
    /\ result' = FALSE
    /\ waiter' = w
    /\ rpc' = "queued"
    /\ wpc' = IF future THEN "spawned" ELSE "idle"
    /\ copied' = FALSE
    /\ UNCHANGED <<runner, parked>>

(***************************************************************************)
(* The runner.  A thief publishes its ID before it runs the task.          *)
(***************************************************************************)
Steal(w) ==
    /\ rpc = "queued"
    /\ w # waiter
    /\ runner' = w
    /\ rpc' = "stolen"
    /\ UNCHANGED <<alive, hasFuture, completed, synchro, result, waiter, wpc, parked, copied>>

SetThief ==
    /\ rpc = "stolen"
    /\ synchro' = fetchAdd(synchro, runner - SentinelThief)
    /\ rpc' = "running"
    /\ UNCHANGED <<alive, hasFuture, completed, result, waiter, runner, wpc, parked, copied>>

\* The spawner takes its own task back from its queue: while it awaits it, or in
\* its event loop when there is no future.
PopOwn ==
    /\ rpc = "queued"
    /\ \/ wpc = "pop" /\ wpc' = "in_run"
       \/ ~hasFuture /\ UNCHANGED wpc
    /\ runner' = waiter
    /\ rpc' = "running"
    /\ UNCHANGED <<alive, hasFuture, completed, synchro, result, waiter, parked, copied>>

\* task.fn ends with readyWith when there is a future.
RunFn ==
    /\ rpc = "running"
    /\ result' = hasFuture
    /\ rpc' = "ran"
    /\ UNCHANGED <<alive, hasFuture, completed, synchro, waiter, runner, wpc, parked, copied>>

\* The runner is the final owner of a task without future.
RunFree ==
    /\ rpc = "ran"
    /\ ~hasFuture
    /\ alive' = FALSE
    /\ rpc' = "none"
    /\ UNCHANGED <<hasFuture, completed, synchro, result, waiter, runner, wpc, parked, copied>>

\* setCompleted: the store, the look at the waiter field, the wake.
SetCompleted ==
    /\ rpc = "ran"
    /\ hasFuture
    /\ completed' = 1
    /\ rpc' = "look"
    /\ UNCHANGED <<alive, hasFuture, synchro, result, waiter, runner, wpc, parked, copied>>

LookForWaiter ==
    /\ rpc = "look"
    /\ rpc' = IF waiterField(synchro) # SentinelWaiter THEN "wake" ELSE "gc"
    /\ UNCHANGED <<alive, hasFuture, completed, synchro, result, waiter, runner, wpc, parked, copied>>

WakeWaiter ==
    /\ rpc = "wake"
    /\ parked' = FALSE
    /\ rpc' = "gc"
    /\ UNCHANGED <<alive, hasFuture, completed, synchro, result, waiter, runner, wpc, copied>>

\* setGcReady; run returns to the thread's loop, or to the await it was called from.
SetGcReady ==
    /\ rpc = "gc"
    /\ synchro' = fetchAdd(synchro, kCanBeFreed)
    /\ rpc' = "none"
    /\ wpc' = IF wpc = "in_run" THEN "ready1" ELSE wpc
    /\ UNCHANGED <<alive, hasFuture, completed, result, waiter, runner, parked, copied>>

(***************************************************************************)
(* The waiter: sync calls completeFuture, then cleanup.                    *)
(***************************************************************************)
Sync ==
    /\ wpc = "spawned"
    /\ wpc' = "ready1"
    /\ UNCHANGED <<alive, hasFuture, completed, synchro, result, waiter, runner, rpc, parked, copied>>

\* isFutReady, before phase 1 and in phase 2: copy the result when it is there.
FutReady ==
    /\ wpc \in {"ready1", "ready2"}
    /\ \/ /\ completed # 0
          /\ copied' = result
          /\ wpc' = "cleanup"
       \/ /\ completed = 0
          /\ wpc' = IF wpc = "ready1" THEN "pop" ELSE "leapfrog"
          /\ UNCHANGED copied
    /\ UNCHANGED <<alive, hasFuture, completed, synchro, result, waiter, runner, rpc, parked>>

\* Phase 1 ends when the local queue is empty: the task was stolen.  Other children of
\* the current task are run on the way, which is no step of this task.
PopNil ==
    /\ wpc = "pop"
    /\ rpc # "queued"
    /\ wpc' = "ready2"
    /\ UNCHANGED <<alive, hasFuture, completed, synchro, result, waiter, runner, rpc, parked, copied>>

\* It also ends at a task that is not a child of the current one, left in the queue by a
\* task that ran on this thread: that one is pushed back, above the awaited task.
PopUnrelated ==
    /\ wpc = "pop"
    /\ rpc = "queued"
    /\ wpc' = "ready2"
    /\ UNCHANGED <<alive, hasFuture, completed, synchro, result, waiter, runner, rpc, parked, copied>>

\* tryLeapfrog spins until the thief has published its ID; then the waiter finds
\* another task to run and comes back, or finds none and parks.
Leapfrog ==
    /\ wpc = "leapfrog"
    /\ thiefField(synchro) # SentinelThief
    /\ wpc' \in {"ready2", "park"}
    /\ UNCHANGED <<alive, hasFuture, completed, synchro, result, waiter, runner, rpc, parked, copied>>

\* sleepUntilComplete: announce, then wait in the futex while completed is 0.
AnnounceWaiter ==
    /\ wpc = "park"
    /\ synchro' = fetchAdd(synchro, waiter * Field - SentinelWaiter)
    /\ wpc' = "wait"
    /\ UNCHANGED <<alive, hasFuture, completed, result, waiter, runner, rpc, parked, copied>>

Park ==
    /\ wpc = "wait"
    /\ ~parked
    /\ completed = 0
    /\ parked' = TRUE
    /\ UNCHANGED <<alive, hasFuture, completed, synchro, result, waiter, runner, wpc, rpc, copied>>

\* futex_wait may return without a wake.
ParkInterrupted ==
    /\ parked
    /\ parked' = FALSE
    /\ UNCHANGED <<alive, hasFuture, completed, synchro, result, waiter, runner, wpc, rpc, copied>>

Unpark ==
    /\ wpc = "wait"
    /\ ~parked
    /\ completed # 0
    /\ wpc' = "ready2"
    /\ UNCHANGED <<alive, hasFuture, completed, synchro, result, waiter, runner, rpc, parked, copied>>

\* cleanup spins on isGcReady, then frees the task.
Cleanup ==
    /\ wpc = "cleanup"
    /\ isGcReady(synchro)
    /\ alive' = FALSE
    /\ wpc' = "idle"
    /\ UNCHANGED <<hasFuture, completed, synchro, result, waiter, runner, rpc, parked, copied>>

-----------------------------------------------------------------------------
RunnerStep ==
    \/ SetThief \/ RunFn \/ RunFree \/ SetCompleted \/ LookForWaiter \/ WakeWaiter \/ SetGcReady

WaiterStep ==
    \/ FutReady \/ PopOwn \/ PopNil \/ PopUnrelated \/ Leapfrog \/ AnnounceWaiter \/ Park
    \/ Unpark \/ Cleanup

Next ==
    \/ \E w \in Worker, future \in BOOLEAN : Spawn(w, future)
    \/ \E w \in Worker : Steal(w)
    \/ RunnerStep
    \/ Sync
    \/ WaiterStep
    \/ ParkInterrupted

Spec == Init /\ [][Next]_vars

\* The OS runs both threads, and a task ends.
FairSpec ==
    /\ Spec
    /\ WF_vars(RunnerStep)
    /\ WF_vars(WaiterStep)

-----------------------------------------------------------------------------
(* Properties. *)

TypeOK ==
    /\ alive \in BOOLEAN
    /\ hasFuture \in BOOLEAN
    /\ completed \in {0, 1}
    /\ synchro \in 0 .. WordSize - 1
    /\ result \in BOOLEAN
    /\ waiter \in Worker
    /\ runner \in Worker
    /\ wpc \in {"idle", "spawned", "ready1", "pop", "in_run", "ready2", "leapfrog", "park",
                "wait", "cleanup"}
    /\ rpc \in {"none", "queued", "stolen", "running", "ran", "look", "wake", "gc"}
    /\ parked \in BOOLEAN
    /\ copied \in BOOLEAN

\* Issue 2 of the "delicate dance": no thread is going to touch the task's memory
\* once it is freed; neither the runner after it has set completed, nor the waiter.
NoUseAfterFree == (rpc # "none" \/ wpc # "idle") => alive

\* The value sync returns is the one the runner stored.
SyncReturnsResult == wpc = "cleanup" => copied

\* The three fields do not run into each other: the thief field is the sentinel or the
\* thief, the waiter field the sentinel or the waiter, and the top bit is set exactly
\* when the runner is done, whatever the order of the fetchAdds.
SynchroFields ==
    alive /\ hasFuture =>
        /\ thiefField(synchro) =
              IF runner = waiter \/ rpc \in {"queued", "stolen"} THEN SentinelThief ELSE runner
        /\ waiterField(synchro) \in {SentinelWaiter, waiter * Field}
        /\ isGcReady(synchro) <=> rpc = "none"

\* Issue 1 of the "delicate dance": sync returns, the waiter is not left asleep on a
\* completed task nor spinning for a thief that never shows.
SyncReturns == (wpc = "ready1" ~> wpc = "idle")

\* The one way in which sync does not return: the waiter has met an unrelated task on top
\* of the awaited one and spins for a thief, which never comes, of a task in its own
\* queue.  In every other case sync returns.
SyncReturnsOrStarves ==
    wpc = "ready1" ~> (wpc = "idle" \/ [](wpc = "leapfrog" /\ rpc = "queued"))
=============================================================================
