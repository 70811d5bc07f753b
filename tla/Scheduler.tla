----------------------------- MODULE Scheduler -----------------------------
(***************************************************************************)
(* The work-stealing scheduler of constantine/threadpool/threadpool.nim:   *)
(* schedule, tryStealOne, eventLoop, syncAll, the start and the shutdown   *)
(* of the pool, over the eventcount they park on.                          *)
(*                                                                         *)
(* Tasks are anonymous: a queue is its front and back indices.  Taskqueue  *)
(* shows that push and pop take effect at one instant, so they are one     *)
(* step here; steal is two, as a theft may fail on a queue that is not     *)
(* empty, and what happens then is the scheduler's business.  Awaiting a   *)
(* future (completeFuture) is not in this module.                          *)
(***************************************************************************)
EXTENDS Eventcount

CONSTANTS Root,     \* worker 0, the thread that creates the pool
          MaxTasks  \* bound: number of tasks ever spawned

ASSUME SchedulerAssumption ==
    /\ Root \in Thread
    /\ MaxTasks \in Nat
    /\ IsFiniteSet(Thread)

\* Both counts fit in their bit fields.  The code does not check it: see
\* EventcountCapacity.
ASSUME CapacityAssumption ==
    /\ Cardinality(Thread) <= kPreWait
    /\ kPreWait * Cardinality(Thread) <= WordSize

VARIABLES
    pc,         \* pc[w]: where worker w is
    front,      \* front[w], back[w]: the queue of w
    back,
    up,         \* the workers whose queue is allocated
    busy,       \* the workers that hold a task: stolen, popped or running
    wasEmpty,   \* wasEmpty[w]: what schedule saw before its push
    victims,    \* victims[w]: the queues tryStealOne has left to visit
    victim,     \* victim[w], seen[w]: the queue being robbed and the front read
    seen,
    terminate,  \* the workers whose terminate signal is set
    closing,    \* syncAll was called by shutdown
    spawned     \* number of tasks spawned so far

queueVars == <<front, back, up>>
stealVars == <<victims, victim, seen>>
poolVars == <<terminate, closing>>
vars == <<ecVars, pc, queueVars, busy, wasEmpty, stealVars, poolVars, spawned>>

Pending(q) == back[q] - front[q]
Goto(w, l) == pc' = [pc EXCEPT ![w] = l]

-----------------------------------------------------------------------------
(***************************************************************************)
(* Faulty variants of actions below, each with a bug that such code is     *)
(* prone to.  No specification uses them.                                  *)
(***************************************************************************)

\* The test for an empty queue is off by one.
PopTooFar(w) ==
    /\ pc[w] = "pop"
    /\ Pending(w) >= 0
    /\ back' = [back EXCEPT ![w] = @ - 1]
    /\ busy' = busy \cup {w}
    /\ Goto(w, "run")
    /\ UNCHANGED <<ecVars, front, up, wasEmpty, stealVars, poolVars, spawned>>

\* syncAll is content with threads that are about to sleep.
CountIdle ==
    /\ pc[Root] = "count_waiters"
    /\ Goto(Root, IF preSleep(waitset) + committedSleep(waitset) = Cardinality(Thread) - 1
                  THEN "synced" ELSE "pop")
    /\ UNCHANGED <<ecVars, queueVars, busy, wasEmpty, stealVars, poolVars, spawned>>

\* A thief wakes another thread before it has cancelled its own announcement.
StealCasWakesFirst(w) ==
    /\ pc[w] = "steal_cas"
    /\ \/ /\ front[victim[w]] = seen[w]
          /\ front' = [front EXCEPT ![victim[w]] = @ + 1]
          /\ busy' = busy \cup {w}
          /\ Goto(w, "wake")
       \/ /\ front[victim[w]] # seen[w]
          /\ Goto(w, "steal")
          /\ UNCHANGED <<front, busy>>
    /\ victim' = [victim EXCEPT ![w] = w]
    /\ seen' = [seen EXCEPT ![w] = 0]
    /\ UNCHANGED <<ecVars, back, up, wasEmpty, victims, poolVars, spawned>>

\* The pool is started without waiting for the workers' queues.
StartEarly(w) ==
    /\ pc[w] = "boot_barrier"
    /\ Goto(w, IF w = Root THEN "main" ELSE "pop")
    /\ UNCHANGED <<ecVars, queueVars, busy, wasEmpty, stealVars, poolVars, spawned>>

\* shutdown wakes the workers before it has signalled them all.
WakeAllEarly ==
    /\ pc[Root] = "signal"
    /\ wakeBump
    /\ Goto(Root, "wakeall_look")
    /\ UNCHANGED <<queueVars, busy, wasEmpty, stealVars, poolVars, spawned>>

-----------------------------------------------------------------------------
Init ==
    /\ EcInit
    /\ pc = [w \in Thread |-> "boot"]
    /\ front = [w \in Thread |-> 0]
    /\ back = [w \in Thread |-> 0]
    /\ up = {}
    /\ busy = {}
    /\ wasEmpty = [w \in Thread |-> FALSE]
    /\ victims = [w \in Thread |-> {}]
    /\ victim = [w \in Thread |-> w]
    /\ seen = [w \in Thread |-> 0]
    /\ terminate = {}
    /\ closing = FALSE
    /\ spawned = 0

\* setupWorker, then the barrier that ends Threadpool.new and opens eventLoop: nobody
\* leaves it before all have reached it.
SetupWorker(w) ==
    /\ pc[w] = "boot"
    /\ up' = up \cup {w}
    /\ Goto(w, "boot_barrier")
    /\ UNCHANGED <<ecVars, front, back, busy, wasEmpty, stealVars, poolVars, spawned>>

Start(w) ==
    /\ pc[w] = "boot_barrier"
    /\ \A v \in Thread : pc[v] # "boot"
    /\ Goto(w, IF w = Root THEN "main" ELSE "pop")
    /\ UNCHANGED <<ecVars, queueVars, busy, wasEmpty, stealVars, poolVars, spawned>>

-----------------------------------------------------------------------------
(* schedule, from the root's own code ("main") or from a task ("run"). *)

Resume(w) == Goto(w, IF w \in busy THEN "run" ELSE "main")

Spawn(w) ==
    /\ pc[w] \in {"main", "run"}
    /\ spawned < MaxTasks
    /\ spawned' = spawned + 1
    /\ wasEmpty' = [wasEmpty EXCEPT ![w] = (Pending(w) = 0)]
    /\ Goto(w, "push")
    /\ UNCHANGED <<ecVars, queueVars, busy, stealVars, poolVars>>

Push(w) ==
    /\ pc[w] = "push"
    /\ back' = [back EXCEPT ![w] = @ + 1]
    /\ wasEmpty' = [wasEmpty EXCEPT ![w] = FALSE]
    /\ \/ wasEmpty[w] /\ Goto(w, "wake")
       \/ ~wasEmpty[w] /\ Resume(w)
    /\ UNCHANGED <<ecVars, front, up, busy, stealVars, poolVars, spawned>>

\* globalBackoff.wake(), after a push or a theft.
Wake(w) ==
    /\ pc[w] = "wake"
    /\ wakeBump
    /\ Goto(w, "wake_look")
    /\ UNCHANGED <<queueVars, busy, wasEmpty, stealVars, poolVars, spawned>>

WakeLook(w) ==
    /\ pc[w] = "wake_look"
    /\ \/ wakeNeedsSyscall(waitset) /\ Goto(w, "wake_syscall")
       \/ ~wakeNeedsSyscall(waitset) /\ Resume(w)
    /\ UNCHANGED <<ecVars, queueVars, busy, wasEmpty, stealVars, poolVars, spawned>>

WakeSyscall(w) ==
    /\ pc[w] = "wake_syscall"
    /\ wakeSyscall
    /\ Resume(w)
    /\ UNCHANGED <<queueVars, busy, wasEmpty, stealVars, poolVars, spawned>>

-----------------------------------------------------------------------------
(* eventLoop 1 and syncAll 1: empty the local queue. *)

\* The last task is taken like a theft, so that a thief that has seen it loses.
Pop(w) ==
    /\ pc[w] = "pop"
    /\ \/ /\ Pending(w) > 1
          /\ back' = [back EXCEPT ![w] = @ - 1]
          /\ UNCHANGED front
       \/ /\ Pending(w) = 1
          /\ front' = [front EXCEPT ![w] = @ + 1]
          /\ UNCHANGED back
    /\ busy' = busy \cup {w}
    /\ Goto(w, "run")
    /\ UNCHANGED <<ecVars, up, wasEmpty, stealVars, poolVars, spawned>>

\* Out of tasks: a worker gets sleepy before it steals, syncAll does not.
PopNil(w) ==
    /\ pc[w] = "pop"
    /\ Pending(w) = 0
    /\ \/ /\ w # Root
          /\ Goto(w, "sleepy")
          /\ UNCHANGED victims
       \/ /\ w = Root
          /\ victims' = [victims EXCEPT ![w] = Thread \ {w}]
          /\ Goto(w, "steal")
    /\ UNCHANGED <<ecVars, queueVars, busy, wasEmpty, victim, seen, poolVars, spawned>>

\* run: the end of the task.
Finish(w) ==
    /\ pc[w] = "run"
    /\ busy' = busy \ {w}
    /\ Goto(w, "pop")
    /\ UNCHANGED <<ecVars, queueVars, wasEmpty, stealVars, poolVars, spawned>>

-----------------------------------------------------------------------------
(* eventLoop 2: become a thief. *)

Sleepy(w) ==
    /\ pc[w] = "sleepy"
    /\ sleepyAnnounce
    /\ Goto(w, "ticket")
    /\ UNCHANGED <<queueVars, busy, wasEmpty, stealVars, poolVars, spawned>>

TakeTicket(w) ==
    /\ pc[w] = "ticket"
    /\ sleepyTicket(w)
    /\ victims' = [victims EXCEPT ![w] = Thread \ {w}]
    /\ Goto(w, "steal")
    /\ UNCHANGED <<queueVars, busy, wasEmpty, victim, seen, poolVars, spawned>>

\* tryStealOne visits the other queues in some order; steal loads front and back.
StealLook(w) ==
    /\ pc[w] = "steal"
    /\ \E v \in victims[w] :
          /\ victims' = [victims EXCEPT ![w] = @ \ {v}]
          /\ \/ /\ Pending(v) > 0
                /\ victim' = [victim EXCEPT ![w] = v]
                /\ seen' = [seen EXCEPT ![w] = front[v]]
                /\ Goto(w, "steal_cas")
             \/ /\ Pending(v) = 0
                /\ UNCHANGED <<victim, seen, pc>>
    /\ UNCHANGED <<ecVars, queueVars, busy, wasEmpty, poolVars, spawned>>

\* The locals of tryStealOne, no longer in use.
StealReturns(w) ==
    /\ victims' = [victims EXCEPT ![w] = {}]
    /\ victim' = [victim EXCEPT ![w] = w]
    /\ seen' = [seen EXCEPT ![w] = 0]

StealCas(w) ==
    /\ pc[w] = "steal_cas"
    /\ \/ /\ front[victim[w]] = seen[w]
          /\ front' = [front EXCEPT ![victim[w]] = @ + 1]
          /\ busy' = busy \cup {w}
          /\ StealReturns(w)
          /\ Goto(w, IF w = Root THEN "wake" ELSE "cancel")
       \/ /\ front[victim[w]] # seen[w]
          /\ victim' = [victim EXCEPT ![w] = w]
          /\ seen' = [seen EXCEPT ![w] = 0]
          /\ Goto(w, "steal")
          /\ UNCHANGED <<front, busy, victims>>
    /\ UNCHANGED <<ecVars, back, up, wasEmpty, poolVars, spawned>>

StealNil(w) ==
    /\ pc[w] = "steal"
    /\ victims[w] = {}
    /\ Goto(w, IF w = Root THEN "count_waiters" ELSE "check_terminate")
    /\ UNCHANGED <<ecVars, queueVars, busy, wasEmpty, stealVars, poolVars, spawned>>

\* 2.a: a task was stolen.  cancelSleep must come before wake.
CancelSleep(w) ==
    /\ pc[w] = "cancel"
    /\ cancelSleep(w)
    /\ Goto(w, "wake")
    /\ UNCHANGED <<queueVars, busy, wasEmpty, stealVars, poolVars, spawned>>

CheckTerminate(w) ==
    /\ pc[w] = "check_terminate"
    /\ Goto(w, IF w \in terminate THEN "cancel_exit" ELSE "commit")
    /\ UNCHANGED <<ecVars, queueVars, busy, wasEmpty, stealVars, poolVars, spawned>>

\* 2.b: leave the loop, on to the barrier of shutdown.
ExitLoop(w) ==
    /\ pc[w] = "cancel_exit"
    /\ cancelSleep(w)
    /\ Goto(w, "exit_barrier")
    /\ UNCHANGED <<queueVars, busy, wasEmpty, stealVars, poolVars, spawned>>

\* 2.c: park.
Commit(w) ==
    /\ pc[w] = "commit"
    /\ sleepCommit
    /\ Goto(w, "sleep")
    /\ UNCHANGED <<queueVars, busy, wasEmpty, stealVars, poolVars, spawned>>

Sleep(w) ==
    /\ pc[w] = "sleep"
    /\ sleepWait(w)
    /\ UNCHANGED <<pc, queueVars, busy, wasEmpty, stealVars, poolVars, spawned>>

SleepInterrupted(w) ==
    /\ pc[w] = "sleep"
    /\ futexInterrupted(w)
    /\ UNCHANGED <<pc, queueVars, busy, wasEmpty, stealVars, poolVars, spawned>>

WakeUp(w) ==
    /\ pc[w] = "sleep"
    /\ sleepLeave(w)
    /\ Goto(w, "pop")
    /\ UNCHANGED <<queueVars, busy, wasEmpty, stealVars, poolVars, spawned>>

-----------------------------------------------------------------------------
(* The root: syncAll and shutdown. *)

\* syncAll is called by the user, or by shutdown.
SyncAll ==
    /\ pc[Root] = "main"
    /\ closing' \in BOOLEAN
    /\ Goto(Root, "pop")
    /\ UNCHANGED <<ecVars, queueVars, busy, wasEmpty, stealVars, terminate, spawned>>

\* 2.b: every other thread is parked.
CountWaiters ==
    /\ pc[Root] = "count_waiters"
    /\ Goto(Root, IF getNumWaiters = [preSleep |-> 0, committedSleep |-> Cardinality(Thread) - 1]
                  THEN "synced" ELSE "pop")
    /\ UNCHANGED <<ecVars, queueVars, busy, wasEmpty, stealVars, poolVars, spawned>>

\* syncAll returns.
Synced ==
    /\ pc[Root] = "synced"
    /\ Goto(Root, IF closing THEN "signal" ELSE "main")
    /\ UNCHANGED <<ecVars, queueVars, busy, wasEmpty, stealVars, poolVars, spawned>>

SignalTerminate(w) ==
    /\ pc[Root] = "signal"
    /\ w \notin terminate
    /\ terminate' = terminate \cup {w}
    /\ UNCHANGED <<ecVars, pc, queueVars, busy, wasEmpty, stealVars, closing, spawned>>

WakeAll ==
    /\ pc[Root] = "signal"
    /\ terminate = Thread
    /\ wakeBump
    /\ Goto(Root, "wakeall_look")
    /\ UNCHANGED <<queueVars, busy, wasEmpty, stealVars, poolVars, spawned>>

WakeAllLook ==
    /\ pc[Root] = "wakeall_look"
    /\ Goto(Root, IF wakeAllNeedsSyscall(waitset) THEN "wakeall_syscall" ELSE "shutdown")
    /\ UNCHANGED <<ecVars, queueVars, busy, wasEmpty, stealVars, poolVars, spawned>>

WakeAllSyscall ==
    /\ pc[Root] = "wakeall_syscall"
    /\ wakeAllSyscall
    /\ Goto(Root, "shutdown")
    /\ UNCHANGED <<queueVars, busy, wasEmpty, stealVars, poolVars, spawned>>

Shutdown ==
    /\ pc[Root] = "shutdown"
    /\ Goto(Root, "exit_barrier")
    /\ UNCHANGED <<ecVars, queueVars, busy, wasEmpty, stealVars, poolVars, spawned>>

\* teardownWorker, behind the barrier.
Teardown(w) ==
    /\ pc[w] = "exit_barrier"
    /\ \A v \in Thread : pc[v] \in {"exit_barrier", "join", "exited"}
    /\ up' = up \ {w}
    /\ Goto(w, IF w = Root THEN "join" ELSE "exited")
    /\ UNCHANGED <<ecVars, front, back, busy, wasEmpty, stealVars, poolVars, spawned>>

\* cleanup joins the workers, then frees what they shared.
Cleanup ==
    /\ pc[Root] = "join"
    /\ \A w \in Thread \ {Root} : pc[w] = "exited"
    /\ Goto(Root, "exited")
    /\ UNCHANGED <<ecVars, queueVars, busy, wasEmpty, stealVars, poolVars, spawned>>

Done ==
    /\ pc[Root] = "exited"
    /\ UNCHANGED vars

-----------------------------------------------------------------------------
\* What a thread does by itself; Spawn, SyncAll and interrupts are up to others.
Step(w) ==
    \/ SetupWorker(w) \/ Start(w)
    \/ Push(w) \/ Wake(w) \/ WakeLook(w) \/ WakeSyscall(w)
    \/ Pop(w) \/ PopNil(w) \/ Finish(w)
    \/ Sleepy(w) \/ TakeTicket(w) \/ StealLook(w) \/ StealCas(w) \/ StealNil(w)
    \/ CancelSleep(w) \/ CheckTerminate(w) \/ ExitLoop(w)
    \/ Commit(w) \/ Sleep(w) \/ WakeUp(w)
    \/ Teardown(w)

RootStep ==
    \/ CountWaiters \/ Synced
    \/ \E w \in Thread : SignalTerminate(w)
    \/ WakeAll \/ WakeAllLook \/ WakeAllSyscall \/ Shutdown \/ Cleanup

Next ==
    \/ \E w \in Thread : Step(w) \/ Spawn(w) \/ SleepInterrupted(w)
    \/ SyncAll
    \/ RootStep
    \/ Done

Spec == Init /\ [][Next]_vars

\* The OS runs every thread, and every task ends.
FairSpec ==
    /\ Spec
    /\ \A w \in Thread : WF_vars(Step(w))
    /\ WF_vars(RootStep)

-----------------------------------------------------------------------------
(* Properties. *)

preSleepers == {w \in Thread \ {Root} : pc[w] \in {"ticket", "steal", "steal_cas", "check_terminate",
                                                   "commit", "cancel", "cancel_exit"}}
sleepers == {w \in Thread : pc[w] = "sleep"}

TypeOK ==
    /\ waitset \in 0 .. WordSize - 1
    /\ events \in 0 .. EpochSize - 1
    /\ ticket \in [Thread -> 0 .. EpochSize - 1]
    /\ asleep \subseteq Thread
    /\ pc \in [Thread -> {"boot", "boot_barrier", "main", "run", "push", "wake", "wake_look",
                          "wake_syscall", "pop", "sleepy", "ticket", "steal", "steal_cas",
                          "cancel", "check_terminate", "cancel_exit", "commit", "sleep",
                          "count_waiters", "synced", "signal", "wakeall_look",
                          "wakeall_syscall", "shutdown", "exit_barrier", "join", "exited"}]
    /\ front \in [Thread -> Nat]
    /\ back \in [Thread -> Nat]
    /\ up \subseteq Thread
    /\ busy \subseteq Thread
    /\ wasEmpty \in [Thread -> BOOLEAN]
    /\ victims \in [Thread -> SUBSET Thread]
    /\ victim \in [Thread -> Thread]
    /\ seen \in [Thread -> Nat]
    /\ terminate \subseteq Thread
    /\ closing \in BOOLEAN
    /\ spawned \in 0 .. MaxTasks

\* getNumWaiters returns the exact number of threads between sleepy and sleep and
\* of threads committed to sleep, which the barrier of syncAll is built on.
NumWaitersExact ==
    getNumWaiters = [preSleep |-> Cardinality(preSleepers),
                     committedSleep |-> Cardinality(sleepers)]

\* When syncAll returns no task is left: none queued, none held by a thief that has
\* not run it yet, none running.
SyncAllDone ==
    pc[Root] \in {"synced", "signal", "wakeall_look", "wakeall_syscall", "shutdown",
                  "exit_barrier", "join", "exited"} =>
        /\ busy = {}
        /\ \A q \in Thread : Pending(q) = 0

\* The invariant of the task notification overview: work is queued only while some
\* thread is looking for it or about to wake another, or no thread is parked.
WorkIsLookedFor ==
    asleep # {} /\ (\A w \in Thread : w \in asleep \/ pc[w] \in {"run", "main"})
        => \A q \in Thread : Pending(q) = 0

\* A wake that spares the syscall while somebody is parked is heard by somebody else, who
\* is still to look at the queues or has a wake of its own to send: what suppresses it is
\* never the announcement of the thread that wakes.
WakeIsHeard ==
    \A w \in Thread :
        pc[w] = "wake_look" /\ asleep # {} /\ ~wakeNeedsSyscall(waitset)
            => preSleepers \ {w} # {}

\* Nobody looks into the queue of a worker that has not set it up or has torn it down.
NoTheftFromDeadQueue ==
    \A w \in Thread :
        /\ pc[w] = "steal" => victims[w] \subseteq up
        /\ pc[w] = "steal_cas" => victim[w] \in up

\* Once shutdown is called every thread ends, in every interleaving of the terminate
\* signals, the last wakeAll and the workers on their way to sleep.
ShutdownEnds == (closing ~> \A w \in Thread : pc[w] = "exited")

\* Every call of syncAll returns.
SyncAllReturns == (pc[Root] = "pop" ~> pc[Root] = "synced")
=============================================================================
