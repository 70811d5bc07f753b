-------------------------- MODULE SchedulerProofs --------------------------
(***************************************************************************)
(* Proofs about Scheduler, for every number of threads that fits in the    *)
(* eventcount, every number of tasks and every victim order.               *)
(***************************************************************************)
EXTENDS Scheduler, FiniteSetTheorems, TLAPS

-----------------------------------------------------------------------------
(* The packed word. *)

\* The sum of the two counts determines the word, and it does not overflow.
LEMMA PackedRange ==
    ASSUME NEW K \in Nat \ {0}, NEW N \in Nat, NEW W \in Nat \ {0}, N <= K, K * N <= W,
           NEW a \in Nat, NEW b \in Nat, a + b < N
    PROVE  a * K + b \in 0 .. W - 1
<1>1. a * K >= 0  BY SMT
<1>2. K * N = (N - 1 - a) * K + a * K + K  BY SMT
<1>3. N - 1 - a \in Nat  OBVIOUS
<1>4. (N - 1 - a) * K >= 0  BY <1>3, SMT
<1>5. a * K \in Nat /\ (N - 1 - a) * K \in Nat /\ K * N \in Nat  BY <1>1, <1>3, <1>4, SMT
<1> QED  BY <1>2, <1>5

\* The fields of the word are the two counts.
LEMMA PackedFields ==
    ASSUME NEW K \in Nat \ {0}, NEW a \in Nat, NEW b \in Nat, b < K
    PROVE  (a * K + b) % K = b /\ (a * K + b) \div K = a
BY SMT

\* A number below the modulus is its own remainder.
LEMMA SmallMod ==
    ASSUME NEW W \in Nat \ {0}, NEW x \in 0 .. W - 1
    PROVE  x % W = x
BY SMT

-----------------------------------------------------------------------------
(***************************************************************************)
(* The inductive invariant.                                                *)
(***************************************************************************)

\* Labels only a worker reaches, and labels only the root reaches.
WorkerOnly == {"sleepy", "ticket", "check_terminate", "commit", "cancel", "cancel_exit", "sleep"}
RootOnly == {"main", "count_waiters", "synced", "signal", "wakeall_look", "wakeall_syscall",
             "shutdown", "join"}

Roles ==
    /\ pc[Root] \notin WorkerOnly
    /\ \A w \in Thread : w # Root => pc[w] \notin RootOnly

\* Labels at which a thread has found its own queue empty and has no task.
Idle == {"boot", "boot_barrier", "sleepy", "ticket", "steal", "steal_cas", "check_terminate",
         "commit", "cancel_exit", "sleep", "count_waiters", "synced", "signal", "wakeall_look",
         "wakeall_syscall", "shutdown", "exit_barrier", "join", "exited"}

Queues ==
    \A w \in Thread : front[w] <= back[w] /\ (pc[w] \in Idle => back[w] = front[w])

\* Labels at which a worker has a task.
Working == {"run", "push", "wake", "wake_look", "wake_syscall", "cancel"}

Holders ==
    \A w \in Thread :
        /\ pc[w] \in Idle \cup {"pop", "main"} => w \notin busy
        /\ w # Root /\ pc[w] \in Working => w \in busy

\* A thief whose front is still current robs a queue that is not empty.
Thefts ==
    \A w \in Thread :
        pc[w] = "steal_cas" =>
            /\ seen[w] <= front[victim[w]]
            /\ seen[w] = front[victim[w]] => front[victim[w]] < back[victim[w]]

Counts == waitset = Cardinality(preSleepers) * kPreWait + Cardinality(sleepers)

AfterSync == {"synced", "signal", "wakeall_look", "wakeall_syscall", "shutdown", "exit_barrier",
              "join", "exited"}

Quiet ==
    pc[Root] \in AfterSync => busy = {} /\ \A q \in Thread : back[q] = front[q]

\* Nobody is past the first barrier before all have a queue, nor has torn down its
\* queue before all are at the last one.
Barriers ==
    \A v, w \in Thread :
        /\ w \in up <=> pc[w] \notin {"boot", "join", "exited"}
        /\ pc[v] = "boot" => pc[w] \in {"boot", "boot_barrier"}
        /\ pc[v] \in {"join", "exited"} => pc[w] \in {"exit_barrier", "join", "exited"}

IInv == TypeOK /\ Roles /\ Queues /\ Holders /\ Thefts /\ Counts /\ Quiet /\ Barriers

-----------------------------------------------------------------------------
(* Counting the sleepers. *)

PreLabels == {"ticket", "steal", "steal_cas", "check_terminate", "commit", "cancel",
              "cancel_exit"}

\* The root is never counted, so the counts stay below the number of threads.
LEMMA CountBounds ==
    ASSUME NEW P \in SUBSET (Thread \ {Root}), NEW S \in SUBSET (Thread \ {Root}),
           P \cap S = {}
    PROVE  /\ IsFiniteSet(P) /\ IsFiniteSet(S) /\ IsFiniteSet(Thread \ {Root})
           /\ Cardinality(P) \in Nat /\ Cardinality(S) \in Nat
           /\ Cardinality(Thread) \in Nat
           /\ Cardinality(Thread \ {Root}) = Cardinality(Thread) - 1
           /\ Cardinality(P) + Cardinality(S) < Cardinality(Thread)
<1> DEFINE Others == Thread \ {Root}
<1>1. /\ IsFiniteSet(Others) /\ Cardinality(Others) = Cardinality(Thread) - 1
      /\ Cardinality(Thread) \in Nat /\ Cardinality(Others) \in Nat
  BY SchedulerAssumption, FS_RemoveElement, FS_CardinalityType
<1>2. P \in SUBSET Others /\ S \in SUBSET Others  OBVIOUS
<1> HIDE DEF Others
<1>3. /\ IsFiniteSet(P) /\ IsFiniteSet(S)
      /\ Cardinality(P) \in Nat /\ Cardinality(S) \in Nat
  BY <1>1, <1>2, FS_Subset, FS_CardinalityType
<1>4. Cardinality(P \cup S) = Cardinality(P) + Cardinality(S)
  <2>1. Cardinality(P \cap S) = 0  BY FS_EmptySet
  <2>2. Cardinality(P \cup S) = Cardinality(P) + Cardinality(S) - Cardinality(P \cap S)
    BY <1>3, FS_Union
  <2> QED  BY <1>3, <2>1, <2>2
<1>5. Cardinality(P \cup S) <= Cardinality(Others)
  <2>1. P \cup S \in SUBSET Others  BY <1>2
  <2> QED  BY <1>1, <2>1, FS_Subset
<1> QED  BY <1>1, <1>3, <1>4, <1>5 DEF Others

\* The threads counted are workers, and none is counted twice.
LEMMA SleepSets ==
    ASSUME Roles
    PROVE  /\ preSleepers \in SUBSET (Thread \ {Root})
           /\ sleepers \in SUBSET (Thread \ {Root})
           /\ preSleepers \cap sleepers = {}
BY DEF Roles, WorkerOnly, preSleepers, sleepers

\* One more, or one less.
LEMMA OneMore ==
    ASSUME NEW P \in SUBSET (Thread \ {Root}), NEW w \in Thread \ {Root}, w \notin P
    PROVE  Cardinality(P \cup {w}) = Cardinality(P) + 1 /\ Cardinality(P) \in Nat
<1>1. IsFiniteSet(P)  BY CountBounds, P \cap {} = {}, {} \in SUBSET (Thread \ {Root})
<1> QED  BY <1>1, FS_AddElement, FS_CardinalityType

LEMMA OneLess ==
    ASSUME NEW P \in SUBSET (Thread \ {Root}), NEW w \in P
    PROVE  Cardinality(P \ {w}) = Cardinality(P) - 1 /\ Cardinality(P) \in Nat
<1>1. IsFiniteSet(P)  BY CountBounds, P \cap {} = {}, {} \in SUBSET (Thread \ {Root})
<1> QED  BY <1>1, FS_RemoveElement, FS_CardinalityType

\* A fetchAdd that brings the word to the packed counts does not wrap.
LEMMA WordStep ==
    ASSUME NEW a \in Nat, NEW b \in Nat, a + b < Cardinality(Thread),
           NEW x \in Int, NEW d \in Int, x + d = a * kPreWait + b
    PROVE  fetchAdd(x, d) = a * kPreWait + b
<1>1. Cardinality(Thread) \in Nat  BY SchedulerAssumption, FS_CardinalityType
<1>2. kPreWait \in Nat \ {0} /\ WordSize \in Nat \ {0}
  BY EventcountAssumption DEF kPreWait, WordSize
<1>3. Cardinality(Thread) <= kPreWait /\ kPreWait * Cardinality(Thread) <= WordSize
  BY CapacityAssumption
<1>4. fetchAdd(x, d) = (a * kPreWait + b) % WordSize  BY DEF fetchAdd
<1>5. a * kPreWait + b \in 0 .. WordSize - 1  BY <1>1, <1>2, <1>3, PackedRange
<1> QED  BY <1>2, <1>4, <1>5, SmallMod

\* The words stay in their ranges.
LEMMA WordRange ==
    ASSUME NEW x \in Int
    PROVE  /\ fetchAdd(x, kPreWait) \in 0 .. WordSize - 1
           /\ fetchAdd(x, -kPreWait) \in 0 .. WordSize - 1
           /\ fetchAdd(x, kCommitToWait) \in 0 .. WordSize - 1
           /\ fetchAdd(x, -kWait) \in 0 .. WordSize - 1
<1>1. kPreWait \in Int /\ -kPreWait \in Int /\ WordSize \in Nat \ {0}
  BY EventcountAssumption DEF kPreWait, WordSize
<1>2. kCommitToWait \in Int /\ -kWait \in Int  BY <1>1 DEF kCommitToWait, kWait
<1>3. ASSUME NEW d \in Int PROVE fetchAdd(x, d) \in 0 .. WordSize - 1
  BY <1>1 DEF fetchAdd
<1> QED  BY <1>1, <1>2, <1>3

LEMMA EpochRange ==
    /\ 0 \in 0 .. EpochSize - 1
    /\ \A e \in 0 .. EpochSize - 1 : (e + 1) % EpochSize \in 0 .. EpochSize - 1
BY EventcountAssumption

\* The four ways through the sleep protocol keep the word exact, and so does a step
\* that takes no thread into it, along it or out of it.
LEMMA CountsSame ==
    ASSUME Counts, waitset' = waitset,
           \A v \in Thread : /\ v = Root \/ (pc[v] \in PreLabels <=> pc'[v] \in PreLabels)
                             /\ pc[v] = "sleep" <=> pc'[v] = "sleep"
    PROVE  Counts'
<1>1. preSleepers' = preSleepers /\ sleepers' = sleepers
  BY DEF preSleepers, sleepers, PreLabels
<1> QED  BY <1>1 DEF Counts

LEMMA CountsAnnounce ==
    ASSUME TypeOK, Roles, Counts, NEW w \in Thread, w # Root, pc[w] = "sleepy",
           pc' = [pc EXCEPT ![w] = "ticket"], waitset' = fetchAdd(waitset, kPreWait)
    PROVE  Counts'
<1> DEFINE P == preSleepers  S == sleepers  a == Cardinality(P)  b == Cardinality(S)
<1>1. \A v \in Thread : pc'[v] = IF v = w THEN "ticket" ELSE pc[v]  BY DEF TypeOK
<1>2. /\ P \in SUBSET (Thread \ {Root}) /\ S \in SUBSET (Thread \ {Root})
      /\ P \cap S = {} /\ w \in Thread \ {Root} /\ w \notin P /\ w \notin S
  BY SleepSets DEF preSleepers, sleepers
<1>3. preSleepers' = P \cup {w} /\ sleepers' = S  BY <1>1 DEF preSleepers, sleepers
<1>4. waitset = a * kPreWait + b  BY DEF Counts
<1> HIDE DEF P, S
<1>5. Cardinality(P \cup {w}) = a + 1 /\ a \in Nat  BY <1>2, OneMore
<1>6. b \in Nat /\ (a + 1) + b < Cardinality(Thread)
  <2>1. P \cup {w} \in SUBSET (Thread \ {Root}) /\ (P \cup {w}) \cap S = {}  BY <1>2
  <2> QED  BY <1>2, <1>5, <2>1, CountBounds
<1>7. kPreWait \in Nat  BY EventcountAssumption DEF kPreWait
<1> HIDE DEF a, b
<1>8. /\ a + 1 \in Nat /\ waitset \in Int /\ kPreWait \in Int
      /\ waitset + kPreWait = (a + 1) * kPreWait + b
  BY <1>4, <1>5, <1>6, <1>7, SMT
<1>9. fetchAdd(waitset, kPreWait) = (a + 1) * kPreWait + b
  BY <1>6, <1>8, WordStep
<1> QED  BY <1>3, <1>5, <1>9 DEF Counts, a, b

LEMMA CountsCancel ==
    ASSUME TypeOK, Roles, Counts, NEW w \in Thread, w # Root, pc[w] \in PreLabels,
           \A v \in Thread \ {w} : pc'[v] = pc[v], pc'[w] \notin PreLabels \cup {"sleep"},
           waitset' = fetchAdd(waitset, -kPreWait)
    PROVE  Counts'
<1> DEFINE P == preSleepers  S == sleepers  a == Cardinality(P)  b == Cardinality(S)
<1>2. /\ P \in SUBSET (Thread \ {Root}) /\ S \in SUBSET (Thread \ {Root})
      /\ P \cap S = {} /\ w \in P /\ w \notin S
  BY SleepSets DEF preSleepers, sleepers, PreLabels
<1>3. preSleepers' = P \ {w} /\ sleepers' = S  BY DEF preSleepers, sleepers, PreLabels
<1>4. waitset = a * kPreWait + b  BY DEF Counts
<1> HIDE DEF P, S
<1>5. Cardinality(P \ {w}) = a - 1 /\ a \in Nat  BY <1>2, OneLess
<1>6. b \in Nat /\ a - 1 \in Nat /\ (a - 1) + b < Cardinality(Thread)
  <2>1. P \ {w} \in SUBSET (Thread \ {Root}) /\ (P \ {w}) \cap S = {}  BY <1>2
  <2> QED  BY <1>2, <1>5, <2>1, CountBounds
<1>7. kPreWait \in Nat  BY EventcountAssumption DEF kPreWait
<1> HIDE DEF a, b
<1>8. /\ waitset \in Int /\ -kPreWait \in Int
      /\ waitset + (-kPreWait) = (a - 1) * kPreWait + b
  BY <1>4, <1>5, <1>6, <1>7, SMT
<1>9. fetchAdd(waitset, -kPreWait) = (a - 1) * kPreWait + b
  BY <1>6, <1>8, WordStep
<1> QED  BY <1>3, <1>5, <1>9 DEF Counts, a, b

LEMMA CountsCommit ==
    ASSUME TypeOK, Roles, Counts, NEW w \in Thread, w # Root, pc[w] = "commit",
           pc' = [pc EXCEPT ![w] = "sleep"], waitset' = fetchAdd(waitset, kCommitToWait)
    PROVE  Counts'
<1> DEFINE P == preSleepers  S == sleepers  a == Cardinality(P)  b == Cardinality(S)
<1>1. \A v \in Thread : pc'[v] = IF v = w THEN "sleep" ELSE pc[v]  BY DEF TypeOK
<1>2. /\ P \in SUBSET (Thread \ {Root}) /\ S \in SUBSET (Thread \ {Root})
      /\ P \cap S = {} /\ w \in P /\ w \in Thread \ {Root} /\ w \notin S
  BY SleepSets DEF preSleepers, sleepers
<1>3. preSleepers' = P \ {w} /\ sleepers' = S \cup {w}
  BY <1>1 DEF preSleepers, sleepers
<1>4. waitset = a * kPreWait + b  BY DEF Counts
<1> HIDE DEF P, S
<1>5. /\ Cardinality(P \ {w}) = a - 1 /\ a \in Nat
      /\ Cardinality(S \cup {w}) = b + 1 /\ b \in Nat
  BY <1>2, OneLess, OneMore
<1>6. a - 1 \in Nat /\ (a - 1) + (b + 1) < Cardinality(Thread)
  <2>1. /\ P \ {w} \in SUBSET (Thread \ {Root}) /\ S \cup {w} \in SUBSET (Thread \ {Root})
        /\ (P \ {w}) \cap (S \cup {w}) = {}
    BY <1>2
  <2> QED  BY <1>5, <2>1, CountBounds
<1>7. kPreWait \in Nat  BY EventcountAssumption DEF kPreWait
<1> HIDE DEF a, b
<1>8. /\ waitset \in Int /\ kCommitToWait \in Int
      /\ waitset + kCommitToWait = (a - 1) * kPreWait + (b + 1)
  <2>1. kCommitToWait = 1 - kPreWait  BY DEF kCommitToWait, kWait
  <2> QED  BY <1>4, <1>5, <1>6, <1>7, <2>1, SMT
<1>9. fetchAdd(waitset, kCommitToWait) = (a - 1) * kPreWait + (b + 1)
  BY <1>5, <1>6, <1>8, WordStep
<1> QED  BY <1>3, <1>5, <1>9 DEF Counts, a, b

LEMMA CountsLeave ==
    ASSUME TypeOK, Roles, Counts, NEW w \in Thread, w # Root, pc[w] = "sleep",
           pc' = [pc EXCEPT ![w] = "pop"], waitset' = fetchAdd(waitset, -kWait)
    PROVE  Counts'
<1> DEFINE P == preSleepers  S == sleepers  a == Cardinality(P)  b == Cardinality(S)
<1>1. \A v \in Thread : pc'[v] = IF v = w THEN "pop" ELSE pc[v]  BY DEF TypeOK
<1>2. /\ P \in SUBSET (Thread \ {Root}) /\ S \in SUBSET (Thread \ {Root})
      /\ P \cap S = {} /\ w \in S /\ w \notin P
  BY SleepSets DEF preSleepers, sleepers
<1>3. preSleepers' = P /\ sleepers' = S \ {w}  BY <1>1 DEF preSleepers, sleepers
<1>4. waitset = a * kPreWait + b  BY DEF Counts
<1> HIDE DEF P, S
<1>5. Cardinality(S \ {w}) = b - 1 /\ b \in Nat  BY <1>2, OneLess
<1>6. a \in Nat /\ b - 1 \in Nat /\ a + (b - 1) < Cardinality(Thread)
  <2>1. S \ {w} \in SUBSET (Thread \ {Root}) /\ P \cap (S \ {w}) = {}  BY <1>2
  <2> QED  BY <1>2, <1>5, <2>1, CountBounds
<1>7. kPreWait \in Nat  BY EventcountAssumption DEF kPreWait
<1> HIDE DEF a, b
<1>8. /\ waitset \in Int /\ -kWait \in Int
      /\ waitset + (-kWait) = a * kPreWait + (b - 1)
  <2>1. kWait = 1  BY DEF kWait
  <2> QED  BY <1>4, <1>5, <1>6, <1>7, <2>1, SMT
<1>9. fetchAdd(waitset, -kWait) = a * kPreWait + (b - 1)
  BY <1>5, <1>6, <1>8, WordStep
<1> QED  BY <1>3, <1>5, <1>9 DEF Counts, a, b

-----------------------------------------------------------------------------
(* The invariant is inductive. *)

\* The two fields are the two counts.
LEMMA CountedExactly ==
    ASSUME IInv
    PROVE  /\ preSleep(waitset) = Cardinality(preSleepers)
           /\ committedSleep(waitset) = Cardinality(sleepers)
<1> DEFINE a == Cardinality(preSleepers)  b == Cardinality(sleepers)
<1>1. /\ preSleepers \in SUBSET (Thread \ {Root}) /\ sleepers \in SUBSET (Thread \ {Root})
      /\ preSleepers \cap sleepers = {}
  BY SleepSets DEF IInv
<1>2. a \in Nat /\ b \in Nat /\ a + b < Cardinality(Thread) /\ Cardinality(Thread) \in Nat
  BY <1>1, CountBounds
<1>3. kPreWait \in Nat \ {0}  BY EventcountAssumption DEF kPreWait
<1>4. Cardinality(Thread) <= kPreWait  BY CapacityAssumption
<1>5. waitset = a * kPreWait + b  BY DEF IInv, Counts
<1> HIDE DEF a, b
<1>6. b < kPreWait  BY <1>2, <1>3, <1>4
<1>7. waitset % kPreWait = b /\ waitset \div kPreWait = a  BY <1>2, <1>3, <1>5, <1>6, PackedFields
<1> QED  BY <1>7 DEF preSleep, committedSleep, a, b

\* The pool starts with no task and nobody counted.
LEMMA InitIInv == Init => IInv
<1> SUFFICES ASSUME Init PROVE IInv  OBVIOUS
<1>1. WordSize \in Nat \ {0}  BY EventcountAssumption DEF WordSize
<1>2. 0 \in 0 .. WordSize - 1 /\ 0 \in 0 .. MaxTasks  BY <1>1, SchedulerAssumption
<1>3. TypeOK  BY <1>2, EpochRange DEF Init, EcInit, TypeOK
<1>4. Roles /\ Queues /\ Holders /\ Thefts /\ Quiet /\ Barriers
  BY SchedulerAssumption DEF Init, Roles, Queues, Holders, Thefts, Quiet, Barriers,
     Idle, Working, WorkerOnly, RootOnly, AfterSync
<1>5. Counts
  <2>1. preSleepers = {} /\ sleepers = {}  BY DEF Init, preSleepers, sleepers
  <2>2. kPreWait \in Nat  BY EventcountAssumption DEF kPreWait
  <2> QED  BY <2>1, <2>2, FS_EmptySet DEF Init, EcInit, Counts
<1> QED  BY <1>3, <1>4, <1>5 DEF IInv

\* When the low field counts all threads but one, all workers are committed to sleep.
LEMMA AllAsleep ==
    ASSUME IInv, committedSleep(waitset) = Cardinality(Thread) - 1
    PROVE  sleepers = Thread \ {Root}
<1> DEFINE a == Cardinality(preSleepers)  b == Cardinality(sleepers)
<1>1. /\ preSleepers \in SUBSET (Thread \ {Root}) /\ sleepers \in SUBSET (Thread \ {Root})
      /\ preSleepers \cap sleepers = {}
  BY SleepSets DEF IInv
<1>2. /\ IsFiniteSet(Thread \ {Root}) /\ a \in Nat /\ b \in Nat /\ a + b < Cardinality(Thread)
      /\ Cardinality(Thread) \in Nat /\ Cardinality(Thread \ {Root}) = Cardinality(Thread) - 1
  BY <1>1, CountBounds
<1>3. committedSleep(waitset) = b  BY CountedExactly DEF a, b
<1>4. Cardinality(sleepers) = Cardinality(Thread \ {Root})  BY <1>2, <1>3
<1> QED  BY <1>1, <1>2, <1>4, FS_Subset

\* Every step of every thread preserves the invariant.
LEMMA StepIInv == IInv /\ [Next]_vars => IInv'
<1> SUFFICES ASSUME IInv, [Next]_vars PROVE IInv'  OBVIOUS
<1> USE DEF IInv, Goto, ecVars, queueVars, stealVars, poolVars
<1>1. ASSUME NEW w \in Thread, SetupWorker(w) PROVE IInv'
  <2>1. TypeOK'  BY <1>1 DEF SetupWorker, TypeOK
  <2>2. Roles' /\ Queues' /\ Holders'
    BY <1>1, SchedulerAssumption DEF SetupWorker, TypeOK, Roles, Queues, Holders, Idle, Working,
       WorkerOnly, RootOnly, AfterSync
  <2>3. Thefts'
    BY <1>1 DEF SetupWorker, TypeOK, Queues, Thefts
  <2>4. Counts'
    BY <1>1, CountsSame, SchedulerAssumption DEF SetupWorker, TypeOK, Roles, Idle, Working,
       WorkerOnly, RootOnly, AfterSync, PreLabels
  <2>5. Quiet'
    BY <1>1, SchedulerAssumption DEF SetupWorker, TypeOK, Roles, Queues, Holders, Thefts, Quiet,
       Idle, Working, WorkerOnly, RootOnly, AfterSync
  <2>6. Barriers'  BY <1>1 DEF SetupWorker, TypeOK, Barriers
  <2> QED  BY <2>1, <2>2, <2>3, <2>4, <2>5, <2>6
<1>2. ASSUME NEW w \in Thread, Start(w) PROVE IInv'
  <2>1. TypeOK'  BY <1>2 DEF Start, TypeOK
  <2>2. Roles' /\ Queues' /\ Holders'
    BY <1>2, SchedulerAssumption DEF Start, TypeOK, Roles, Queues, Holders, Idle, Working,
       WorkerOnly, RootOnly, AfterSync
  <2>3. Thefts'
    BY <1>2 DEF Start, TypeOK, Queues, Thefts
  <2>4. Counts'
    BY <1>2, CountsSame, SchedulerAssumption DEF Start, TypeOK, Roles, Idle, Working,
       WorkerOnly, RootOnly, AfterSync, PreLabels
  <2>5. Quiet'
    BY <1>2, SchedulerAssumption DEF Start, TypeOK, Roles, Queues, Holders, Thefts, Quiet, Idle,
       Working, WorkerOnly, RootOnly, AfterSync
  <2>6. Barriers'  BY <1>2 DEF Start, TypeOK, Barriers
  <2> QED  BY <2>1, <2>2, <2>3, <2>4, <2>5, <2>6
<1>3. ASSUME NEW w \in Thread, Push(w) PROVE IInv'
  <2>1. TypeOK'  BY <1>3 DEF Push, Resume, TypeOK
  <2>2. Roles' /\ Queues' /\ Holders'
    BY <1>3, SchedulerAssumption DEF Push, Resume, TypeOK, Roles, Queues, Holders, Idle,
       Working, WorkerOnly, RootOnly, AfterSync
  <2>3. Thefts'
    BY <1>3 DEF Push, Resume, TypeOK, Queues, Thefts
  <2>4. Counts'
    BY <1>3, CountsSame, SchedulerAssumption DEF Push, Resume, TypeOK, Roles, Idle, Working,
       WorkerOnly, RootOnly, AfterSync, PreLabels
  <2>5. Quiet'
    BY <1>3, SchedulerAssumption DEF Push, Resume, TypeOK, Roles, Queues, Holders, Thefts,
       Quiet, Idle, Working, WorkerOnly, RootOnly, AfterSync
  <2>6. Barriers'  BY <1>3 DEF Push, Resume, TypeOK, Barriers
  <2> QED  BY <2>1, <2>2, <2>3, <2>4, <2>5, <2>6
<1>4. ASSUME NEW w \in Thread, Wake(w) PROVE IInv'
  <2>1. TypeOK'  BY <1>4, EpochRange DEF Wake, wakeBump, TypeOK
  <2>2. Roles' /\ Queues' /\ Holders'
    BY <1>4, SchedulerAssumption DEF Wake, wakeBump, TypeOK, Roles, Queues, Holders, Idle,
       Working, WorkerOnly, RootOnly, AfterSync
  <2>3. Thefts'
    BY <1>4 DEF Wake, wakeBump, TypeOK, Queues, Thefts
  <2>4. Counts'
    BY <1>4, CountsSame, SchedulerAssumption DEF Wake, wakeBump, TypeOK, Roles, Idle, Working,
       WorkerOnly, RootOnly, AfterSync, PreLabels
  <2>5. Quiet'
    BY <1>4, SchedulerAssumption DEF Wake, wakeBump, TypeOK, Roles, Queues, Holders, Thefts,
       Quiet, Idle, Working, WorkerOnly, RootOnly, AfterSync
  <2>6. Barriers'  BY <1>4 DEF Wake, wakeBump, TypeOK, Barriers
  <2> QED  BY <2>1, <2>2, <2>3, <2>4, <2>5, <2>6
<1>5. ASSUME NEW w \in Thread, WakeLook(w) PROVE IInv'
  <2>1. TypeOK'  BY <1>5 DEF WakeLook, Resume, TypeOK
  <2>2. Roles' /\ Queues' /\ Holders'
    BY <1>5, SchedulerAssumption DEF WakeLook, Resume, TypeOK, Roles, Queues, Holders, Idle,
       Working, WorkerOnly, RootOnly, AfterSync
  <2>3. Thefts'
    BY <1>5 DEF WakeLook, Resume, TypeOK, Queues, Thefts
  <2>4. Counts'
    BY <1>5, CountsSame, SchedulerAssumption DEF WakeLook, Resume, TypeOK, Roles, Idle, Working,
       WorkerOnly, RootOnly, AfterSync, PreLabels
  <2>5. Quiet'
    BY <1>5, SchedulerAssumption DEF WakeLook, Resume, TypeOK, Roles, Queues, Holders, Thefts,
       Quiet, Idle, Working, WorkerOnly, RootOnly, AfterSync
  <2>6. Barriers'  BY <1>5 DEF WakeLook, Resume, TypeOK, Barriers
  <2> QED  BY <2>1, <2>2, <2>3, <2>4, <2>5, <2>6
<1>6. ASSUME NEW w \in Thread, WakeSyscall(w) PROVE IInv'
  <2>1. TypeOK'  BY <1>6 DEF WakeSyscall, wakeSyscall, Resume, TypeOK
  <2>2. Roles' /\ Queues' /\ Holders'
    BY <1>6, SchedulerAssumption DEF WakeSyscall, wakeSyscall, Resume, TypeOK, Roles, Queues,
       Holders, Idle, Working, WorkerOnly, RootOnly, AfterSync
  <2>3. Thefts'
    BY <1>6 DEF WakeSyscall, wakeSyscall, Resume, TypeOK, Queues, Thefts
  <2>4. Counts'
    BY <1>6, CountsSame, SchedulerAssumption DEF WakeSyscall, wakeSyscall, Resume, TypeOK,
       Roles, Idle, Working, WorkerOnly, RootOnly, AfterSync, PreLabels
  <2>5. Quiet'
    BY <1>6, SchedulerAssumption DEF WakeSyscall, wakeSyscall, Resume, TypeOK, Roles, Queues,
       Holders, Thefts, Quiet, Idle, Working, WorkerOnly, RootOnly, AfterSync
  <2>6. Barriers'  BY <1>6 DEF WakeSyscall, wakeSyscall, Resume, TypeOK, Barriers
  <2> QED  BY <2>1, <2>2, <2>3, <2>4, <2>5, <2>6
<1>7. ASSUME NEW w \in Thread, Pop(w) PROVE IInv'
  <2>1. TypeOK'  BY <1>7 DEF Pop, Pending, TypeOK
  <2>2. Roles' /\ Queues' /\ Holders'
    BY <1>7, SchedulerAssumption DEF Pop, Pending, TypeOK, Roles, Queues, Holders, Idle,
       Working, WorkerOnly, RootOnly, AfterSync
  <2>3. Thefts'
    BY <1>7 DEF Pop, Pending, TypeOK, Queues, Thefts
  <2>4. Counts'
    BY <1>7, CountsSame, SchedulerAssumption DEF Pop, Pending, TypeOK, Roles, Idle, Working,
       WorkerOnly, RootOnly, AfterSync, PreLabels
  <2>5. Quiet'
    BY <1>7, SchedulerAssumption DEF Pop, Pending, TypeOK, Roles, Queues, Holders, Thefts,
       Quiet, Idle, Working, WorkerOnly, RootOnly, AfterSync
  <2>6. Barriers'  BY <1>7 DEF Pop, Pending, TypeOK, Barriers
  <2> QED  BY <2>1, <2>2, <2>3, <2>4, <2>5, <2>6
<1>8. ASSUME NEW w \in Thread, PopNil(w) PROVE IInv'
  <2>1. TypeOK'
    <3>1. Thread \ {w} \in SUBSET Thread  OBVIOUS
    <3> QED  BY <1>8, <3>1 DEF PopNil, Pending, TypeOK
  <2>2. Roles' /\ Queues' /\ Holders'
    BY <1>8, SchedulerAssumption DEF PopNil, Pending, TypeOK, Roles, Queues, Holders, Idle,
       Working, WorkerOnly, RootOnly, AfterSync
  <2>3. Thefts'
    BY <1>8 DEF PopNil, Pending, TypeOK, Queues, Thefts
  <2>4. Counts'
    BY <1>8, CountsSame, SchedulerAssumption DEF PopNil, Pending, TypeOK, Roles, Idle, Working,
       WorkerOnly, RootOnly, AfterSync, PreLabels
  <2>5. Quiet'
    BY <1>8, SchedulerAssumption DEF PopNil, Pending, TypeOK, Roles, Queues, Holders, Thefts,
       Quiet, Idle, Working, WorkerOnly, RootOnly, AfterSync
  <2>6. Barriers'  BY <1>8 DEF PopNil, Pending, TypeOK, Barriers
  <2> QED  BY <2>1, <2>2, <2>3, <2>4, <2>5, <2>6
<1>9. ASSUME NEW w \in Thread, Finish(w) PROVE IInv'
  <2>1. TypeOK'  BY <1>9 DEF Finish, TypeOK
  <2>2. Roles' /\ Queues' /\ Holders'
    BY <1>9, SchedulerAssumption DEF Finish, TypeOK, Roles, Queues, Holders, Idle, Working,
       WorkerOnly, RootOnly, AfterSync
  <2>3. Thefts'
    BY <1>9 DEF Finish, TypeOK, Queues, Thefts
  <2>4. Counts'
    BY <1>9, CountsSame, SchedulerAssumption DEF Finish, TypeOK, Roles, Idle, Working,
       WorkerOnly, RootOnly, AfterSync, PreLabels
  <2>5. Quiet'
    BY <1>9, SchedulerAssumption DEF Finish, TypeOK, Roles, Queues, Holders, Thefts, Quiet,
       Idle, Working, WorkerOnly, RootOnly, AfterSync
  <2>6. Barriers'  BY <1>9 DEF Finish, TypeOK, Barriers
  <2> QED  BY <2>1, <2>2, <2>3, <2>4, <2>5, <2>6
<1>10. ASSUME NEW w \in Thread, Sleepy(w) PROVE IInv'
  <2>1. TypeOK'  BY <1>10, WordRange DEF Sleepy, sleepyAnnounce, TypeOK
  <2>2. Roles' /\ Queues' /\ Holders'
    BY <1>10, SchedulerAssumption DEF Sleepy, sleepyAnnounce, TypeOK, Roles, Queues, Holders,
       Idle, Working, WorkerOnly, RootOnly, AfterSync
  <2>3. Thefts'
    BY <1>10 DEF Sleepy, sleepyAnnounce, TypeOK, Queues, Thefts
  <2>4. Counts'
    BY <1>10, CountsAnnounce, SchedulerAssumption DEF Sleepy, sleepyAnnounce, TypeOK, Roles,
       Idle, Working, WorkerOnly, RootOnly, AfterSync, PreLabels
  <2>5. Quiet'
    BY <1>10, SchedulerAssumption DEF Sleepy, sleepyAnnounce, TypeOK, Roles, Queues, Holders,
       Thefts, Quiet, Idle, Working, WorkerOnly, RootOnly, AfterSync
  <2>6. Barriers'  BY <1>10 DEF Sleepy, sleepyAnnounce, TypeOK, Barriers
  <2> QED  BY <2>1, <2>2, <2>3, <2>4, <2>5, <2>6
<1>11. ASSUME NEW w \in Thread, TakeTicket(w) PROVE IInv'
  <2>1. TypeOK'
    <3>1. Thread \ {w} \in SUBSET Thread  OBVIOUS
    <3> QED  BY <1>11, <3>1 DEF TakeTicket, sleepyTicket, TypeOK
  <2>2. Roles' /\ Queues' /\ Holders'
    BY <1>11, SchedulerAssumption DEF TakeTicket, sleepyTicket, TypeOK, Roles, Queues, Holders,
       Idle, Working, WorkerOnly, RootOnly, AfterSync
  <2>3. Thefts'
    BY <1>11 DEF TakeTicket, sleepyTicket, TypeOK, Queues, Thefts
  <2>4. Counts'
    BY <1>11, CountsSame, SchedulerAssumption DEF TakeTicket, sleepyTicket, TypeOK, Roles, Idle,
       Working, WorkerOnly, RootOnly, AfterSync, PreLabels
  <2>5. Quiet'
    BY <1>11, SchedulerAssumption DEF TakeTicket, sleepyTicket, TypeOK, Roles, Queues, Holders,
       Thefts, Quiet, Idle, Working, WorkerOnly, RootOnly, AfterSync
  <2>6. Barriers'  BY <1>11 DEF TakeTicket, sleepyTicket, TypeOK, Barriers
  <2> QED  BY <2>1, <2>2, <2>3, <2>4, <2>5, <2>6
<1>12. ASSUME NEW w \in Thread, StealLook(w) PROVE IInv'
  <2>1. TypeOK'
    <3>1. PICK v \in victims[w] :
             /\ victims' = [victims EXCEPT ![w] = @ \ {v}]
             /\ \/ /\ victim' = [victim EXCEPT ![w] = v]
                   /\ seen' = [seen EXCEPT ![w] = front[v]]
                   /\ pc' = [pc EXCEPT ![w] = "steal_cas"]
                \/ UNCHANGED <<victim, seen, pc>>
      BY <1>12 DEF StealLook, Pending
    <3>2. v \in Thread /\ victims[w] \ {v} \in SUBSET Thread  BY DEF TypeOK
    <3> QED  BY <1>12, <3>1, <3>2 DEF StealLook, Pending, TypeOK
  <2>2. Roles' /\ Queues' /\ Holders'
    BY <1>12, SchedulerAssumption DEF StealLook, Pending, TypeOK, Roles, Queues, Holders, Idle,
       Working, WorkerOnly, RootOnly, AfterSync
  <2>3. Thefts'
    BY <1>12 DEF StealLook, Pending, TypeOK, Queues, Thefts
  <2>4. Counts'
    BY <1>12, CountsSame DEF StealLook, Pending, TypeOK, PreLabels, Counts, preSleepers,
       sleepers
  <2>5. Quiet'
    BY <1>12, SchedulerAssumption DEF StealLook, Pending, TypeOK, Roles, Queues, Holders,
       Thefts, Quiet, Idle, Working, WorkerOnly, RootOnly, AfterSync
  <2>6. Barriers'  BY <1>12 DEF StealLook, Pending, TypeOK, Barriers
  <2> QED  BY <2>1, <2>2, <2>3, <2>4, <2>5, <2>6
<1>13. ASSUME NEW w \in Thread, StealCas(w) PROVE IInv'
  <2>a. ASSUME front[victim[w]] = seen[w] PROVE TypeOK' /\ Roles' /\ Queues' /\ Holders'
    <3>1. /\ front' = [front EXCEPT ![victim[w]] = @ + 1]
          /\ busy' = busy \cup {w}
          /\ StealReturns(w)
          /\ pc' = [pc EXCEPT ![w] = IF w = Root THEN "wake" ELSE "cancel"]
          /\ UNCHANGED <<ecVars, back, up, wasEmpty, poolVars, spawned>>
      BY <1>13, <2>a DEF StealCas
    <3>2. TypeOK'  BY <3>1 DEF StealReturns, TypeOK
    <3>3. Roles' /\ Queues'
      BY <1>13, <2>a, <3>1 DEF StealCas, TypeOK, Roles, Queues, Thefts, WorkerOnly, RootOnly,
         Idle
    <3>4. Holders'
      BY <1>13, <3>1 DEF StealCas, TypeOK, Holders, Idle, Working
    <3> QED  BY <3>2, <3>3, <3>4
  <2>b. ASSUME front[victim[w]] # seen[w] PROVE TypeOK' /\ Roles' /\ Queues' /\ Holders'
    <3>1. /\ victim' = [victim EXCEPT ![w] = w]
          /\ seen' = [seen EXCEPT ![w] = 0]
          /\ pc' = [pc EXCEPT ![w] = "steal"]
          /\ UNCHANGED <<front, busy, victims, ecVars, back, up, wasEmpty, poolVars, spawned>>
      BY <1>13, <2>b DEF StealCas
    <3>2. TypeOK'  BY <3>1 DEF TypeOK
    <3> QED  BY <1>13, <3>1, <3>2 DEF StealCas, TypeOK, Roles, Queues, Holders, WorkerOnly,
       RootOnly,
                Idle, Working
  <2>1. TypeOK'  BY <2>a, <2>b
  <2>2. Roles' /\ Queues' /\ Holders'  BY <2>a, <2>b
  <2>3. Thefts'
    BY <1>13 DEF StealCas, StealReturns, TypeOK, Queues, Thefts
  <2>4. Counts'
    BY <1>13, CountsSame, SchedulerAssumption DEF StealCas, StealReturns, TypeOK, Roles, Idle,
       Working, WorkerOnly, RootOnly, AfterSync, PreLabels
  <2>5. Quiet'
    BY <1>13, SchedulerAssumption DEF StealCas, StealReturns, TypeOK, Roles, Queues, Holders,
       Thefts, Quiet, Idle, Working, WorkerOnly, RootOnly, AfterSync
  <2>6. Barriers'  BY <1>13 DEF StealCas, StealReturns, TypeOK, Barriers
  <2> QED  BY <2>1, <2>2, <2>3, <2>4, <2>5, <2>6
<1>14. ASSUME NEW w \in Thread, StealNil(w) PROVE IInv'
  <2>1. TypeOK'  BY <1>14 DEF StealNil, TypeOK
  <2>2. Roles' /\ Queues' /\ Holders'
    BY <1>14, SchedulerAssumption DEF StealNil, TypeOK, Roles, Queues, Holders, Idle, Working,
       WorkerOnly, RootOnly, AfterSync
  <2>3. Thefts'
    BY <1>14 DEF StealNil, TypeOK, Queues, Thefts
  <2>4. Counts'
    BY <1>14, CountsSame, SchedulerAssumption DEF StealNil, TypeOK, Roles, Idle, Working,
       WorkerOnly, RootOnly, AfterSync, PreLabels
  <2>5. Quiet'
    BY <1>14, SchedulerAssumption DEF StealNil, TypeOK, Roles, Queues, Holders, Thefts, Quiet,
       Idle, Working, WorkerOnly, RootOnly, AfterSync
  <2>6. Barriers'  BY <1>14 DEF StealNil, TypeOK, Barriers
  <2> QED  BY <2>1, <2>2, <2>3, <2>4, <2>5, <2>6
<1>15. ASSUME NEW w \in Thread, CancelSleep(w) PROVE IInv'
  <2>1. TypeOK'  BY <1>15, WordRange, EpochRange DEF CancelSleep, cancelSleep, TypeOK
  <2>2. Roles' /\ Queues' /\ Holders'
    BY <1>15, SchedulerAssumption DEF CancelSleep, cancelSleep, TypeOK, Roles, Queues, Holders,
       Idle, Working, WorkerOnly, RootOnly, AfterSync
  <2>3. Thefts'
    BY <1>15 DEF CancelSleep, cancelSleep, TypeOK, Queues, Thefts
  <2>4. Counts'
    BY <1>15, CountsCancel, SchedulerAssumption DEF CancelSleep, cancelSleep, TypeOK, Roles,
       Idle, Working, WorkerOnly, RootOnly, AfterSync, PreLabels
  <2>5. Quiet'
    BY <1>15, SchedulerAssumption DEF CancelSleep, cancelSleep, TypeOK, Roles, Queues, Holders,
       Thefts, Quiet, Idle, Working, WorkerOnly, RootOnly, AfterSync
  <2>6. Barriers'  BY <1>15 DEF CancelSleep, cancelSleep, TypeOK, Barriers
  <2> QED  BY <2>1, <2>2, <2>3, <2>4, <2>5, <2>6
<1>16. ASSUME NEW w \in Thread, CheckTerminate(w) PROVE IInv'
  <2>1. TypeOK'  BY <1>16 DEF CheckTerminate, TypeOK
  <2>2. Roles' /\ Queues' /\ Holders'
    BY <1>16, SchedulerAssumption DEF CheckTerminate, TypeOK, Roles, Queues, Holders, Idle,
       Working, WorkerOnly, RootOnly, AfterSync
  <2>3. Thefts'
    BY <1>16 DEF CheckTerminate, TypeOK, Queues, Thefts
  <2>4. Counts'
    BY <1>16, CountsSame, SchedulerAssumption DEF CheckTerminate, TypeOK, Roles, Idle, Working,
       WorkerOnly, RootOnly, AfterSync, PreLabels
  <2>5. Quiet'
    BY <1>16, SchedulerAssumption DEF CheckTerminate, TypeOK, Roles, Queues, Holders, Thefts,
       Quiet, Idle, Working, WorkerOnly, RootOnly, AfterSync
  <2>6. Barriers'  BY <1>16 DEF CheckTerminate, TypeOK, Barriers
  <2> QED  BY <2>1, <2>2, <2>3, <2>4, <2>5, <2>6
<1>17. ASSUME NEW w \in Thread, ExitLoop(w) PROVE IInv'
  <2>1. TypeOK'  BY <1>17, WordRange, EpochRange DEF ExitLoop, cancelSleep, TypeOK
  <2>2. Roles' /\ Queues' /\ Holders'
    BY <1>17, SchedulerAssumption DEF ExitLoop, cancelSleep, TypeOK, Roles, Queues, Holders,
       Idle, Working, WorkerOnly, RootOnly, AfterSync
  <2>3. Thefts'
    BY <1>17 DEF ExitLoop, cancelSleep, TypeOK, Queues, Thefts
  <2>4. Counts'
    BY <1>17, CountsCancel, SchedulerAssumption DEF ExitLoop, cancelSleep, TypeOK, Roles, Idle,
       Working, WorkerOnly, RootOnly, AfterSync, PreLabels
  <2>5. Quiet'
    BY <1>17, SchedulerAssumption DEF ExitLoop, cancelSleep, TypeOK, Roles, Queues, Holders,
       Thefts, Quiet, Idle, Working, WorkerOnly, RootOnly, AfterSync
  <2>6. Barriers'  BY <1>17 DEF ExitLoop, cancelSleep, TypeOK, Barriers
  <2> QED  BY <2>1, <2>2, <2>3, <2>4, <2>5, <2>6
<1>18. ASSUME NEW w \in Thread, Commit(w) PROVE IInv'
  <2>1. TypeOK'  BY <1>18, WordRange DEF Commit, sleepCommit, TypeOK
  <2>2. Roles' /\ Queues' /\ Holders'
    BY <1>18, SchedulerAssumption DEF Commit, sleepCommit, TypeOK, Roles, Queues, Holders, Idle,
       Working, WorkerOnly, RootOnly, AfterSync
  <2>3. Thefts'
    BY <1>18 DEF Commit, sleepCommit, TypeOK, Queues, Thefts
  <2>4. Counts'
    BY <1>18, CountsCommit, SchedulerAssumption DEF Commit, sleepCommit, TypeOK, Roles, Idle,
       Working, WorkerOnly, RootOnly, AfterSync, PreLabels
  <2>5. Quiet'
    BY <1>18, SchedulerAssumption DEF Commit, sleepCommit, TypeOK, Roles, Queues, Holders,
       Thefts, Quiet, Idle, Working, WorkerOnly, RootOnly, AfterSync
  <2>6. Barriers'  BY <1>18 DEF Commit, sleepCommit, TypeOK, Barriers
  <2> QED  BY <2>1, <2>2, <2>3, <2>4, <2>5, <2>6
<1>19. ASSUME NEW w \in Thread, Sleep(w) PROVE IInv'
  <2>1. TypeOK'  BY <1>19 DEF Sleep, sleepWait, TypeOK
  <2>2. Roles' /\ Queues' /\ Holders'
    BY <1>19, SchedulerAssumption DEF Sleep, sleepWait, TypeOK, Roles, Queues, Holders, Idle,
       Working, WorkerOnly, RootOnly, AfterSync
  <2>3. Thefts'
    BY <1>19 DEF Sleep, sleepWait, TypeOK, Queues, Thefts
  <2>4. Counts'
    BY <1>19 DEF Sleep, sleepWait, Counts, preSleepers, sleepers
  <2>5. Quiet'
    BY <1>19, SchedulerAssumption DEF Sleep, sleepWait, TypeOK, Roles, Queues, Holders, Thefts,
       Quiet, Idle, Working, WorkerOnly, RootOnly, AfterSync
  <2>6. Barriers'  BY <1>19 DEF Sleep, sleepWait, TypeOK, Barriers
  <2> QED  BY <2>1, <2>2, <2>3, <2>4, <2>5, <2>6
<1>20. ASSUME NEW w \in Thread, WakeUp(w) PROVE IInv'
  <2>1. TypeOK'  BY <1>20, WordRange, EpochRange DEF WakeUp, sleepLeave, TypeOK
  <2>2. Roles' /\ Queues' /\ Holders'
    BY <1>20, SchedulerAssumption DEF WakeUp, sleepLeave, TypeOK, Roles, Queues, Holders, Idle,
       Working, WorkerOnly, RootOnly, AfterSync
  <2>3. Thefts'
    BY <1>20 DEF WakeUp, sleepLeave, TypeOK, Queues, Thefts
  <2>4. Counts'
    BY <1>20, CountsLeave, SchedulerAssumption DEF WakeUp, sleepLeave, TypeOK, Roles, Idle,
       Working, WorkerOnly, RootOnly, AfterSync, PreLabels
  <2>5. Quiet'
    BY <1>20, SchedulerAssumption DEF WakeUp, sleepLeave, TypeOK, Roles, Queues, Holders,
       Thefts, Quiet, Idle, Working, WorkerOnly, RootOnly, AfterSync
  <2>6. Barriers'  BY <1>20 DEF WakeUp, sleepLeave, TypeOK, Barriers
  <2> QED  BY <2>1, <2>2, <2>3, <2>4, <2>5, <2>6
<1>21. ASSUME NEW w \in Thread, Teardown(w) PROVE IInv'
  <2>1. TypeOK'  BY <1>21 DEF Teardown, TypeOK
  <2>2. Roles' /\ Queues' /\ Holders'
    BY <1>21, SchedulerAssumption DEF Teardown, TypeOK, Roles, Queues, Holders, Idle, Working,
       WorkerOnly, RootOnly, AfterSync
  <2>3. Thefts'
    BY <1>21 DEF Teardown, TypeOK, Queues, Thefts
  <2>4. Counts'
    BY <1>21, CountsSame, SchedulerAssumption DEF Teardown, TypeOK, Roles, Idle, Working,
       WorkerOnly, RootOnly, AfterSync, PreLabels
  <2>5. Quiet'
    BY <1>21, SchedulerAssumption DEF Teardown, TypeOK, Roles, Queues, Holders, Thefts, Quiet,
       Idle, Working, WorkerOnly, RootOnly, AfterSync
  <2>6. Barriers'  BY <1>21 DEF Teardown, TypeOK, Barriers
  <2> QED  BY <2>1, <2>2, <2>3, <2>4, <2>5, <2>6
<1>22. ASSUME NEW w \in Thread, Spawn(w) PROVE IInv'
  <2>1. TypeOK'  BY <1>22, SchedulerAssumption DEF Spawn, Pending, TypeOK
  <2>2. Roles' /\ Queues' /\ Holders'
    BY <1>22, SchedulerAssumption DEF Spawn, Pending, TypeOK, Roles, Queues, Holders, Idle,
       Working, WorkerOnly, RootOnly, AfterSync
  <2>3. Thefts'
    BY <1>22 DEF Spawn, Pending, TypeOK, Queues, Thefts
  <2>4. Counts'
    BY <1>22, CountsSame, SchedulerAssumption DEF Spawn, Pending, TypeOK, Roles, Idle, Working,
       WorkerOnly, RootOnly, AfterSync, PreLabels
  <2>5. Quiet'
    BY <1>22, SchedulerAssumption DEF Spawn, Pending, TypeOK, Roles, Queues, Holders, Thefts,
       Quiet, Idle, Working, WorkerOnly, RootOnly, AfterSync
  <2>6. Barriers'  BY <1>22 DEF Spawn, Pending, TypeOK, Barriers
  <2> QED  BY <2>1, <2>2, <2>3, <2>4, <2>5, <2>6
<1>23. ASSUME NEW w \in Thread, SleepInterrupted(w) PROVE IInv'
  <2>1. TypeOK'  BY <1>23 DEF SleepInterrupted, futexInterrupted, TypeOK
  <2>2. Roles' /\ Queues' /\ Holders'
    BY <1>23, SchedulerAssumption DEF SleepInterrupted, futexInterrupted, TypeOK, Roles, Queues,
       Holders, Idle, Working, WorkerOnly, RootOnly, AfterSync
  <2>3. Thefts'
    BY <1>23 DEF SleepInterrupted, futexInterrupted, TypeOK, Queues, Thefts
  <2>4. Counts'
    BY <1>23 DEF SleepInterrupted, futexInterrupted, Counts, preSleepers, sleepers
  <2>5. Quiet'
    BY <1>23, SchedulerAssumption DEF SleepInterrupted, futexInterrupted, TypeOK, Roles, Queues,
       Holders, Thefts, Quiet, Idle, Working, WorkerOnly, RootOnly, AfterSync
  <2>6. Barriers'  BY <1>23 DEF SleepInterrupted, futexInterrupted, TypeOK, Barriers
  <2> QED  BY <2>1, <2>2, <2>3, <2>4, <2>5, <2>6
<1>24. ASSUME SyncAll PROVE IInv'
  <2>1. TypeOK'  BY <1>24, SchedulerAssumption DEF SyncAll, TypeOK
  <2>2. Roles' /\ Queues' /\ Holders'
    BY <1>24, SchedulerAssumption DEF SyncAll, TypeOK, Roles, Queues, Holders, Idle, Working,
       WorkerOnly, RootOnly, AfterSync
  <2>3. Thefts'
    BY <1>24 DEF SyncAll, TypeOK, Queues, Thefts
  <2>4. Counts'
    BY <1>24, CountsSame, SchedulerAssumption DEF SyncAll, TypeOK, Roles, Idle, Working,
       WorkerOnly, RootOnly, AfterSync, PreLabels
  <2>5. Quiet'
    BY <1>24, SchedulerAssumption DEF SyncAll, TypeOK, Roles, Queues, Holders, Thefts, Quiet,
       Idle, Working, WorkerOnly, RootOnly, AfterSync
  <2>6. Barriers'  BY <1>24, SchedulerAssumption DEF SyncAll, TypeOK, Barriers
  <2> QED  BY <2>1, <2>2, <2>3, <2>4, <2>5, <2>6
<1>25. ASSUME CountWaiters PROVE IInv'
  <2>1. TypeOK'  BY <1>25, SchedulerAssumption DEF CountWaiters, TypeOK
  <2>2. Roles' /\ Queues' /\ Holders'
    BY <1>25, SchedulerAssumption DEF CountWaiters, TypeOK, Roles, Queues, Holders, Idle,
       Working, WorkerOnly, RootOnly, AfterSync
  <2>3. Thefts'
    BY <1>25 DEF CountWaiters, TypeOK, Queues, Thefts
  <2>4. Counts'
    BY <1>25, CountsSame, SchedulerAssumption DEF CountWaiters, TypeOK, Roles, Idle, Working,
       WorkerOnly, RootOnly, AfterSync, PreLabels
  <2>5. Quiet'
    <3> SUFFICES ASSUME pc'[Root] \in AfterSync PROVE busy = {} /\ \A q \in Thread : back[q] =
       front[q]
      BY <1>25 DEF CountWaiters, Quiet
    <3>1. committedSleep(waitset) = Cardinality(Thread) - 1
      BY <1>25, SchedulerAssumption DEF CountWaiters, getNumWaiters, TypeOK, AfterSync
    <3>2. sleepers = Thread \ {Root}  BY <3>1, AllAsleep
    <3> QED  BY <1>25, <3>2 DEF CountWaiters, sleepers, TypeOK, Queues, Holders, Idle
  <2>6. Barriers'  BY <1>25, SchedulerAssumption DEF CountWaiters, TypeOK, Barriers
  <2> QED  BY <2>1, <2>2, <2>3, <2>4, <2>5, <2>6
<1>26. ASSUME Synced PROVE IInv'
  <2>1. TypeOK'  BY <1>26, SchedulerAssumption DEF Synced, TypeOK
  <2>2. Roles' /\ Queues' /\ Holders'
    BY <1>26, SchedulerAssumption DEF Synced, TypeOK, Roles, Queues, Holders, Idle, Working,
       WorkerOnly, RootOnly, AfterSync
  <2>3. Thefts'
    BY <1>26 DEF Synced, TypeOK, Queues, Thefts
  <2>4. Counts'
    BY <1>26, CountsSame, SchedulerAssumption DEF Synced, TypeOK, Roles, Idle, Working,
       WorkerOnly, RootOnly, AfterSync, PreLabels
  <2>5. Quiet'
    BY <1>26, SchedulerAssumption DEF Synced, TypeOK, Roles, Queues, Holders, Thefts, Quiet,
       Idle, Working, WorkerOnly, RootOnly, AfterSync
  <2>6. Barriers'  BY <1>26, SchedulerAssumption DEF Synced, TypeOK, Barriers
  <2> QED  BY <2>1, <2>2, <2>3, <2>4, <2>5, <2>6
<1>27. ASSUME NEW w \in Thread, SignalTerminate(w) PROVE IInv'
  <2>1. TypeOK'  BY <1>27, SchedulerAssumption DEF SignalTerminate, TypeOK
  <2>2. Roles' /\ Queues' /\ Holders'
    BY <1>27, SchedulerAssumption DEF SignalTerminate, TypeOK, Roles, Queues, Holders, Idle,
       Working, WorkerOnly, RootOnly, AfterSync
  <2>3. Thefts'
    BY <1>27 DEF SignalTerminate, TypeOK, Queues, Thefts
  <2>4. Counts'
    BY <1>27 DEF SignalTerminate, Counts, preSleepers, sleepers
  <2>5. Quiet'
    BY <1>27, SchedulerAssumption DEF SignalTerminate, TypeOK, Roles, Queues, Holders, Thefts,
       Quiet, Idle, Working, WorkerOnly, RootOnly, AfterSync
  <2>6. Barriers'  BY <1>27, SchedulerAssumption DEF SignalTerminate, TypeOK, Barriers
  <2> QED  BY <2>1, <2>2, <2>3, <2>4, <2>5, <2>6
<1>28. ASSUME WakeAll PROVE IInv'
  <2>1. TypeOK'  BY <1>28, EpochRange, SchedulerAssumption DEF WakeAll, wakeBump, TypeOK
  <2>2. Roles' /\ Queues' /\ Holders'
    BY <1>28, SchedulerAssumption DEF WakeAll, wakeBump, TypeOK, Roles, Queues, Holders, Idle,
       Working, WorkerOnly, RootOnly, AfterSync
  <2>3. Thefts'
    BY <1>28 DEF WakeAll, wakeBump, TypeOK, Queues, Thefts
  <2>4. Counts'
    BY <1>28, CountsSame, SchedulerAssumption DEF WakeAll, wakeBump, TypeOK, Roles, Idle,
       Working, WorkerOnly, RootOnly, AfterSync, PreLabels
  <2>5. Quiet'
    BY <1>28, SchedulerAssumption DEF WakeAll, wakeBump, TypeOK, Roles, Queues, Holders, Thefts,
       Quiet, Idle, Working, WorkerOnly, RootOnly, AfterSync
  <2>6. Barriers'  BY <1>28, SchedulerAssumption DEF WakeAll, wakeBump, TypeOK, Barriers
  <2> QED  BY <2>1, <2>2, <2>3, <2>4, <2>5, <2>6
<1>29. ASSUME WakeAllLook PROVE IInv'
  <2>1. TypeOK'  BY <1>29, SchedulerAssumption DEF WakeAllLook, TypeOK
  <2>2. Roles' /\ Queues' /\ Holders'
    BY <1>29, SchedulerAssumption DEF WakeAllLook, TypeOK, Roles, Queues, Holders, Idle,
       Working, WorkerOnly, RootOnly, AfterSync
  <2>3. Thefts'
    BY <1>29 DEF WakeAllLook, TypeOK, Queues, Thefts
  <2>4. Counts'
    BY <1>29, CountsSame, SchedulerAssumption DEF WakeAllLook, TypeOK, Roles, Idle, Working,
       WorkerOnly, RootOnly, AfterSync, PreLabels
  <2>5. Quiet'
    BY <1>29, SchedulerAssumption DEF WakeAllLook, TypeOK, Roles, Queues, Holders, Thefts,
       Quiet, Idle, Working, WorkerOnly, RootOnly, AfterSync
  <2>6. Barriers'  BY <1>29, SchedulerAssumption DEF WakeAllLook, TypeOK, Barriers
  <2> QED  BY <2>1, <2>2, <2>3, <2>4, <2>5, <2>6
<1>30. ASSUME WakeAllSyscall PROVE IInv'
  <2>1. TypeOK'  BY <1>30, SchedulerAssumption DEF WakeAllSyscall, wakeAllSyscall, TypeOK
  <2>2. Roles' /\ Queues' /\ Holders'
    BY <1>30, SchedulerAssumption DEF WakeAllSyscall, wakeAllSyscall, TypeOK, Roles, Queues,
       Holders, Idle, Working, WorkerOnly, RootOnly, AfterSync
  <2>3. Thefts'
    BY <1>30 DEF WakeAllSyscall, wakeAllSyscall, TypeOK, Queues, Thefts
  <2>4. Counts'
    BY <1>30, CountsSame, SchedulerAssumption DEF WakeAllSyscall, wakeAllSyscall, TypeOK, Roles,
       Idle, Working, WorkerOnly, RootOnly, AfterSync, PreLabels
  <2>5. Quiet'
    BY <1>30, SchedulerAssumption DEF WakeAllSyscall, wakeAllSyscall, TypeOK, Roles, Queues,
       Holders, Thefts, Quiet, Idle, Working, WorkerOnly, RootOnly, AfterSync
  <2>6. Barriers'  BY <1>30, SchedulerAssumption DEF WakeAllSyscall, wakeAllSyscall, TypeOK,
     Barriers
  <2> QED  BY <2>1, <2>2, <2>3, <2>4, <2>5, <2>6
<1>31. ASSUME Shutdown PROVE IInv'
  <2>1. TypeOK'  BY <1>31, SchedulerAssumption DEF Shutdown, TypeOK
  <2>2. Roles' /\ Queues' /\ Holders'
    BY <1>31, SchedulerAssumption DEF Shutdown, TypeOK, Roles, Queues, Holders, Idle, Working,
       WorkerOnly, RootOnly, AfterSync
  <2>3. Thefts'
    BY <1>31 DEF Shutdown, TypeOK, Queues, Thefts
  <2>4. Counts'
    BY <1>31, CountsSame, SchedulerAssumption DEF Shutdown, TypeOK, Roles, Idle, Working,
       WorkerOnly, RootOnly, AfterSync, PreLabels
  <2>5. Quiet'
    BY <1>31, SchedulerAssumption DEF Shutdown, TypeOK, Roles, Queues, Holders, Thefts, Quiet,
       Idle, Working, WorkerOnly, RootOnly, AfterSync
  <2>6. Barriers'  BY <1>31, SchedulerAssumption DEF Shutdown, TypeOK, Barriers
  <2> QED  BY <2>1, <2>2, <2>3, <2>4, <2>5, <2>6
<1>32. ASSUME Cleanup PROVE IInv'
  <2>1. TypeOK'  BY <1>32, SchedulerAssumption DEF Cleanup, TypeOK
  <2>2. Roles' /\ Queues' /\ Holders'
    BY <1>32, SchedulerAssumption DEF Cleanup, TypeOK, Roles, Queues, Holders, Idle, Working,
       WorkerOnly, RootOnly, AfterSync
  <2>3. Thefts'
    BY <1>32 DEF Cleanup, TypeOK, Queues, Thefts
  <2>4. Counts'
    BY <1>32, CountsSame, SchedulerAssumption DEF Cleanup, TypeOK, Roles, Idle, Working,
       WorkerOnly, RootOnly, AfterSync, PreLabels
  <2>5. Quiet'
    BY <1>32, SchedulerAssumption DEF Cleanup, TypeOK, Roles, Queues, Holders, Thefts, Quiet,
       Idle, Working, WorkerOnly, RootOnly, AfterSync
  <2>6. Barriers'  BY <1>32, SchedulerAssumption DEF Cleanup, TypeOK, Barriers
  <2> QED  BY <2>1, <2>2, <2>3, <2>4, <2>5, <2>6
<1>33. ASSUME UNCHANGED vars PROVE IInv'
  BY <1>33 DEF vars, ecVars, queueVars, stealVars, poolVars, IInv, TypeOK, Roles, Queues,
     Holders, Thefts, Counts, Quiet, Barriers, preSleepers, sleepers
<1> QED  BY <1>1, <1>2, <1>3, <1>4, <1>5, <1>6, <1>7, <1>8, <1>9, <1>10, <1>11, <1>12, <1>13,
   <1>14, <1>15, <1>16, <1>17, <1>18, <1>19, <1>20, <1>21, <1>22, <1>23, <1>24, <1>25, <1>26,
   <1>27, <1>28, <1>29, <1>30, <1>31, <1>32, <1>33 DEF Next, Step, RootStep, Done

-----------------------------------------------------------------------------
(* Who the kernel holds, and who hears a wake. *)

\* A thread the kernel holds is one that has committed to sleep and not returned from it.
Parked == asleep \subseteq sleepers

\* Only Sleep adds a thread, and only WakeUp moves one on, when the kernel no longer has it.
LEMMA StepParked == TypeOK /\ Parked /\ [Next]_vars => Parked'
<1> SUFFICES ASSUME TypeOK, Parked, [Next]_vars PROVE Parked'  OBVIOUS
<1>1. ASSUME NEW w \in Thread, Step(w) PROVE Parked'
  <2>1. CASE SetupWorker(w) \/ Start(w) \/ Push(w) \/ WakeLook(w) \/ Pop(w) \/ PopNil(w) \/ Finish(w)
    BY <2>1 DEF SetupWorker, Start, Push, WakeLook, Pop, PopNil, Finish, Goto, Resume, ecVars,
       TypeOK, Parked, sleepers
  <2>2. CASE Wake(w) \/ Sleepy(w) \/ TakeTicket(w) \/ CancelSleep(w) \/ ExitLoop(w) \/ Commit(w)
    BY <2>2 DEF Wake, Sleepy, TakeTicket, CancelSleep, ExitLoop, Commit, wakeBump, sleepyAnnounce,
       sleepyTicket, cancelSleep, sleepCommit, Goto, TypeOK, Parked, sleepers
  <2>3. CASE StealLook(w) \/ StealCas(w) \/ StealNil(w) \/ CheckTerminate(w) \/ Teardown(w)
    BY <2>3 DEF StealLook, StealCas, StealNil, CheckTerminate, Teardown, Goto, ecVars, TypeOK,
       Parked, sleepers
  <2>4. CASE WakeSyscall(w)
    BY <2>4 DEF WakeSyscall, wakeSyscall, Goto, Resume, TypeOK, Parked, sleepers
  <2>5. CASE Sleep(w)  BY <2>5 DEF Sleep, sleepWait, Parked, sleepers
  <2>6. CASE WakeUp(w)  BY <2>6 DEF WakeUp, sleepLeave, Goto, TypeOK, Parked, sleepers
  <2> QED  BY <1>1, <2>1, <2>2, <2>3, <2>4, <2>5, <2>6 DEF Step
<1>2. ASSUME NEW w \in Thread, Spawn(w) \/ SleepInterrupted(w) \/ SignalTerminate(w) PROVE Parked'
  BY <1>2 DEF Spawn, SleepInterrupted, SignalTerminate, futexInterrupted, Goto, ecVars, TypeOK,
     Parked, sleepers
<1>3. ASSUME SyncAll \/ CountWaiters \/ Synced \/ WakeAllLook \/ Shutdown \/ Cleanup PROVE Parked'
  BY <1>3, SchedulerAssumption DEF SyncAll, CountWaiters, Synced, WakeAllLook, Shutdown, Cleanup,
     Goto, ecVars, TypeOK, Parked, sleepers
<1>4. ASSUME WakeAll \/ WakeAllSyscall PROVE Parked'
  BY <1>4, SchedulerAssumption DEF WakeAll, WakeAllSyscall, wakeBump, wakeAllSyscall, Goto, TypeOK,
     Parked, sleepers
<1>5. ASSUME UNCHANGED vars PROVE Parked'
  BY <1>5 DEF vars, ecVars, Parked, sleepers
<1> QED  BY <1>1, <1>2, <1>3, <1>4, <1>5 DEF Next, RootStep, Done

\* While the kernel holds a thread the word is not zero, so a wake without a syscall is one
\* that has counted a pre-sleeper; and the thread that wakes is not one itself.
LEMMA HeardByAnother == IInv /\ Parked => WakeIsHeard
<1> SUFFICES ASSUME IInv, Parked, NEW w \in Thread, pc[w] = "wake_look", asleep # {},
                    ~wakeNeedsSyscall(waitset)
             PROVE  preSleepers \ {w} # {}
  BY DEF WakeIsHeard
<1> DEFINE a == Cardinality(preSleepers)  b == Cardinality(sleepers)
<1>1. preSleepers \in SUBSET (Thread \ {Root}) /\ sleepers \in SUBSET (Thread \ {Root})
      /\ preSleepers \cap sleepers = {}
  BY SleepSets DEF IInv
<1>2. IsFiniteSet(sleepers) /\ a \in Nat /\ b \in Nat  BY <1>1, CountBounds
<1>3. preSleep(waitset) = a /\ committedSleep(waitset) = b  BY CountedExactly DEF a, b
<1>4. b # 0
  <2>1. sleepers # {}  BY DEF Parked
  <2> QED  BY <1>2, <2>1, FS_EmptySet DEF b
<1>5. waitset # 0
  <2>1. kPreWait \in Nat \ {0}  BY EventcountAssumption DEF kPreWait
  <2> HIDE DEF b
  <2> QED  BY <1>2, <1>3, <1>4, <2>1 DEF committedSleep
<1>6. a # 0  BY <1>3, <1>5 DEF wakeNeedsSyscall
<1>7. preSleepers # {}  BY <1>6, FS_EmptySet DEF a
<1>8. w \notin preSleepers  BY DEF preSleepers
<1> QED  BY <1>7, <1>8

-----------------------------------------------------------------------------
(* The theorems. *)

\* The invariant holds throughout.
LEMMA Invariance == Spec => []IInv
<1>1. Init => IInv  BY InitIInv
<1>2. IInv /\ [Next]_vars => IInv'  BY StepIInv
<1> QED  BY <1>1, <1>2, PTL DEF Spec

\* The words of the eventcount, the labels and the locals of every thread keep their types.
THEOREM TypeCorrect == Spec => []TypeOK
<1>1. IInv => TypeOK  BY DEF IInv
<1> QED  BY <1>1, Invariance, PTL

\* However the fetch-and-adds of any number of threads interleave, getNumWaiters reads the
\* exact number of pre-sleepers and of committed sleepers: no count is lost, and neither
\* field runs into the other as long as the threads fit.
THEOREM WaitersCountedExactly == Spec => []NumWaitersExact
<1>1. IInv => NumWaitersExact  BY CountedExactly DEF NumWaitersExact, getNumWaiters
<1> QED  BY <1>1, Invariance, PTL

\* syncAll returns only when no task is queued, stolen or running, with any number of
\* threads and tasks and any order of thefts.
THEOREM SyncAllIsABarrier == Spec => []SyncAllDone
<1>1. IInv => SyncAllDone  BY DEF IInv, TypeOK, Quiet, SyncAllDone, Pending, AfterSync
<1> QED  BY <1>1, Invariance, PTL

\* cancelSleep before wake: with any number of threads, a wake that spares the syscall while
\* somebody is parked has counted a pre-sleeper that is not the thread that wakes.
THEOREM WakesAreHeard == Spec => []WakeIsHeard
<1>1. Init => Parked  BY DEF Init, EcInit, Parked
<1>2. IInv => TypeOK  BY DEF IInv
<1>3. TypeOK /\ Parked /\ [Next]_vars => Parked'  BY StepParked
<1>4. IInv /\ Parked => WakeIsHeard  BY HeardByAnother
<1> QED  BY <1>1, <1>2, <1>3, <1>4, Invariance, PTL DEF Spec

\* The two barriers keep tryStealOne away from queues not yet allocated or already freed.
THEOREM QueuesOutliveThieves == Spec => []NoTheftFromDeadQueue
<1>1. IInv => NoTheftFromDeadQueue  BY DEF IInv, TypeOK, Barriers, NoTheftFromDeadQueue
<1> QED  BY <1>1, Invariance, PTL
=============================================================================
