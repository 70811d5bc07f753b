---------------------------- MODULE ParallelLoops ----------------------------
(***************************************************************************)
(* One parallel loop in a syncScope, after threadpool.nim: it is split     *)
(* while it runs, whenever its thread estimates that others are idle, and  *)
(* the upper parts become tasks that may be split again.  A loop with      *)
(* reduceInto returns a future: each part then awaits the parts it gave    *)
(* away, in the order of its reductionDAG, and merges their status.        *)
(*                                                                         *)
(* A scope may also spawn one task per chunk of a static partition, as the *)
(* parallel sum of points does (sum_reduce_vartime_parallelChunks).        *)
(*                                                                         *)
(* Which thread runs a queued task is the scheduler's business (module     *)
(* Scheduler); here any queued task may start.  How often a thread looks   *)
(* for idle ones (BalancerBackoff) and what it finds are free.             *)
(***************************************************************************)
EXTENDS Partitioners, FiniteSets

CONSTANTS MaxSteps,    \* iterations of the loops that are tried
          MaxWaiters   \* threads that the eventcount may report as idle

ASSUME LoopAssumption == MaxSteps \in Nat \ {0} /\ MaxWaiters \in Nat

VARIABLES loop,         \* start, stop, stride, is it a reduction, which iterations fail,
                        \* and the number of chunks to aim at (0: a loop that is split)
          task,         \* task[t]: a part of the loop
          descendants,  \* the scoped barrier
          owner,        \* the thread that opened the scope
          status,       \* what the owner's sync returned
          runs          \* how often the body has run, by index

vars == <<loop, task, descendants, owner, status, runs>>

Tasks == 1 .. MaxSteps
Success == -1
Window == 0 .. 4 * MaxSteps   \* more indices than a loop has
Indices(l) == {i \in l.start .. l.stop - 1 : (i - l.start) % l.stride = 0}

(* A range starts at a multiple of the stride: a precondition of the split.  *)
Loops ==
  {l \in [start : {0, 2}, stop : 1 .. 2 * MaxSteps, stride : {1, 2}, hasFuture : BOOLEAN,
          failing : SUBSET (0 .. 2 * MaxSteps), hint : 0 .. 4] :
     /\ l.start < l.stop
     /\ ceilDiv(l.stop - l.start, l.stride) <= MaxSteps
     /\ l.failing \subseteq Indices(l)
     /\ l.hasFuture \/ l.failing = {}
     /\ l.hint # 0 => l.start = 0 /\ l.stride = 1 /\ ~l.hasFuture
     /\ \A i, j \in l.failing : i = j \/ {i, j} = l.failing}

(* pc: none, queued, balance (loadBalanceLoop is next), push (a split is     *)
(* under way), body, unlisted (it has left the barrier), ended (its future   *)
(* is ready), freed.                                                         *)
NoSplit == [chunkID |-> 0, workers |-> 0, base |-> 0, cutoff |-> 0, at |-> 0, stop |-> 0]
NoTask == [pc |-> "none", isFirstIter |-> FALSE, loopStart |-> 0, loopStop |-> 0,
           loopStepsLeft |-> 0, idx |-> 0, dag |-> <<>>, status |-> Success, split |-> NoSplit]
Alive == {t \in Tasks : task[t].pc \in {"queued", "balance", "push", "body"}}

(* newLoop, and the copy in splitAndDispatchLoop: an empty reductionDAG.     *)
NewLoop(isFirst, start, stop, steps) ==
  [NoTask EXCEPT !.pc = "queued", !.isFirstIter = isFirst, !.loopStart = start,
                 !.loopStop = stop, !.loopStepsLeft = steps, !.idx = start]

TypeOK ==
  /\ loop \in Loops
  /\ \A t \in Tasks :
       /\ task[t].pc \in {"none", "queued", "balance", "push", "body", "unlisted", "ended",
                         "freed"}
       /\ task[t].dag \in Seq(Tasks)
       /\ task[t].status \in loop.failing \union {Success}
       /\ task[t].loopStepsLeft \in 0 .. MaxSteps
  /\ descendants \in 0 .. MaxSteps
  /\ owner \in {"body", "sync", "wait", "left"}
  /\ status \in loop.failing \union {Success}
  /\ runs \in [Window -> 0 .. MaxSteps]

Init ==
  /\ loop \in Loops
  /\ task = [t \in Tasks |-> NoTask]
  /\ descendants = 0
  /\ owner = "body"
  /\ status = Success
  /\ runs = [i \in Window |-> 0]

-----------------------------------------------------------------------------
(* parallelFor in the scope: the descendant is registered, then scheduled.   *)
Schedule ==
  /\ owner = "body"
  /\ loop.hint = 0
  /\ descendants' = descendants + 1
  /\ task' = [task EXCEPT ![1] =
       NewLoop(TRUE, loop.start, loop.stop, ceilDiv(loop.stop - loop.start, loop.stride))]
  /\ owner' = IF loop.hasFuture THEN "sync" ELSE "wait"
  /\ UNCHANGED <<loop, status, runs>>

(* The loop over the chunks: each is registered and spawned, while the ones  *)
(* before it may already run or have ended.  A chunk has 60% to 100% of the  *)
(* points that fit its memory, here 2.                                       *)
maxChunkSize == 2
minChunkSize == (maxChunkSize * 60) \div 100
ScheduleChunk ==
  LET chunks == items(balancedChunksPrioSize(loop.start, loop.stop, minChunkSize, maxChunkSize,
                                             loop.hint))
      next == Cardinality({t \in Tasks : task[t].pc # "none"}) + 1
  IN  /\ owner = "body"
      /\ loop.hint # 0
      /\ descendants' = descendants + 1
      /\ task' = [task EXCEPT ![next] =
           NewLoop(FALSE, chunks[next].start, chunks[next].start + chunks[next].size,
                   chunks[next].size)]
      /\ owner' = IF next = Len(chunks) THEN "wait" ELSE "body"
      /\ UNCHANGED <<loop, status, runs>>

(* The owner's sync: the result, and the task is freed.                      *)
Sync ==
  /\ owner = "sync"
  /\ task[1].pc = "ended"
  /\ status' = task[1].status
  /\ task' = [task EXCEPT ![1].pc = "freed"]
  /\ owner' = "wait"
  /\ UNCHANGED <<loop, descendants, runs>>

(* wait: the scope is left when the barrier has no descendant.               *)
LeaveScope ==
  /\ owner = "wait"
  /\ descendants = 0
  /\ owner' = "left"
  /\ UNCHANGED <<loop, task, descendants, status, runs>>

-----------------------------------------------------------------------------
(* A faulty variant: only the first part is ever taken up.                   *)
BeginFirst(t) ==
  /\ task[t].pc = "queued"
  /\ task[t].isFirstIter
  /\ task' = [task EXCEPT ![t].pc = "balance"]
  /\ UNCHANGED <<loop, descendants, owner, status, runs>>

(* run: the task's function is called.                                       *)
Begin(t) ==
  /\ task[t].pc = "queued"
  /\ task' = [task EXCEPT ![t].pc = "balance"]
  /\ UNCHANGED <<loop, descendants, owner, status, runs>>

(* loadBalanceLoop.  A part that was just stolen does one iteration first;   *)
(* the first part counts its own thread's peer as idle.                      *)
KeepAll(t) ==
  /\ task[t].pc = "balance"
  /\ task[t].idx < task[t].loopStop
  /\ task' = [task EXCEPT ![t].pc = "body"]
  /\ UNCHANGED <<loop, descendants, owner, status, runs>>

(* A faulty variant: the splitter keeps the step counter of the whole range. *)
SplitKeepsSteps(t, waiters) ==
  LET this == task[t]
      workers == waiters + (IF this.isFirstIter THEN 1 ELSE 0) + 1
      base == this.loopStepsLeft \div workers
      cutoff == this.loopStepsLeft % workers
      kept == base + (IF 0 < cutoff THEN 1 ELSE 0)
  IN  /\ this.pc = "balance"
      /\ this.idx < this.loopStop
      /\ loop.hint = 0
      /\ this.loopStepsLeft > 1
      /\ this.isFirstIter \/ this.idx # this.loopStart
      /\ workers > 1
      /\ task' = [task EXCEPT ![t] =
           [this EXCEPT !.pc = "push",
                        !.loopStop = Min({this.loopStop, this.idx + kept * loop.stride}),
                        !.split = [chunkID |-> 1, workers |-> workers, base |-> base,
                                   cutoff |-> cutoff, at |-> this.idx, stop |-> this.loopStop]]]
      /\ UNCHANGED <<loop, descendants, owner, status, runs>>

(* splitUpperRanges keeps the first chunk.                                   *)
Split(t, waiters) ==
  LET this == task[t]
      approxIdle == waiters + (IF this.isFirstIter THEN 1 ELSE 0)
      workers == approxIdle + 1
      base == this.loopStepsLeft \div workers
      cutoff == this.loopStepsLeft % workers
      kept == base + (IF 0 < cutoff THEN 1 ELSE 0)
  IN  /\ this.pc = "balance"
      /\ this.idx < this.loopStop
      /\ loop.hint = 0
      /\ this.loopStepsLeft > 1
      /\ this.isFirstIter \/ this.idx # this.loopStart
      /\ approxIdle > 0
      /\ task' = [task EXCEPT ![t] =
           [this EXCEPT !.pc = "push",
                        !.loopStepsLeft = kept,
                        !.loopStop = Min({this.loopStop, this.idx + kept * loop.stride}),
                        !.split = [chunkID |-> 1, workers |-> workers, base |-> base,
                                   cutoff |-> cutoff, at |-> this.idx, stop |-> this.loopStop]]]
      /\ UNCHANGED <<loop, descendants, owner, status, runs>>

(* Faulty variants: a part is not registered with the barrier; a part, which *)
(* is made from a copy of its parent, keeps the parent's list of futures.    *)
DispatchUnregistered(t, offset, steps) ==
  LET fresh == Min({u \in Tasks : task[u].pc = "none"})
      upper == NewLoop(FALSE, offset,
                       Min({task[t].split.stop, offset + steps * loop.stride}), steps)
  IN  /\ task' = [task EXCEPT ![fresh] = upper,
                              ![t].split.chunkID = @ + 1,
                              ![t].dag = IF loop.hasFuture THEN <<fresh>> \o @ ELSE @]
      /\ UNCHANGED <<loop, descendants, owner, status, runs>>
DispatchSharesList(t, offset, steps) ==
  LET fresh == Min({u \in Tasks : task[u].pc = "none"})
      upper == NewLoop(FALSE, offset,
                       Min({task[t].split.stop, offset + steps * loop.stride}), steps)
  IN  /\ task' = [task EXCEPT ![fresh] = [upper EXCEPT !.dag = task[t].dag],
                              ![t].split.chunkID = @ + 1,
                              ![t].dag = IF loop.hasFuture THEN <<fresh>> \o @ ELSE @]
      /\ descendants' = descendants + 1
      /\ UNCHANGED <<loop, owner, status, runs>>

(* A part as large as its bounds say, awaited by the one that split it.      *)
Dispatch(t, offset, steps) ==
  LET fresh == Min({u \in Tasks : task[u].pc = "none"})
      upper == NewLoop(FALSE, offset,
                       Min({task[t].split.stop, offset + steps * loop.stride}), steps)
  IN  /\ task' = [task EXCEPT ![fresh] = upper,
                              ![t].split.chunkID = @ + 1,
                              ![t].dag = IF loop.hasFuture THEN <<fresh>> \o @ ELSE @]
      /\ descendants' = descendants + 1
      /\ UNCHANGED <<loop, owner, status, runs>>

(* A faulty variant: small chunks are placed as if all were small.           *)
ChunkMisplaced(s) ==
  LET size == s.base + (IF s.chunkID < s.cutoff THEN 1 ELSE 0)
  IN  [size |-> size, offset |-> s.at + loop.stride * size * s.chunkID]

(* The next chunk of the split, until there is none or it is empty.          *)
Chunk(s) ==
  LET size == s.base + (IF s.chunkID < s.cutoff THEN 1 ELSE 0)
  IN  [size |-> size,
       offset |-> s.at + loop.stride * (IF s.chunkID < s.cutoff THEN size * s.chunkID
                                        ELSE s.base * s.chunkID + s.cutoff)]
PushChunk(t) ==
  LET s == task[t].split
      more == s.chunkID < s.workers /\ Chunk(s).size # 0
  IN  /\ task[t].pc = "push"
      /\ \/ /\ more
            /\ Dispatch(t, Chunk(s).offset, Chunk(s).size)
         \/ /\ ~more
            /\ task' = [task EXCEPT ![t].pc = "body", ![t].split = NoSplit]
            /\ UNCHANGED <<loop, descendants, owner, status, runs>>

(* A faulty variant: the step counter goes down by the stride.               *)
IterateByStride(t) ==
  LET this == task[t]
      iterStatus == IF this.idx \in loop.failing THEN this.idx ELSE Success
  IN  /\ this.pc = "body"
      /\ runs' = [runs EXCEPT ![this.idx] = @ + 1]
      /\ task' = [task EXCEPT ![t] =
           [this EXCEPT !.pc = "balance", !.idx = @ + loop.stride,
                        !.loopStepsLeft = @ - loop.stride,
                        !.status = IF @ = Success THEN iterStatus ELSE @]]
      /\ UNCHANGED <<loop, descendants, owner, status>>

(* One iteration.  A failed one is kept unless there is a failure already.   *)
Iterate(t) ==
  LET this == task[t]
      iterStatus == IF this.idx \in loop.failing THEN this.idx ELSE Success
  IN  /\ this.pc = "body"
      /\ runs' = [runs EXCEPT ![this.idx] = @ + 1]
      /\ task' = [task EXCEPT ![t] =
           [this EXCEPT !.pc = "balance", !.idx = @ + loop.stride, !.loopStepsLeft = @ - 1,
                        !.status = IF @ = Success THEN iterStatus ELSE @]]
      /\ UNCHANGED <<loop, descendants, owner, status>>

(* A faulty variant: what was awaited last overwrites what is known.         *)
MergeRemoteOverwrites(t) ==
  LET this == task[t]
      remote == Head(this.dag)
  IN  /\ this.pc = "balance"
      /\ this.idx >= this.loopStop
      /\ this.dag # <<>>
      /\ task[remote].pc = "ended"
      /\ task' = [task EXCEPT ![remote].pc = "freed",
                              ![t].dag = Tail(@),
                              ![t].status = task[remote].status]
      /\ UNCHANGED <<loop, descendants, owner, status, runs>>

(* Awaits the part at the head of the list, merges its status and frees it.  *)
MergeRemote(t) ==
  LET this == task[t]
      remote == Head(this.dag)
  IN  /\ this.pc = "balance"
      /\ this.idx >= this.loopStop
      /\ this.dag # <<>>
      /\ task[remote].pc = "ended"
      /\ task' = [task EXCEPT ![remote].pc = "freed",
                              ![t].dag = Tail(@),
                              ![t].status = IF @ = Success THEN task[remote].status ELSE @]
      /\ UNCHANGED <<loop, descendants, owner, status, runs>>

(* run, after the loop: the task leaves the barrier, and only then is freed  *)
(* or handed over to whoever awaits it.                                      *)
Unlist(t) ==
  /\ task[t].pc = "balance"
  /\ task[t].idx >= task[t].loopStop
  /\ task[t].dag = <<>>
  /\ descendants' = descendants - 1
  /\ task' = [task EXCEPT ![t].pc = "unlisted"]
  /\ UNCHANGED <<loop, owner, status, runs>>

End(t) ==
  /\ task[t].pc = "unlisted"
  /\ task' = [task EXCEPT ![t].pc = IF loop.hasFuture THEN "ended" ELSE "freed"]
  /\ UNCHANGED <<loop, descendants, owner, status, runs>>

Step(t) ==
  \/ Begin(t) \/ KeepAll(t) \/ PushChunk(t) \/ Iterate(t) \/ MergeRemote(t) \/ Unlist(t) \/ End(t)
  \/ \E waiters \in 0 .. MaxWaiters : Split(t, waiters)

OwnerStep == Schedule \/ ScheduleChunk \/ Sync \/ LeaveScope

(* sync and wait spin or sleep while there is nothing to run.                *)
Idle == owner # "body" /\ UNCHANGED vars

Next == OwnerStep \/ (\E t \in Tasks : Step(t)) \/ Idle

(* The owner pops and steals tasks until the scope is empty, so that queued  *)
(* tasks start even if no other thread helps; a thread does not stop.        *)
Spec == Init /\ [][Next]_vars /\ WF_vars(OwnerStep) /\ \A t \in Tasks : WF_vars(Step(t))

-----------------------------------------------------------------------------
(* No iteration is run twice or out of the range, however the loop is split, *)
(* and all have run when the scope is left.  Bounds and step counters agree: *)
(* a part that is not finished has as many steps left as its range.          *)
EachIterationOnce ==
  /\ \A i \in Window : runs[i] <= IF i \in Indices(loop) THEN 1 ELSE 0
  /\ owner = "left" => \A i \in Indices(loop) : runs[i] = 1

StepsLeftExact ==
  \A t \in Alive :
    task[t].loopStepsLeft =
      IF task[t].idx >= task[t].loopStop THEN 0
      ELSE ceilDiv(task[t].loopStop - task[t].idx, loop.stride)

(* The barrier counts the tasks that are queued or running, so that the      *)
(* scope, whose frame they point to, is left only after the last has ended.  *)
BarrierCounts ==
  /\ descendants = Cardinality(Alive)
  /\ owner = "left" => Alive = {}

(* Every future of a split is awaited by the part that created it and by no  *)
(* other, and its memory is there until then.  At the end of the scope of a  *)
(* reduction nothing is left over; without one, a task may still have to     *)
(* free itself, which does not touch the scope.                              *)
AwaitedOnce ==
  /\ \A t \in Tasks : \A k \in DOMAIN task[t].dag :
       LET u == task[t].dag[k]
       IN  /\ task[u].pc \notin {"none", "freed"}
           /\ \A v \in Tasks : \A j \in DOMAIN task[v].dag :
                task[v].dag[j] = u => v = t /\ j = k
  /\ owner = "left" =>
       \A t \in Tasks : task[t].pc \in {"none", "freed"} \union
                                     (IF loop.hasFuture THEN {} ELSE {"unlisted"})

(* A reduction of statuses returns Success exactly when no iteration failed, *)
(* and else the failure of some iteration.                                   *)
ReductionReports ==
  owner \in {"wait", "left"} /\ loop.hasFuture =>
    IF loop.failing = {} THEN status = Success ELSE status \in loop.failing

(* The partitioners, on ranges as long as the loop's and longer.             *)
ChunksTile ==
  owner = "body" => PartitionsTile(loop.stop) /\ PartitionsTile(loop.stop + 2 * MaxSteps)

(* The scope is left in the end, whatever the threads do with the tasks, and *)
(* the memory of every task is freed.                                        *)
LoopEnds == <>[](owner = "left" /\ \A t \in Tasks : task[t].pc \in {"none", "freed"})
=============================================================================
