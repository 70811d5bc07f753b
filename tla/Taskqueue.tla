----------------------------- MODULE Taskqueue -----------------------------
(***************************************************************************)
(* The growable work-stealing task queue of                                *)
(* constantine/threadpool/crossthread/taskqueues.nim (Chase-Lev): one      *)
(* owner pushes and pops at the back, thieves steal at the front.          *)
(*                                                                         *)
(* One action per access to memory that another thread can write or whose  *)
(* value another thread can see.  back, buf, garbage and the slots have a  *)
(* single writer, the owner, so its own loads of them are part of the      *)
(* action that uses them.  Atomics are sequentially consistent.            *)
(*                                                                         *)
(* A buffer is never named twice: reading one that was freed returns       *)
(* anything, which covers an allocator that has reused the memory.         *)
(***************************************************************************)
EXTENDS Integers, Sequences, FiniteSets

CONSTANTS Task,             \* task addresses
          Thief,            \* workers that steal from this queue
          Owner,            \* the worker that owns it
          Nil,              \* nil, and the SentinelThief of a task
          InitialCapacity,  \* capacity of the first buffer (32 in setupWorker)
          MaxIndex          \* bound: the owner starts no push at this index

ASSUME TaskqueueAssumption ==
    /\ InitialCapacity \in Nat \ {0}
    /\ MaxIndex \in Nat
    /\ Nil \notin Task
    /\ Owner \notin Thief
    /\ Nil \notin Thief

VARIABLES
    front,    \* index of the next task to steal
    back,     \* index of the next task to push
    buf,      \* the current buffer, an index in bufs; 0 after teardown
    bufs,     \* every buffer ever allocated: [capacity, raw]
    garbage,  \* the retired buffers that are not freed yet
    opc,      \* where the owner is
    of,       \* owner: the front it loaded in push or pop
    item,     \* owner: the task being pushed or the result of the pop
    tpc,      \* tpc[th]: where the thief is
    tf,       \* thief: the front it loaded
    ta,       \* thief: the buffer it loaded
    tr,       \* thief: the task it read
    held,     \* held[w]: tasks worker w owns outside the queue
    thiefID   \* thiefID[t]: the thief field of the task's synchro word

ownerVars == <<opc, of, item>>
thiefVars == <<tpc, tf, ta, tr>>
vars == <<front, back, buf, bufs, garbage, ownerVars, thiefVars, held, thiefID>>

Worker == Thief \cup {Owner}

-----------------------------------------------------------------------------
(* Buffers. *)

Buf(n) == [capacity : {n}, raw : [0 .. n - 1 -> Task \cup {Nil}]]

newBuf(n) == [capacity |-> n, raw |-> [i \in 0 .. n - 1 |-> Nil]]

\* `[]=` and `[]`.  index and (capacity-1): capacity is a power of two and the index
\* is not negative.
put(b, index, t) ==
    [capacity |-> b.capacity, raw |-> [b.raw EXCEPT ![index % b.capacity] = t]]

get(b, index) == b.raw[index % b.capacity]

Slot(a, index) == get(bufs[a], index)

capacity == bufs[buf].capacity

\* Neither current nor kept for later: freed.
Live(a) == a = buf \/ a \in garbage

\* The new buffer is allocated with the old size (a fault, see below).
EnlargedTooSmall(b, first, last) == [b EXCEPT !.capacity = 2 * b.capacity]

\* The copy of the entries first .. last-1 of b into a buffer twice as large.
Enlarged(b, first, last) ==
    LET c == 2 * b.capacity
        At(j) == {i \in first .. last - 1 : i % c = j}
    IN  [capacity |-> c,
         raw |-> [j \in 0 .. c - 1 |->
                     IF At(j) = {} THEN Nil
                     ELSE get(b, CHOOSE i \in At(j) : TRUE)]]

-----------------------------------------------------------------------------
(***************************************************************************)
(* Faulty variants of actions below, each with a bug that such code is     *)
(* prone to.  No specification uses them: they show that the properties    *)
(* at the end of the module can tell the difference.                       *)
(***************************************************************************)

\* The queue counts as full one entry too late: the task overwrites the front.
PushFullTooLate(t) ==
    /\ opc = "idle"
    /\ back < MaxIndex
    /\ t \in held[Owner]
    /\ held' = [held EXCEPT ![Owner] = @ \ {t}]
    /\ item' = t
    /\ of' = front
    /\ opc' = IF back - front > capacity THEN "push_grow" ELSE "push_store"
    /\ UNCHANGED <<front, back, buf, bufs, garbage, thiefVars, thiefID>>

\* Retired buffers are freed although the queue is not empty.
PushCollectsAlways(t) ==
    /\ opc = "idle"
    /\ back < MaxIndex
    /\ t \in held[Owner]
    /\ held' = [held EXCEPT ![Owner] = @ \ {t}]
    /\ item' = t
    /\ of' = front
    /\ opc' = IF back - front > capacity - 1 THEN "push_grow"
              ELSE IF garbage # {} THEN "push_collect"
              ELSE "push_store"
    /\ UNCHANGED <<front, back, buf, bufs, garbage, thiefVars, thiefID>>

\* The old buffer is freed at once instead of being retired.
GrowFrees ==
    /\ opc = "push_grow"
    /\ bufs' = Append(bufs, Enlarged(bufs[buf], of, back))
    /\ buf' = Len(bufs) + 1
    /\ opc' = "push_store"
    /\ UNCHANGED <<front, back, garbage, of, item, thiefVars, held, thiefID>>

\* The last entry is taken without the compareExchange.
PopTakesLast ==
    /\ opc = "pop_front"
    /\ \/ /\ front <= back
          /\ held' = [held EXCEPT ![Owner] = @ \cup {Slot(buf, back)}]
          /\ opc' = "idle"
       \/ /\ front > back
          /\ opc' = "pop_restore"
          /\ UNCHANGED held
    /\ UNCHANGED <<front, back, buf, bufs, garbage, of, item, thiefVars, thiefID>>

\* back is not restored after the last entry was lost to a thief.
PopForgetsRestore ==
    /\ opc = "pop_restore"
    /\ opc' = IF garbage # {} THEN "pop_collect" ELSE "idle"
    /\ UNCHANGED <<front, back, buf, bufs, garbage, of, item, thiefVars, held, thiefID>>

-----------------------------------------------------------------------------
Init ==
    /\ front = 0
    /\ back = 0
    /\ buf = 1
    /\ bufs = << newBuf(InitialCapacity) >>
    /\ garbage = {}
    /\ opc = "idle"
    /\ of = 0
    /\ item = Nil
    /\ tpc = [th \in Thief |-> "idle"]
    /\ tf = [th \in Thief |-> 0]
    /\ ta = [th \in Thief |-> 1]
    /\ tr = [th \in Thief |-> Nil]
    /\ held = [w \in Worker |-> IF w = Owner THEN Task ELSE {}]
    /\ thiefID = [t \in Task |-> Nil]

(***************************************************************************)
(* push: load front, grow when full, free the retired buffers when empty,  *)
(* store the task, publish back.                                           *)
(***************************************************************************)
Push(t) ==
    /\ opc = "idle"
    /\ back < MaxIndex
    /\ t \in held[Owner]
    /\ held' = [held EXCEPT ![Owner] = @ \ {t}]
    /\ item' = t
    /\ of' = front
    /\ opc' = IF back - front > capacity - 1 THEN "push_grow"
              ELSE IF garbage # {} /\ front = back THEN "push_collect"
              ELSE "push_store"
    /\ UNCHANGED <<front, back, buf, bufs, garbage, thiefVars, thiefID>>

Grow ==
    /\ opc = "push_grow"
    /\ bufs' = Append(bufs, Enlarged(bufs[buf], of, back))
    /\ garbage' = garbage \cup {buf}
    /\ buf' = Len(bufs) + 1
    /\ opc' = "push_store"
    /\ UNCHANGED <<front, back, of, item, thiefVars, held, thiefID>>

PushCollect ==
    /\ opc = "push_collect"
    /\ garbage' = {}
    /\ opc' = "push_store"
    /\ UNCHANGED <<front, back, buf, bufs, of, item, thiefVars, held, thiefID>>

StoreItem ==
    /\ opc = "push_store"
    /\ bufs' = [bufs EXCEPT ![buf] = put(@, back, item)]
    /\ opc' = "push_publish"
    /\ UNCHANGED <<front, back, buf, garbage, of, item, thiefVars, held, thiefID>>

PublishBack ==
    /\ opc = "push_publish"
    /\ back' = back + 1
    /\ item' = Nil
    /\ of' = 0
    /\ opc' = "idle"
    /\ UNCHANGED <<front, buf, bufs, garbage, thiefVars, held, thiefID>>

(***************************************************************************)
(* pop: reserve the last entry by lowering back, then look at front.  The  *)
(* last entry of all is fought for with the thieves.                       *)
(***************************************************************************)
Pop ==
    /\ opc = "idle"
    /\ back' = back - 1
    /\ opc' = "pop_front"
    /\ UNCHANGED <<front, buf, bufs, garbage, of, item, thiefVars, held, thiefID>>

PopLoadFront ==
    /\ opc = "pop_front"
    /\ \/ /\ front < back
          /\ held' = [held EXCEPT ![Owner] = @ \cup {Slot(buf, back)}]
          /\ opc' = "idle"
          /\ UNCHANGED <<of, item>>
       \/ /\ front = back
          /\ of' = front
          /\ item' = Slot(buf, back)
          /\ opc' = "pop_cas"
          /\ UNCHANGED held
       \/ /\ front > back
          /\ opc' = "pop_restore"
          /\ UNCHANGED <<of, item, held>>
    /\ UNCHANGED <<front, back, buf, bufs, garbage, thiefVars, thiefID>>

PopCas ==
    /\ opc = "pop_cas"
    /\ \/ /\ front = of
          /\ front' = front + 1
          /\ held' = [held EXCEPT ![Owner] = @ \cup {item}]
       \/ /\ front # of
          /\ UNCHANGED <<front, held>>
    /\ item' = Nil
    /\ of' = 0
    /\ opc' = "pop_restore"
    /\ UNCHANGED <<back, buf, bufs, garbage, thiefVars, thiefID>>

PopRestore ==
    /\ opc = "pop_restore"
    /\ back' = back + 1
    /\ opc' = IF garbage # {} THEN "pop_collect" ELSE "idle"
    /\ UNCHANGED <<front, buf, bufs, garbage, of, item, thiefVars, held, thiefID>>

PopCollect ==
    /\ opc = "pop_collect"
    /\ garbage' = {}
    /\ opc' = "idle"
    /\ UNCHANGED <<front, back, buf, bufs, of, item, thiefVars, held, thiefID>>

(***************************************************************************)
(* steal, by thief th.  Its locals are cleared when it returns.            *)
(***************************************************************************)
StealReturns(th) ==
    /\ tpc' = [tpc EXCEPT ![th] = "idle"]
    /\ tf' = [tf EXCEPT ![th] = 0]
    /\ ta' = [ta EXCEPT ![th] = 1]
    /\ tr' = [tr EXCEPT ![th] = Nil]

StealFront(th) ==
    /\ tpc[th] = "idle"
    /\ opc # "down"
    /\ tf' = [tf EXCEPT ![th] = front]
    /\ tpc' = [tpc EXCEPT ![th] = "steal_back"]
    /\ UNCHANGED <<front, back, buf, bufs, garbage, ownerVars, ta, tr, held, thiefID>>

StealBack(th) ==
    /\ tpc[th] = "steal_back"
    /\ \/ /\ tf[th] < back
          /\ tpc' = [tpc EXCEPT ![th] = "steal_buf"]
          /\ UNCHANGED <<tf, ta, tr>>
       \/ /\ tf[th] >= back
          /\ StealReturns(th)
    /\ UNCHANGED <<front, back, buf, bufs, garbage, ownerVars, held, thiefID>>

StealBuf(th) ==
    /\ tpc[th] = "steal_buf"
    /\ ta' = [ta EXCEPT ![th] = buf]
    /\ tpc' = [tpc EXCEPT ![th] = "steal_read"]
    /\ UNCHANGED <<front, back, buf, bufs, garbage, ownerVars, tf, tr, held, thiefID>>

StealRead(th) ==
    /\ tpc[th] = "steal_read"
    /\ \E v \in IF Live(ta[th]) THEN {Slot(ta[th], tf[th])} ELSE Task \cup {Nil} :
          tr' = [tr EXCEPT ![th] = v]
    /\ ta' = [ta EXCEPT ![th] = 1]
    /\ tpc' = [tpc EXCEPT ![th] = "steal_cas"]
    /\ UNCHANGED <<front, back, buf, bufs, garbage, ownerVars, tf, held, thiefID>>

StealCas(th) ==
    /\ tpc[th] = "steal_cas"
    /\ \/ /\ front = tf[th]
          /\ front' = front + 1
          /\ held' = [held EXCEPT ![th] = @ \cup {tr[th]}]
          /\ tpc' = [tpc EXCEPT ![th] = "steal_mark"]
          /\ UNCHANGED <<tf, ta, tr>>
       \/ /\ front # tf[th]
          /\ StealReturns(th)
          /\ UNCHANGED <<front, held>>
    /\ UNCHANGED <<back, buf, bufs, garbage, ownerVars, thiefID>>

StealSetThief(th) ==
    /\ tpc[th] = "steal_mark"
    /\ thiefID' = [thiefID EXCEPT ![tr[th]] = th]
    /\ StealReturns(th)
    /\ UNCHANGED <<front, back, buf, bufs, garbage, ownerVars, held>>

(***************************************************************************)
(* The queue's users.  A thief runs a stolen task to its end and it is     *)
(* freed; the owner's next spawn may get the same address, with a fresh    *)
(* synchro word.  The queue is torn down behind the threadpool's barrier,  *)
(* once syncAll has seen it empty and no thread is inside an operation.    *)
(***************************************************************************)
Recycle(th, t) ==
    /\ tpc[th] = "idle"
    /\ t \in held[th]
    /\ held' = [held EXCEPT ![th] = @ \ {t}, ![Owner] = @ \cup {t}]
    /\ thiefID' = [thiefID EXCEPT ![t] = Nil]
    /\ UNCHANGED <<front, back, buf, bufs, garbage, ownerVars, thiefVars>>

Teardown ==
    /\ opc = "idle"
    /\ \A th \in Thief : tpc[th] = "idle"
    /\ front = back
    /\ garbage' = {}
    /\ buf' = 0
    /\ opc' = "down"
    /\ UNCHANGED <<front, back, bufs, of, item, thiefVars, held, thiefID>>

OwnerStep ==
    \/ \E t \in Task : Push(t)
    \/ Grow \/ PushCollect \/ StoreItem \/ PublishBack
    \/ Pop \/ PopLoadFront \/ PopCas \/ PopRestore \/ PopCollect

ThiefStep(th) ==
    \/ StealFront(th) \/ StealBack(th) \/ StealBuf(th)
    \/ StealRead(th) \/ StealCas(th) \/ StealSetThief(th)
    \/ \E t \in Task : Recycle(th, t)

Next ==
    \/ OwnerStep
    \/ \E th \in Thief : ThiefStep(th)
    \/ Teardown

Spec == Init /\ [][Next]_vars

-----------------------------------------------------------------------------
(* What the queue contains. *)

\* pop lowers back before it knows that it gets the entry.
AbsBack == IF opc \in {"pop_front", "pop_cas", "pop_restore"} THEN back + 1 ELSE back

Queue == [i \in 1 .. AbsBack - front |-> Slot(buf, front + i - 1)]

\* The task push has taken and not published yet.
InFlight == IF opc \in {"push_grow", "push_collect", "push_store", "push_publish"}
            THEN {item} ELSE {}

-----------------------------------------------------------------------------
(* Properties. *)

\* Every variable has its type; a buffer has as many slots as its capacity says.
TypeOK ==
    /\ front \in Nat
    /\ back \in Int
    /\ buf \in 0 .. Len(bufs)
    /\ \A a \in 1 .. Len(bufs) : /\ bufs[a].capacity \in Nat \ {0}
                                /\ bufs[a] \in Buf(bufs[a].capacity)
    /\ garbage \subseteq 1 .. Len(bufs)
    /\ opc \in {"idle", "push_grow", "push_collect", "push_store", "push_publish",
                "pop_front", "pop_cas", "pop_restore", "pop_collect", "down"}
    /\ of \in Nat
    /\ item \in Task \cup {Nil}
    /\ tpc \in [Thief -> {"idle", "steal_back", "steal_buf", "steal_read", "steal_cas",
                          "steal_mark"}]
    /\ tf \in [Thief -> Nat]
    /\ ta \in [Thief -> 1 .. Len(bufs)]
    /\ tr \in [Thief -> Task \cup {Nil}]
    /\ held \in [Worker -> SUBSET Task]
    /\ thiefID \in [Task -> Thief \cup {Nil}]

\* A task that entered the queue is in exactly one place at every moment: in one
\* entry of the queue, with the owner that is pushing it, or with the one worker
\* that popped or stole it.  No interleaving of push, pop, steal and grow runs a
\* task twice or drops it.
NoTaskLostOrDoubled ==
    \A t \in Task :
        Cardinality({w \in Worker : t \in held[w]})
          + Cardinality({i \in 1 .. Len(Queue) : Queue[i] = t})
          + Cardinality({t} \cap InFlight) = 1

\* garbageCollect runs only while the queue is empty, although push decided to call
\* it from a front it loaded earlier and pop after it restored back.
CollectsOnlyWhenEmpty ==
    opc \in {"push_collect", "pop_collect"} => front = back

\* A thief about to read an entry of a buffer that was freed under it has already
\* lost the race: its compareExchange cannot succeed.
StaleReadsLose ==
    \A th \in Thief :
        tpc[th] = "steal_read" /\ ~Live(ta[th]) => front # tf[th]

\* A thief whose compareExchange is going to succeed has read the task that is at
\* the front of the queue now, whatever grow and push did since it loaded buf.
StealReadsHead ==
    \A th \in Thief :
        tpc[th] = "steal_cas" /\ front = tf[th] => Queue # << >> /\ tr[th] = Queue[1]

\* setThief is called once per life of a task: the thief field still holds the
\* sentinel, which its fetchAdd relies on, and no task is queued with a thief in it.
StolenOnce ==
    /\ \A th \in Thief : tpc[th] = "steal_mark" => thiefID[tr[th]] = Nil
    /\ \A i \in 1 .. Len(Queue) : Queue[i] \in Task /\ thiefID[Queue[i]] = Nil

\* push, pop and steal implement the operations of a deque, each taking effect at
\* one instant: the store of back, the load of front or the compareExchange.
Deque == INSTANCE WorkStealingDeque WITH deque <- Queue, held <- held

ImplementsDeque == Deque!Spec

\* What the comments on the three calls of garbageCollect say: no thief has a
\* pointer to a retired buffer when it is freed.
NoThiefHasFreedBuffer ==
    \A th \in Thief : tpc[th] = "steal_read" => Live(ta[th])
=============================================================================
