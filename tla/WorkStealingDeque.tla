------------------------- MODULE WorkStealingDeque -------------------------
(***************************************************************************)
(* What a task queue of constantine/threadpool promises its users, told    *)
(* without memory: the owner pushes and pops at the back, any other worker *)
(* steals at the front, and a task belongs to exactly one place.           *)
(*                                                                         *)
(* Calls that return nil are steps that change nothing here.  Taskqueue    *)
(* implements this specification (Taskqueue!Deque).                        *)
(***************************************************************************)
EXTENDS Integers, Sequences

CONSTANTS Task,   \* the task addresses the allocator hands out
          Thief,  \* the workers that steal from this queue
          Owner   \* the worker that owns it

VARIABLES deque,  \* the queued tasks, front first
          held    \* held[w]: the tasks worker w owns, outside the queue

Worker == Thief \cup {Owner}

vars == <<deque, held>>

Init ==
    /\ deque = << >>
    /\ held = [w \in Worker |-> IF w = Owner THEN Task ELSE {}]

\* The owner gives up a task it holds.
Leave(t) ==
    /\ t \in held[Owner]
    /\ held' = [held EXCEPT ![Owner] = @ \ {t}]
    /\ UNCHANGED deque

\* A task that was given up becomes visible at the back of the queue.
Push(t) ==
    /\ \A w \in Worker : t \notin held[w]
    /\ \A i \in 1 .. Len(deque) : deque[i] # t
    /\ deque' = Append(deque, t)
    /\ UNCHANGED held

Pop ==
    /\ deque # << >>
    /\ held' = [held EXCEPT ![Owner] = @ \cup {deque[Len(deque)]}]
    /\ deque' = SubSeq(deque, 1, Len(deque) - 1)

Steal(th) ==
    /\ deque # << >>
    /\ held' = [held EXCEPT ![th] = @ \cup {Head(deque)}]
    /\ deque' = Tail(deque)

\* A stolen task has been run and freed; its address is used for a new task.
Recycle(th, t) ==
    /\ t \in held[th]
    /\ held' = [held EXCEPT ![th] = @ \ {t}, ![Owner] = @ \cup {t}]
    /\ UNCHANGED deque

Next ==
    \/ \E t \in Task : Leave(t) \/ Push(t)
    \/ Pop
    \/ \E th \in Thief : Steal(th)
    \/ \E th \in Thief, t \in Task : Recycle(th, t)

Spec == Init /\ [][Next]_vars
=============================================================================
