------------------------- MODULE EventcountCapacity -------------------------
(***************************************************************************)
(* The eventcount with as many threads as the code allows, counted instead *)
(* of named: how many are between sleepy and sleep, how many are committed *)
(* to sleep, against what getNumWaiters reads from the packed word.        *)
(***************************************************************************)
EXTENDS Eventcount

CONSTANT NumWorkers  \* the threads that sleep: all but the root

VARIABLES numPre, numCommitted

vars == <<ecVars, numPre, numCommitted>>

Init == EcInit /\ numPre = 0 /\ numCommitted = 0

Sleepy ==
    /\ numPre + numCommitted < NumWorkers
    /\ sleepyAnnounce
    /\ numPre' = numPre + 1
    /\ UNCHANGED numCommitted

Commit ==
    /\ numPre > 0
    /\ sleepCommit
    /\ numPre' = numPre - 1
    /\ numCommitted' = numCommitted + 1

Cancel ==
    /\ numPre > 0
    /\ waitset' = fetchAdd(waitset, -kPreWait)
    /\ numPre' = numPre - 1
    /\ UNCHANGED <<events, ticket, asleep, numCommitted>>

Leave ==
    /\ numCommitted > 0
    /\ waitset' = fetchAdd(waitset, -kWait)
    /\ numCommitted' = numCommitted - 1
    /\ UNCHANGED <<events, ticket, asleep, numPre>>

Next == Sleepy \/ Commit \/ Cancel \/ Leave

Spec == Init /\ [][Next]_vars

\* getNumWaiters tells how many threads are in pre-sleep and how many sleep, for as many
\* threads as the pool has (the comment on the bit fields promises up to 2^16).
CountsFit ==
    getNumWaiters = [preSleep |-> numPre, committedSleep |-> numCommitted]
=============================================================================
