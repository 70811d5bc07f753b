----------------------------- MODULE Eventcount -----------------------------
(***************************************************************************)
(* The eventcount of constantine/threadpool/crossthread/backoff.nim: idle  *)
(* workers park on it until events changes.  The operations are given as   *)
(* their atomic steps, for the modules that call them to put in order.     *)
(*                                                                         *)
(* waitset packs two counts in one word: the committed sleepers in its     *)
(* kPreWaitShift low bits, the pre-sleepers above them.                    *)
(***************************************************************************)
EXTENDS Integers, FiniteSets

CONSTANTS Thread,         \* the workers of the threadpool
          kPreWaitShift,  \* 8 in the code
          WordBits,       \* width of waitset: 32 in the code
          EpochSize       \* events wraps at this value: 2^32 in the code

ASSUME EventcountAssumption ==
    /\ kPreWaitShift \in Nat
    /\ WordBits \in Nat
    /\ kPreWaitShift < WordBits
    /\ EpochSize \in Nat \ {0}
    /\ 2 ^ kPreWaitShift \in Nat \ {0}   \* arithmetic the prover has no rules for
    /\ 2 ^ WordBits \in Nat \ {0}

VARIABLES waitset,  \* the packed counts
          events,   \* the futex word
          ticket,   \* ticket[w]: the epoch of the last sleepy() of w
          asleep    \* the threads the kernel holds in the futex's wait queue

ecVars == <<waitset, events, ticket, asleep>>

kPreWait == 2 ^ kPreWaitShift
kWait == 1
kCommitToWait == kWait - kPreWait

\* fetchAdd and fetchSub on the word.
WordSize == 2 ^ WordBits
fetchAdd(x, d) == (x + d) % WordSize

\* waiters and kWaitMask; (waiters and kPreWaitMask) shr kPreWaitShift.
committedSleep(waiters) == waiters % kPreWait
preSleep(waiters) == waiters \div kPreWait

getNumWaiters == [preSleep |-> preSleep(waitset), committedSleep |-> committedSleep(waitset)]

EcInit ==
    /\ waitset = 0
    /\ events = 0
    /\ ticket = [w \in Thread |-> 0]
    /\ asleep = {}

-----------------------------------------------------------------------------
(* Faulty variants of steps below, which no specification uses. *)

\* A woken thread stays in the count of sleepers.
sleepLeaveKeepsCount(w) ==
    /\ w \notin asleep
    /\ events # ticket[w]
    /\ ticket' = [ticket EXCEPT ![w] = 0]
    /\ UNCHANGED <<waitset, events, asleep>>

\* A thread that found work stays in the count of pre-sleepers.
cancelSleepKeepsCount(w) ==
    /\ ticket' = [ticket EXCEPT ![w] = 0]
    /\ UNCHANGED <<waitset, events, asleep>>

-----------------------------------------------------------------------------
\* sleepy: announce, then take the ticket.
sleepyAnnounce ==
    /\ waitset' = fetchAdd(waitset, kPreWait)
    /\ UNCHANGED <<events, ticket, asleep>>

sleepyTicket(w) ==
    /\ ticket' = [ticket EXCEPT ![w] = events]
    /\ UNCHANGED <<waitset, events, asleep>>

\* sleep: commit, wait in the futex while the ticket is valid, leave.
sleepCommit ==
    /\ waitset' = fetchAdd(waitset, kCommitToWait)
    /\ UNCHANGED <<events, ticket, asleep>>

\* The kernel compares and parks in one step.
sleepWait(w) ==
    /\ w \notin asleep
    /\ events = ticket[w]
    /\ asleep' = asleep \cup {w}
    /\ UNCHANGED <<waitset, events, ticket>>

sleepLeave(w) ==
    /\ w \notin asleep
    /\ events # ticket[w]
    /\ waitset' = fetchAdd(waitset, -kWait)
    /\ ticket' = [ticket EXCEPT ![w] = 0]   \* the ticket goes out of scope
    /\ UNCHANGED <<events, asleep>>

\* futex_wait may return without a wake: EINTR.
futexInterrupted(w) ==
    /\ w \in asleep
    /\ asleep' = asleep \ {w}
    /\ UNCHANGED <<waitset, events, ticket>>

cancelSleep(w) ==
    /\ waitset' = fetchAdd(waitset, -kPreWait)
    /\ ticket' = [ticket EXCEPT ![w] = 0]
    /\ UNCHANGED <<events, asleep>>

\* wake and wakeAll: increment events, look at waitset, then maybe the syscall.
wakeBump ==
    /\ events' = (events + 1) % EpochSize
    /\ UNCHANGED <<waitset, ticket, asleep>>

\* In wake, a thread in pre-sleep is trusted to see the new epoch.
wakeNeedsSyscall(waiters) == preSleep(waiters) = 0 /\ waiters # 0

wakeAllNeedsSyscall(waiters) == committedSleep(waiters) # 0

wakeSyscall ==
    /\ \/ \E w \in asleep : asleep' = asleep \ {w}
       \/ asleep = {} /\ UNCHANGED asleep
    /\ UNCHANGED <<waitset, events, ticket>>

wakeAllSyscall ==
    /\ asleep' = {}
    /\ UNCHANGED <<waitset, events, ticket>>
=============================================================================
