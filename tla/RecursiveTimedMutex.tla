------------------------- MODULE RecursiveTimedMutex -------------------------
(***************************************************************************)
(* sync::recursive_timed_mutex (stdlib/mutex.hpp): an owner and a count    *)
(* under a mutex and a condition variable.                                 *)
(*                                                                         *)
(* A critical section of mtx_ is one action.  unlock() notifies after it   *)
(* has released mtx_, in an action of its own.  At the limit of the count  *)
(* lock() aborts in its assertion and the attempts return false, so none   *)
(* of them has a step there; try_lock() that finds mtx_ taken has none     *)
(* either.                                                                 *)
(***************************************************************************)
EXTENDS Naturals, FiniteSets, CondVar

CONSTANTS Threads,      \* the threads that use the mutex
          NoThread,     \* SYNC_NULL_THREAD
          MaxCount      \* the limit of count_

VARIABLES count_, id_,  \* how often the owner holds the mutex, and who it is
          held,         \* history: calls of each thread that locked, less unlocks
          pc,           \* where each thread is in its call
          deadline      \* of each thread's timed attempt

vars == <<count_, id_, held, pc, deadline, sleepers>>

TypeOK ==
    /\ count_ \in 0 .. MaxCount
    /\ id_ \in Threads \cup {NoThread}
    /\ held \in [Threads -> 0 .. MaxCount]
    /\ pc \in [Threads -> {"idle", "waiting", "notify_one"}]
    /\ deadline \in [Threads -> {"none", "pending", "passed"}]
    /\ sleepers \subseteq {t \in Threads : pc[t] = "waiting"}

Init ==
    /\ count_ = 0 /\ id_ = NoThread
    /\ held = [t \in Threads |-> 0]
    /\ pc = [t \in Threads |-> "idle"]
    /\ deadline = [t \in Threads |-> "none"]
    /\ sleepers = {}

Goto(t, from, to) == pc[t] = from /\ pc' = [pc EXCEPT ![t] = to]

\* The owner locks once more, by any of the calls.
Relock(t) ==
    /\ pc[t] = "idle" /\ id_ = t
    /\ count_ < MaxCount
    /\ count_' = count_ + 1
    /\ held' = [held EXCEPT ![t] = @ + 1]
    /\ UNCHANGED <<id_, pc, deadline, sleepers>>

\* lock(), or try_lock_until() with its deadline ahead or already behind.
Call(t) ==
    /\ id_ # t
    /\ Goto(t, "idle", "waiting")
    /\ \E d \in {"none", "pending", "passed"} : deadline' = [deadline EXCEPT ![t] = d]
    /\ UNCHANGED <<count_, id_, held, sleepers>>

Own(t) ==
    /\ count_' = 1 /\ id_' = t
    /\ held' = [held EXCEPT ![t] = @ + 1]

TryLock(t) ==
    /\ pc[t] = "idle" /\ id_ # t
    /\ count_ = 0
    /\ Own(t)
    /\ UNCHANGED <<pc, deadline, sleepers>>

\* A thread inside the loop of an attempt that is not asleep.
Awake(t) == pc[t] = "waiting" /\ t \notin sleepers

Sleep(t) ==
    /\ Awake(t)
    /\ count_ # 0
    /\ deadline[t] # "passed"
    /\ Block(t)
    /\ UNCHANGED <<count_, id_, held, pc, deadline>>

Take(t) ==
    /\ Awake(t)
    /\ count_ = 0
    /\ Own(t)
    /\ Goto(t, "waiting", "idle")
    /\ deadline' = [deadline EXCEPT ![t] = "none"]
    /\ UNCHANGED sleepers

GiveUp(t) ==
    /\ Awake(t)
    /\ count_ # 0
    /\ deadline[t] = "passed"
    /\ Goto(t, "waiting", "idle")
    /\ deadline' = [deadline EXCEPT ![t] = "none"]
    /\ UNCHANGED <<count_, id_, held, sleepers>>

UnlockForgettingOwner(t) ==         \* mutant: forgotten at every unlock
    /\ held[t] > 0
    /\ count_' = count_ - 1 /\ id_' = NoThread
    /\ held' = [held EXCEPT ![t] = @ - 1]
    /\ Goto(t, "idle", IF count_ = 1 THEN "notify_one" ELSE "idle")
    /\ UNCHANGED <<deadline, sleepers>>

\* The caller's duty: only the owner unlocks.
Unlock(t) ==
    /\ held[t] > 0
    /\ count_' = count_ - 1
    /\ held' = [held EXCEPT ![t] = @ - 1]
    /\ id_' = IF count_ = 1 THEN NoThread ELSE id_
    /\ Goto(t, "idle", IF count_ = 1 THEN "notify_one" ELSE "idle")
    /\ UNCHANGED <<deadline, sleepers>>

Signal(t) ==
    /\ Goto(t, "notify_one", "idle")
    /\ NotifyOne
    /\ UNCHANGED <<count_, id_, held, deadline>>

DeadlinePasses(t) ==
    /\ deadline[t] = "pending"
    /\ deadline' = [deadline EXCEPT ![t] = "passed"]
    /\ UNCHANGED <<count_, id_, held, pc, sleepers>>

\* A wakeup without a signal: spurious, or the return of the timed wait.
Wakeup(t) == Unblock(t) /\ UNCHANGED <<count_, id_, held, pc, deadline>>

Next == \E t \in Threads :
    \/ Relock(t) \/ Call(t) \/ TryLock(t) \/ Unlock(t) \/ Signal(t)
    \/ Sleep(t) \/ Take(t) \/ GiveUp(t)
    \/ DeadlinePasses(t) \/ Wakeup(t)

\* As for TimedMutex; the notification of an unlock comes, too.
Fairness == \A t \in Threads :
    /\ WF_vars(Signal(t))
    /\ WF_vars(Sleep(t) \/ Take(t) \/ GiveUp(t))
    /\ WF_vars(DeadlinePasses(t))
    /\ WF_vars(deadline[t] = "passed" /\ Wakeup(t))

Spec == Init /\ [][Next]_vars
FairSpec == Spec /\ Fairness

------------------------------------------------------------------------------
\* The two fields tell the truth about what the calls returned: somebody holds
\* the mutex exactly if id_ names it, nobody else does, and count_ is how many
\* unlocks it still owes, through every mix of lock, attempts and unlocks.
OwnerTold == \A t \in Threads : held[t] = IF id_ = t THEN count_ ELSE 0

\* A free mutex is not left beside sleepers: somebody is awake and will find it
\* free, or the thread that freed it has yet to notify one of them.
NoLostWakeup ==
    count_ = 0 /\ sleepers # {} =>
        \E t \in Threads : pc[t] = "notify_one" \/ Awake(t)

\* sync::recursive_timed_mutex is a mutual exclusion lock between the first
\* lock and the last unlock of each holder.
Abstract == INSTANCE MutualExclusion WITH
    holders <- {t \in Threads : held[t] > 0},
    waiting <- {t \in Threads : pc[t] = "waiting"}

ImplementsMutex == Abstract!SpecTimed
==============================================================================
