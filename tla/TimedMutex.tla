------------------------------ MODULE TimedMutex ------------------------------
(***************************************************************************)
(* sync::timed_mutex (stdlib/mutex.hpp): a flag under a mutex and a        *)
(* condition variable.                                                     *)
(*                                                                         *)
(* A critical section of mtx_ is one action; unlock() notifies inside its  *)
(* own.  try_lock() that finds mtx_ or the flag taken changes nothing.     *)
(* That a thread holds the lock is in no field: pc records it.             *)
(***************************************************************************)
EXTENDS FiniteSets, CondVar

CONSTANT Threads        \* the threads that use the mutex

VARIABLES locked_,      \* the flag
          pc,           \* where each thread is
          deadline      \* of each thread's timed attempt

vars == <<locked_, pc, deadline, sleepers>>

At(label) == {t \in Threads : pc[t] = label}

TypeOK ==
    /\ locked_ \in BOOLEAN
    /\ pc \in [Threads -> {"idle", "waiting", "holding"}]
    /\ deadline \in [Threads -> {"none", "pending", "passed"}]
    /\ sleepers \subseteq At("waiting")

Init ==
    /\ locked_ = FALSE
    /\ pc = [t \in Threads |-> "idle"]
    /\ deadline = [t \in Threads |-> "none"]
    /\ sleepers = {}

Goto(t, from, to) == pc[t] = from /\ pc' = [pc EXCEPT ![t] = to]

\* lock(), or try_lock_until() with its deadline ahead or already behind.
Call(t) ==
    /\ Goto(t, "idle", "waiting")
    /\ \E d \in {"none", "pending", "passed"} : deadline' = [deadline EXCEPT ![t] = d]
    /\ UNCHANGED <<locked_, sleepers>>

TryLock(t) ==
    /\ ~locked_
    /\ locked_' = TRUE
    /\ Goto(t, "idle", "holding")
    /\ UNCHANGED <<deadline, sleepers>>

\* A thread inside the loop of an attempt that is not asleep.
Awake(t) == pc[t] = "waiting" /\ t \notin sleepers

Sleep(t) ==
    /\ Awake(t)
    /\ locked_
    /\ deadline[t] # "passed"
    /\ Block(t)
    /\ UNCHANGED <<locked_, pc, deadline>>

\* After a timeout too: the flag is looked at once more.
Take(t) ==
    /\ Awake(t)
    /\ ~locked_
    /\ locked_' = TRUE
    /\ Goto(t, "waiting", "holding")
    /\ deadline' = [deadline EXCEPT ![t] = "none"]
    /\ UNCHANGED sleepers

GiveUpUnchecked(t) ==               \* mutant: a timeout does not look again
    /\ Awake(t)
    /\ deadline[t] = "passed"
    /\ Goto(t, "waiting", "idle")
    /\ deadline' = [deadline EXCEPT ![t] = "none"]
    /\ UNCHANGED <<locked_, sleepers>>

GiveUp(t) ==
    /\ Awake(t)
    /\ locked_
    /\ deadline[t] = "passed"
    /\ Goto(t, "waiting", "idle")
    /\ deadline' = [deadline EXCEPT ![t] = "none"]
    /\ UNCHANGED <<locked_, sleepers>>

Unlock(t) ==
    /\ locked_' = FALSE
    /\ Goto(t, "holding", "idle")
    /\ NotifyOne
    /\ UNCHANGED deadline

DeadlinePasses(t) ==
    /\ deadline[t] = "pending"
    /\ deadline' = [deadline EXCEPT ![t] = "passed"]
    /\ UNCHANGED <<locked_, pc, sleepers>>

\* A wakeup without a signal: spurious, or the return of the timed wait.
Wakeup(t) == Unblock(t) /\ UNCHANGED <<locked_, pc, deadline>>

Next == \E t \in Threads :
    \/ Call(t) \/ TryLock(t) \/ Unlock(t)
    \/ Sleep(t) \/ Take(t) \/ GiveUp(t)
    \/ DeadlinePasses(t) \/ Wakeup(t)

\* A thread inside an attempt keeps running, deadlines pass, and the timed
\* wait returns after its deadline; a holder need not unlock.
Fairness == \A t \in Threads :
    /\ WF_vars(Sleep(t) \/ Take(t) \/ GiveUp(t))
    /\ WF_vars(DeadlinePasses(t))
    /\ WF_vars(deadline[t] = "passed" /\ Wakeup(t))

Spec == Init /\ [][Next]_vars
FairSpec == Spec /\ Fairness

------------------------------------------------------------------------------
\* A free mutex is not left beside sleepers: somebody is awake and will find
\* it free, although the signal of unlock() may go to a thread whose deadline
\* has just passed, and although a newcomer may take the mutex first.
NoLostWakeup == ~locked_ /\ sleepers # {} => \E t \in Threads : Awake(t)

\* sync::timed_mutex is a mutual exclusion lock whose timed attempts fail only
\* while somebody holds it, and a mutex that stays free is taken if somebody
\* waits for it.
Abstract == INSTANCE MutualExclusion WITH
    holders <- At("holding"),
    waiting <- At("waiting")

ImplementsMutex == Abstract!SpecTimed
==============================================================================
