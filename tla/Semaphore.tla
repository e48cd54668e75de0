------------------------------ MODULE Semaphore ------------------------------
(***************************************************************************)
(* sync::semaphore (sync/semaphore.hpp): a counter, a mutex and a          *)
(* condition variable.                                                     *)
(*                                                                         *)
(* A critical section of mutex_ is one action: the code reads and writes   *)
(* count_ nowhere else.  The notification of a post comes after the mutex  *)
(* is released, and is an action of its own: anything may happen between   *)
(* the two.  A thread at "waiting" is inside the predicate loop of a wait  *)
(* and, unless it is asleep, is about to take the mutex and look.          *)
(***************************************************************************)
EXTENDS Integers, FiniteSets, CondVar

CONSTANTS Threads,      \* the threads that call the semaphore
          InitCount,    \* argument of the constructor
          MaxCount      \* bound: no caller posts past the range of count_

VARIABLES count_,       \* the counter
          pc,           \* where each thread is in its call
          deadline      \* of each thread's timed wait

vars == <<count_, pc, deadline, sleepers>>

Labels == {"idle", "waiting", "notify_one", "notify_all"}
Deadlines == {"none", "pending", "passed"}

TypeOK ==
    /\ count_ \in 0 .. MaxCount
    /\ pc \in [Threads -> Labels]
    /\ deadline \in [Threads -> Deadlines]
    /\ sleepers \subseteq {t \in Threads : pc[t] = "waiting"}

Init ==
    /\ count_ = InitCount
    /\ pc = [t \in Threads |-> "idle"]
    /\ deadline = [t \in Threads |-> "none"]
    /\ sleepers = {}

Goto(t, from, to) == pc[t] = from /\ pc' = [pc EXCEPT ![t] = to]

------------------------------------------------------------------------------
(* post()                                                                  *)

Post(t) ==
    /\ count_ < MaxCount
    /\ count_' = count_ + 1
    /\ Goto(t, "idle", "notify_one")
    /\ UNCHANGED <<deadline, sleepers>>

SignalOne(t) ==
    /\ Goto(t, "notify_one", "idle")
    /\ NotifyOne
    /\ UNCHANGED <<count_, deadline>>

(* post(count)                                                             *)

PostManyNotifyingOne(t, n) ==       \* mutant: the wrong notification
    /\ count_ + n <= MaxCount
    /\ count_' = count_ + n
    /\ Goto(t, "idle", "notify_one")
    /\ UNCHANGED <<deadline, sleepers>>

PostMany(t, n) ==
    /\ count_ + n <= MaxCount
    /\ count_' = count_ + n
    /\ Goto(t, "idle", "notify_all")
    /\ UNCHANGED <<deadline, sleepers>>

SignalAll(t) ==
    /\ Goto(t, "notify_all", "idle")
    /\ NotifyAll
    /\ UNCHANGED <<count_, deadline>>

------------------------------------------------------------------------------
(* wait(), wait_for(d) and wait_until(d)                                   *)

Wait(t) ==
    /\ Goto(t, "idle", "waiting")
    /\ UNCHANGED <<count_, deadline, sleepers>>

WaitUntil(t) ==
    /\ Goto(t, "idle", "waiting")
    /\ deadline' = [deadline EXCEPT ![t] = "pending"]
    /\ UNCHANGED <<count_, sleepers>>

\* A thread inside the predicate loop that is not asleep.
Awake(t) == pc[t] = "waiting" /\ t \notin sleepers

TakeUnchecked(t) ==                 \* mutant: no look after a wakeup
    /\ Awake(t)
    /\ count_' = count_ - 1
    /\ Goto(t, "waiting", "idle")
    /\ deadline' = [deadline EXCEPT ![t] = "none"]
    /\ UNCHANGED sleepers

\* The predicate holds: the call returns with a token.
Take(t) ==
    /\ Awake(t)
    /\ count_ # 0
    /\ count_' = count_ - 1
    /\ Goto(t, "waiting", "idle")
    /\ deadline' = [deadline EXCEPT ![t] = "none"]
    /\ UNCHANGED sleepers

SleepPastDeadline(t) ==             \* mutant: the timeout is not looked at
    /\ Awake(t)
    /\ count_ = 0
    /\ Block(t)
    /\ UNCHANGED <<count_, pc, deadline>>

Sleep(t) ==
    /\ Awake(t)
    /\ count_ = 0
    /\ deadline[t] # "passed"
    /\ Block(t)
    /\ UNCHANGED <<count_, pc, deadline>>

GiveUpUnchecked(t) ==               \* mutant: a timeout does not look again
    /\ Awake(t)
    /\ deadline[t] = "passed"
    /\ Goto(t, "waiting", "idle")
    /\ deadline' = [deadline EXCEPT ![t] = "none"]
    /\ UNCHANGED <<count_, sleepers>>

\* The deadline has passed and the predicate is still false.
GiveUp(t) ==
    /\ Awake(t)
    /\ count_ = 0
    /\ deadline[t] = "passed"
    /\ Goto(t, "waiting", "idle")
    /\ deadline' = [deadline EXCEPT ![t] = "none"]
    /\ UNCHANGED <<count_, sleepers>>

------------------------------------------------------------------------------
(* The platform                                                            *)

DeadlinePasses(t) ==
    /\ deadline[t] = "pending"
    /\ deadline' = [deadline EXCEPT ![t] = "passed"]
    /\ UNCHANGED <<count_, pc, sleepers>>

\* A wakeup without a signal: spurious, or the return of the timed wait.
Wakeup(t) ==
    /\ Unblock(t)
    /\ UNCHANGED <<count_, pc, deadline>>

Next == \E t \in Threads :
    \/ Post(t) \/ SignalOne(t)
    \/ (\E n \in 0 .. MaxCount : PostMany(t, n)) \/ SignalAll(t)
    \/ Wait(t) \/ WaitUntil(t)
    \/ Take(t) \/ Sleep(t) \/ GiveUp(t)
    \/ DeadlinePasses(t) \/ Wakeup(t)

\* A thread inside a call keeps running, deadlines pass, and the timed wait
\* returns after its deadline.  Callers need not call, and nothing is assumed
\* of spurious wakeups.
Fairness == \A t \in Threads :
    /\ WF_vars(SignalOne(t) \/ SignalAll(t))
    /\ WF_vars(Take(t) \/ Sleep(t) \/ GiveUp(t))
    /\ WF_vars(DeadlinePasses(t))
    /\ WF_vars(deadline[t] = "passed" /\ Wakeup(t))

Spec == Init /\ [][Next]_vars
FairSpec == Spec /\ Fairness

------------------------------------------------------------------------------
(* Properties                                                              *)

\* The threads that will look at the counter, or make another thread look.
Stirring == {t \in Threads : pc[t] = "notify_one" \/ Awake(t)}

\* No token is stranded: while somebody sleeps, every token of count_ has a
\* thread under way that will take it or wake a sleeper for it, although a
\* post notifies only after it has released the mutex and although a signal
\* may go to a thread that finds the token gone or whose deadline passed.
NoLostWakeup ==
    \/ sleepers = {}
    \/ \E t \in Threads : pc[t] = "notify_all"
    \/ count_ <= Cardinality(Stirring)

\* sync::semaphore does what CountingSemaphore promises: a wait takes exactly
\* one token that was there, a timed wait fails only when there is none, and
\* tokens and waiting threads do not stay side by side for ever.
Abstract == INSTANCE CountingSemaphore WITH
    InitValue <- InitCount,
    MaxValue  <- MaxCount,
    value     <- count_,
    waiting   <- {t \in Threads : pc[t] = "waiting"}

ImplementsSemaphore == Abstract!Spec

\* wait_for and wait_until return, whatever the other threads do: the deadline
\* ends the wait even if no post ever comes and others take every token.
TimedWaitReturns ==
    \A t \in Threads : deadline[t] # "none" ~> deadline[t] = "none"
==============================================================================
