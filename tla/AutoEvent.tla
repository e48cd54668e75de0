------------------------------ MODULE AutoEvent ------------------------------
(***************************************************************************)
(* sync::auto_event (sync/event.hpp): a flag, a mutex and a condition      *)
(* variable; the thread that finds the flag set resets it.                 *)
(*                                                                         *)
(* As in Semaphore, a critical section of mutex_ is one action and the     *)
(* notification of signal(), which follows it, is another.                 *)
(***************************************************************************)
EXTENDS CondVar

CONSTANT Threads        \* the threads that use the event

VARIABLES signaled_,    \* the flag
          pc,           \* where each thread is in its call
          deadline      \* of each thread's timed wait

vars == <<signaled_, pc, deadline, sleepers>>

TypeOK ==
    /\ signaled_ \in BOOLEAN
    /\ pc \in [Threads -> {"idle", "waiting", "notify_one"}]
    /\ deadline \in [Threads -> {"none", "pending", "passed"}]
    /\ sleepers \subseteq {t \in Threads : pc[t] = "waiting"}

Init ==
    /\ signaled_ \in BOOLEAN        \* the argument of the constructor
    /\ pc = [t \in Threads |-> "idle"]
    /\ deadline = [t \in Threads |-> "none"]
    /\ sleepers = {}

Goto(t, from, to) == pc[t] = from /\ pc' = [pc EXCEPT ![t] = to]

------------------------------------------------------------------------------
(* signal()                                                                *)

Signal(t) ==
    /\ signaled_' = TRUE
    /\ Goto(t, "idle", "notify_one")
    /\ UNCHANGED <<deadline, sleepers>>

SignalAwake(t) ==
    /\ Goto(t, "notify_one", "idle")
    /\ NotifyOne
    /\ UNCHANGED <<signaled_, deadline>>

------------------------------------------------------------------------------
(* wait(), wait_for(d) and wait_until(d)                                   *)

Wait(t) ==
    /\ Goto(t, "idle", "waiting")
    /\ UNCHANGED <<signaled_, deadline, sleepers>>

WaitUntil(t) ==
    /\ Goto(t, "idle", "waiting")
    /\ deadline' = [deadline EXCEPT ![t] = "pending"]
    /\ UNCHANGED <<signaled_, sleepers>>

\* A thread inside the predicate loop that is not asleep.
Awake(t) == pc[t] = "waiting" /\ t \notin sleepers

Consume(t) ==
    /\ Awake(t)
    /\ signaled_
    /\ signaled_' = FALSE
    /\ Goto(t, "waiting", "idle")
    /\ deadline' = [deadline EXCEPT ![t] = "none"]
    /\ UNCHANGED sleepers

SleepUnchecked(t) ==                \* mutant: a wait without the predicate
    /\ Awake(t)
    /\ deadline[t] # "passed"
    /\ Block(t)
    /\ UNCHANGED <<signaled_, pc, deadline>>

Sleep(t) ==
    /\ Awake(t)
    /\ ~signaled_
    /\ deadline[t] # "passed"
    /\ Block(t)
    /\ UNCHANGED <<signaled_, pc, deadline>>

GiveUpSignaled(t) ==                \* mutant: a timeout does not look again
    /\ Awake(t)
    /\ deadline[t] = "passed"
    /\ Goto(t, "waiting", "idle")
    /\ deadline' = [deadline EXCEPT ![t] = "none"]
    /\ UNCHANGED <<signaled_, sleepers>>

\* The deadline has passed and the flag is still not set.
GiveUp(t) ==
    /\ Awake(t)
    /\ ~signaled_
    /\ deadline[t] = "passed"
    /\ Goto(t, "waiting", "idle")
    /\ deadline' = [deadline EXCEPT ![t] = "none"]
    /\ UNCHANGED <<signaled_, sleepers>>

------------------------------------------------------------------------------
(* The platform                                                            *)

DeadlinePasses(t) ==
    /\ deadline[t] = "pending"
    /\ deadline' = [deadline EXCEPT ![t] = "passed"]
    /\ UNCHANGED <<signaled_, pc, sleepers>>

\* A wakeup without a signal: spurious, or the return of the timed wait.
Wakeup(t) ==
    /\ Unblock(t)
    /\ UNCHANGED <<signaled_, pc, deadline>>

Next == \E t \in Threads :
    \/ Signal(t) \/ SignalAwake(t)
    \/ Wait(t) \/ WaitUntil(t)
    \/ Consume(t) \/ Sleep(t) \/ GiveUp(t)
    \/ DeadlinePasses(t) \/ Wakeup(t)

\* A thread inside a call keeps running, deadlines pass, and the timed wait
\* returns after its deadline; no caller has to call.
Fairness == \A t \in Threads :
    /\ WF_vars(SignalAwake(t))
    /\ WF_vars(Consume(t) \/ Sleep(t) \/ GiveUp(t))
    /\ WF_vars(DeadlinePasses(t))
    /\ WF_vars(deadline[t] = "passed" /\ Wakeup(t))

Spec == Init /\ [][Next]_vars
FairSpec == Spec /\ Fairness

------------------------------------------------------------------------------
(* Properties                                                              *)

\* No signal is lost on threads that sleep: while the event is set beside a
\* sleeper, a signalling thread is about to wake one or a waiter is awake and
\* will find the event set, although the woken thread may lose the flag to a
\* newcomer, or be one whose deadline has just passed.
NoLostSignal ==
    signaled_ /\ sleepers # {} =>
        \E t \in Threads : pc[t] = "notify_one" \/ Awake(t)

\* sync::auto_event does what AutoResetEvent promises: every signal lets at
\* most one thread through, a timed wait fails only while the event is not
\* set, and an event that stays set is consumed if somebody waits.
Abstract == INSTANCE AutoResetEvent WITH
    set     <- signaled_,
    waiting <- {t \in Threads : pc[t] = "waiting"}

ImplementsEvent == Abstract!Spec
==============================================================================
