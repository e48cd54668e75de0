----------------------------- MODULE ManualEvent -----------------------------
(***************************************************************************)
(* sync::manual_event (sync/event.hpp): a gate.  signal() opens it and     *)
(* reset() shuts it; wait() passes while it is open.                       *)
(*                                                                         *)
(* A waiter that was woken for a signal still has to find the gate open    *)
(* when it gets the mutex: a reset in between sends it back to sleep.      *)
(***************************************************************************)
EXTENDS CondVar

CONSTANT Threads        \* the threads that use the event

VARIABLES signaled_,    \* the flag
          pc,           \* where each thread is in its call
          deadline      \* of each thread's timed wait

vars == <<signaled_, pc, deadline, sleepers>>

TypeOK ==
    /\ signaled_ \in BOOLEAN
    /\ pc \in [Threads -> {"idle", "waiting", "notify_all"}]
    /\ deadline \in [Threads -> {"none", "pending", "passed"}]
    /\ sleepers \subseteq {t \in Threads : pc[t] = "waiting"}

Init ==
    /\ signaled_ \in BOOLEAN        \* the argument of the constructor
    /\ pc = [t \in Threads |-> "idle"]
    /\ deadline = [t \in Threads |-> "none"]
    /\ sleepers = {}

Goto(t, from, to) == pc[t] = from /\ pc' = [pc EXCEPT ![t] = to]

------------------------------------------------------------------------------
(* signal() and reset()                                                    *)

Signal(t) ==
    /\ signaled_' = TRUE
    /\ Goto(t, "idle", "notify_all")
    /\ UNCHANGED <<deadline, sleepers>>

SignalOneAwake(t) ==                \* mutant: notify_one for notify_all
    /\ Goto(t, "notify_all", "idle")
    /\ NotifyOne
    /\ UNCHANGED <<signaled_, deadline>>

SignalAwake(t) ==
    /\ Goto(t, "notify_all", "idle")
    /\ NotifyAll
    /\ UNCHANGED <<signaled_, deadline>>

Reset(t) ==
    /\ pc[t] = "idle"
    /\ signaled_' = FALSE
    /\ UNCHANGED <<pc, deadline, sleepers>>

------------------------------------------------------------------------------
(* wait(), wait_for(d) and wait_until(d)                                   *)

Wait(t) ==
    /\ Goto(t, "idle", "waiting")
    /\ UNCHANGED <<signaled_, deadline, sleepers>>

WaitUntil(t) ==
    /\ Goto(t, "idle", "waiting")
    /\ deadline' = [deadline EXCEPT ![t] = "pending"]
    /\ UNCHANGED <<signaled_, sleepers>>

\* A thread inside the predicate loop that is not asleep.
Awake(t) == pc[t] = "waiting" /\ t \notin sleepers

Pass(t) ==
    /\ Awake(t)
    /\ signaled_
    /\ Goto(t, "waiting", "idle")
    /\ deadline' = [deadline EXCEPT ![t] = "none"]
    /\ UNCHANGED <<signaled_, sleepers>>

Sleep(t) ==
    /\ Awake(t)
    /\ ~signaled_
    /\ deadline[t] # "passed"
    /\ Block(t)
    /\ UNCHANGED <<signaled_, pc, deadline>>

\* The deadline has passed and the gate is still shut.
GiveUp(t) ==
    /\ Awake(t)
    /\ ~signaled_
    /\ deadline[t] = "passed"
    /\ Goto(t, "waiting", "idle")
    /\ deadline' = [deadline EXCEPT ![t] = "none"]
    /\ UNCHANGED <<signaled_, sleepers>>

------------------------------------------------------------------------------
(* The platform                                                            *)

DeadlinePasses(t) ==
    /\ deadline[t] = "pending"
    /\ deadline' = [deadline EXCEPT ![t] = "passed"]
    /\ UNCHANGED <<signaled_, pc, sleepers>>

\* A wakeup without a signal: spurious, or the return of the timed wait.
Wakeup(t) ==
    /\ Unblock(t)
    /\ UNCHANGED <<signaled_, pc, deadline>>

Next == \E t \in Threads :
    \/ Signal(t) \/ SignalAwake(t) \/ Reset(t)
    \/ Wait(t) \/ WaitUntil(t)
    \/ Pass(t) \/ Sleep(t) \/ GiveUp(t)
    \/ DeadlinePasses(t) \/ Wakeup(t)

\* A thread inside a call keeps running, deadlines pass, and the timed wait
\* returns after its deadline; no caller has to call.
Fairness == \A t \in Threads :
    /\ WF_vars(SignalAwake(t))
    /\ WF_vars(Pass(t) \/ Sleep(t) \/ GiveUp(t))
    /\ WF_vars(DeadlinePasses(t))
    /\ WF_vars(deadline[t] = "passed" /\ Wakeup(t))

Spec == Init /\ [][Next]_vars
FairSpec == Spec /\ Fairness

------------------------------------------------------------------------------
(* Properties                                                              *)

\* Nobody sleeps before an open gate, except until the notification that is
\* on its way: the sleepers of an earlier signal, overtaken by a reset and a
\* second signal, are not forgotten.
NobodyShutOut ==
    signaled_ /\ sleepers # {} => \E t \in Threads : pc[t] = "notify_all"

\* A gate that stays open lets every waiter through.
OpenGatePassesAll ==
    <>[]signaled_ => \A t \in Threads : pc[t] = "waiting" ~> pc[t] = "idle"
==============================================================================
