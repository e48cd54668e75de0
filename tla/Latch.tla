-------------------------------- MODULE Latch --------------------------------
(***************************************************************************)
(* sync::latch (stdlib/latch.hpp): an atomic count, and a mutex and a      *)
(* condition variable to wait with.                                        *)
(*                                                                         *)
(* The count changes under no mutex, so the look at it and the sleep that  *)
(* follows are two steps although both are done with mtx_ held.  Only a    *)
(* thread that finds the count at 0 before it counts down notifies.        *)
(***************************************************************************)
EXTENDS Integers, FiniteSets, CondVar

CONSTANTS Threads,      \* each counts down at most once
          n             \* argument of the constructor

VARIABLES count_,
          pc,           \* where each thread is in its call
          counted,      \* history: the threads that have counted down
          passed        \* history: those whose wait has returned

vars == <<count_, pc, counted, passed, sleepers>>

TypeOK ==
    /\ count_ \in n - Cardinality(Threads) .. n
    /\ pc \in [Threads -> {"idle", "looking", "about_to_sleep", "notify_all"}]
    /\ counted \subseteq Threads /\ passed \subseteq Threads
    /\ sleepers \subseteq {t \in Threads : pc[t] = "looking"}

Init ==
    /\ count_ = n
    /\ pc = [t \in Threads |-> "idle"]
    /\ counted = {} /\ passed = {} /\ sleepers = {}

Goto(t, from, to) == pc[t] = from /\ pc' = [pc EXCEPT ![t] = to]

\* The old value is compared: this is one arrival after the last one.
CountDownTooLate(t) ==
    /\ t \notin counted
    /\ count_ = 0
    /\ count_' = count_ - 1
    /\ counted' = counted \cup {t}
    /\ Goto(t, "idle", "notify_all")
    /\ UNCHANGED <<passed, sleepers>>

CountDownAndWait(t) ==
    /\ t \notin counted
    /\ count_ # 0
    /\ count_' = count_ - 1
    /\ counted' = counted \cup {t}
    /\ Goto(t, "idle", "looking")
    /\ UNCHANGED <<passed, sleepers>>

\* count_down(), whatever its argument.
CountDown(t) ==
    /\ t \notin counted
    /\ pc[t] = "idle"
    /\ count_' = count_ - 1
    /\ counted' = counted \cup {t}
    /\ UNCHANGED <<pc, passed, sleepers>>

Wait(t) ==
    /\ Goto(t, "idle", "looking")
    /\ UNCHANGED <<count_, counted, passed, sleepers>>

\* is_ready()
Pass(t) ==
    /\ t \notin sleepers
    /\ count_ = 0
    /\ Goto(t, "looking", "idle")
    /\ passed' = passed \cup {t}
    /\ UNCHANGED <<count_, counted, sleepers>>

\* From this look to the sleep the thread holds mtx_.
FindNotReady(t) ==
    /\ t \notin sleepers
    /\ count_ # 0
    /\ \A u \in Threads : pc[u] # "about_to_sleep"
    /\ Goto(t, "looking", "about_to_sleep")
    /\ UNCHANGED <<count_, counted, passed, sleepers>>

Sleep(t) ==
    /\ Goto(t, "about_to_sleep", "looking")
    /\ Block(t)
    /\ UNCHANGED <<count_, counted, passed>>

Awaken(t) ==
    /\ Goto(t, "notify_all", "idle")
    /\ NotifyAll
    /\ passed' = passed \cup {t}
    /\ UNCHANGED <<count_, counted>>

SpuriousWakeup(t) ==
    /\ Unblock(t)
    /\ UNCHANGED <<count_, pc, counted, passed>>

Next == \E t \in Threads :
    \/ CountDownAndWait(t) \/ CountDownTooLate(t) \/ CountDown(t) \/ Wait(t)
    \/ Pass(t) \/ FindNotReady(t) \/ Sleep(t)
    \/ Awaken(t) \/ SpuriousWakeup(t)

\* A thread inside a call keeps running.
Fairness == \A t \in Threads :
    WF_vars(Pass(t) \/ FindNotReady(t) \/ Sleep(t) \/ Awaken(t))

Spec == Init /\ [][Next]_vars
FairSpec == Spec /\ Fairness

------------------------------------------------------------------------------
\* Nobody passes before n threads have counted down, whatever wakes it up and
\* however the counts and the looks interleave.
NoEarlyPass == passed # {} => Cardinality(counted) >= n

\* While the count stays at 0, a thread that is not asleep, nor past its look,
\* passes.  Nothing more holds: the arrival that brings the count to 0 notifies
\* nobody, so a thread that sleeps by then is left to spurious wakeups.
AwakePasses == \A t \in Threads :
    pc[t] = "looking" /\ t \notin sleepers /\ count_ = 0
        ~> (t \in passed \/ count_ # 0)
==============================================================================
