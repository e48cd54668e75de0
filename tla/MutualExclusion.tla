--------------------------- MODULE MutualExclusion ---------------------------
(***************************************************************************)
(* What an exclusive lock promises: one holder at a time, a release by the *)
(* holder only, and a free lock is not left alone for ever by the threads  *)
(* that wait for it.  It promises nothing about their order.               *)
(*                                                                         *)
(* FastMutex is shown to implement Spec, TimedMutex and                    *)
(* RecursiveTimedMutex SpecTimed, in which a timed attempt may fail;       *)
(* FastSharedMutex uses the actions.                                       *)
(***************************************************************************)
CONSTANT Threads        \* the callers

VARIABLES holders,      \* the threads that hold the lock
          waiting       \* the threads blocked in lock()

vars == <<holders, waiting>>

Init == holders = {} /\ waiting = {}

Arrive(t) ==
    /\ t \notin waiting
    /\ waiting' = waiting \cup {t}
    /\ UNCHANGED holders

\* A thread may find the lock free at once, without having waited.
Acquire(t) ==
    /\ holders = {}
    /\ holders' = {t}
    /\ waiting' = waiting \ {t}

Release(t) ==
    /\ t \in holders
    /\ holders' = holders \ {t}
    /\ UNCHANGED waiting

\* A timed attempt ends without the lock, which somebody holds.
GiveUp(t) ==
    /\ t \in waiting
    /\ holders # {}
    /\ waiting' = waiting \ {t}
    /\ UNCHANGED holders

Next == \E t \in Threads : Arrive(t) \/ Acquire(t) \/ Release(t)

NextTimed == Next \/ \E t \in Threads : GiveUp(t)

\* A free lock is given to a waiting thread or, meanwhile, to a newcomer.
Fairness == WF_vars(\E t \in Threads : t \in waiting /\ Acquire(t))

Spec == Init /\ [][Next]_vars /\ Fairness
SpecTimed == Init /\ [][NextTimed]_vars /\ Fairness
==============================================================================
