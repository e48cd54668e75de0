------------------------------- MODULE CondVar -------------------------------
(***************************************************************************)
(* The condition variable that every monitor of the library sleeps on:     *)
(* sync::condition_variable, a wrapper of the platform's own, or the one   *)
(* of the standard library in sync::semaphore and simple_blocking_queue.   *)
(*                                                                         *)
(* The state of a condition variable is the set of threads asleep on it.   *)
(* A thread goes to sleep in the step that releases its mutex, so Block is *)
(* always part of a critical section.  A thread that has left the set has  *)
(* not run yet: it still has to take the mutex again and to evaluate its   *)
(* predicate, which is an action of the monitor.                           *)
(***************************************************************************)
VARIABLE sleepers

\* wait: the mutex is released and the caller falls asleep in one step.
Block(t) == sleepers' = sleepers \cup {t}

\* notify_one: one sleeper, if there is any, is woken; a signal that finds
\* nobody asleep is lost.
NotifyOne ==
    \/ sleepers = {} /\ UNCHANGED sleepers
    \/ \E w \in sleepers : sleepers' = sleepers \ {w}

\* notify_all: everybody is woken.
NotifyAll == sleepers' = {}

\* The platform's wait may return without a signal, and the timed one returns
\* once its deadline has passed.
Unblock(t) == t \in sleepers /\ sleepers' = sleepers \ {t}
==============================================================================
