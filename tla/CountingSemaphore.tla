-------------------------- MODULE CountingSemaphore --------------------------
(***************************************************************************)
(* What the semaphores of the library promise.  A release adds tokens, a   *)
(* waiting thread takes one token in one atomic step, a timed wait fails   *)
(* only while there is no token, and as long as there are tokens and       *)
(* waiting threads somebody is served.                                     *)
(*                                                                         *)
(* sync::semaphore and sync::fast_semaphore are shown to implement this    *)
(* module (Semaphore, FastSemaphore), and the locks built on semaphores    *)
(* use its actions.                                                        *)
(***************************************************************************)
EXTENDS Integers

CONSTANTS Threads,      \* the callers
          InitValue,    \* tokens at the start
          MaxValue      \* no release takes the value past this

VARIABLES value,        \* tokens to be had
          waiting       \* threads inside a wait

vars == <<value, waiting>>

Init == value = InitValue /\ waiting = {}

Release(n) ==
    /\ value + n <= MaxValue
    /\ value' = value + n
    /\ UNCHANGED waiting

Arrive(t) ==
    /\ t \notin waiting
    /\ waiting' = waiting \cup {t}
    /\ UNCHANGED value

Acquire(t) ==
    /\ t \in waiting
    /\ value > 0
    /\ value' = value - 1
    /\ waiting' = waiting \ {t}

\* A timed wait gives up, and only when there is nothing to take.
GiveUp(t) ==
    /\ t \in waiting
    /\ value = 0
    /\ waiting' = waiting \ {t}
    /\ UNCHANGED value

Next ==
    \/ \E n \in 0 .. MaxValue : Release(n)
    \/ \E t \in Threads : Arrive(t) \/ Acquire(t) \/ GiveUp(t)

\* Tokens and waiting threads do not stay side by side for ever.
Spec == Init /\ [][Next]_vars /\ WF_vars(\E t \in Threads : Acquire(t))
==============================================================================
