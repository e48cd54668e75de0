--------------------------- MODULE AutoResetEvent ---------------------------
(***************************************************************************)
(* What sync::auto_event promises: a signal sets the event, one waiting    *)
(* thread consumes it in one atomic step, a timed wait fails only while    *)
(* the event is not set, and an event that is set does not stay so for     *)
(* ever beside waiting threads.  Signals of an event that is set already   *)
(* are absorbed.                                                           *)
(*                                                                         *)
(* AutoEvent is shown to implement this module, and FastMutex uses it.     *)
(***************************************************************************)
CONSTANT Threads        \* the callers

VARIABLES set,          \* is the event set?
          waiting       \* threads inside a wait

vars == <<set, waiting>>

Init == set \in BOOLEAN /\ waiting = {}

Signal == set' = TRUE /\ UNCHANGED waiting

Arrive(t) ==
    /\ t \notin waiting
    /\ waiting' = waiting \cup {t}
    /\ UNCHANGED set

Consume(t) ==
    /\ t \in waiting
    /\ set
    /\ set' = FALSE
    /\ waiting' = waiting \ {t}

GiveUp(t) ==
    /\ t \in waiting
    /\ ~set
    /\ waiting' = waiting \ {t}
    /\ UNCHANGED set

Next == Signal \/ \E t \in Threads : Arrive(t) \/ Consume(t) \/ GiveUp(t)

Spec == Init /\ [][Next]_vars /\ WF_vars(\E t \in Threads : Consume(t))
==============================================================================
