--------------------------------- MODULE Fifo ---------------------------------
(***************************************************************************)
(* What the queues of sync/queue.hpp promise.  Items leave in the order in *)
(* which they entered, a push waits only while the queue is full, a pop    *)
(* only while it is empty, a pop leaves without an item only when the      *)
(* queue is closed and empty, and nobody waits for ever beside what it     *)
(* waits for.  Which of several waiting threads is served is left open.    *)
(*                                                                         *)
(* SimpleQueue, BlockingQueue and LockFreeQueue are shown to implement it. *)
(***************************************************************************)
EXTENDS Naturals, Sequences

CONSTANTS Threads,      \* the callers
          Items,        \* what is queued
          Capacity      \* most items the queue holds

VARIABLES items,        \* the content, oldest first
          pushing,      \* threads blocked in push()
          popping,      \* threads blocked in pop()
          closed        \* done() was called

vars == <<items, pushing, popping, closed>>

Init == items = <<>> /\ pushing = {} /\ popping = {} /\ closed = FALSE

StartPush(t) ==
    /\ pushing' = pushing \cup {t}
    /\ UNCHANGED <<items, popping, closed>>

StartPop(t) ==
    /\ popping' = popping \cup {t}
    /\ UNCHANGED <<items, pushing, closed>>

\* A thread may be served at once, without having waited.
Insert(t, item) ==
    /\ Len(items) < Capacity
    /\ items' = Append(items, item)
    /\ pushing' = pushing \ {t}
    /\ UNCHANGED <<popping, closed>>

Remove(t) ==
    /\ items # <<>>
    /\ items' = Tail(items)
    /\ popping' = popping \ {t}
    /\ UNCHANGED <<pushing, closed>>

LeaveEmptyHanded(t) ==
    /\ t \in popping
    /\ closed /\ items = <<>>
    /\ popping' = popping \ {t}
    /\ UNCHANGED <<items, pushing, closed>>

Close ==
    /\ closed' = TRUE
    /\ UNCHANGED <<items, pushing, popping>>

Next ==
    \/ Close
    \/ \E t \in Threads :
        \/ StartPush(t) \/ StartPop(t) \/ Remove(t) \/ LeaveEmptyHanded(t)
        \/ \E item \in Items : Insert(t, item)

Spec ==
    /\ Init /\ [][Next]_vars
    /\ WF_vars(\E t \in pushing, item \in Items : Insert(t, item))
    /\ WF_vars(\E t \in popping : Remove(t) \/ LeaveEmptyHanded(t))
==============================================================================
