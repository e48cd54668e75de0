----------------------------- MODULE SimpleQueue -----------------------------
(***************************************************************************)
(* sync::simple_blocking_queue (sync/queue.hpp): a queue, a flag, a mutex  *)
(* and a condition variable.                                               *)
(*                                                                         *)
(* A critical section of mutex_ is one action and the notification after   *)
(* it another, as in Semaphore.  try_push and try_pop that find the mutex  *)
(* taken, or nothing to pop, change nothing; when they succeed they are    *)
(* Push and TryPop.  The flag is declared as one_ and used as done_.       *)
(***************************************************************************)
EXTENDS Naturals, Sequences, FiniteSets, CondVar

CONSTANTS Threads,      \* the threads that use the queue
          Items,        \* what they push
          MaxLen        \* bound: nobody pushes beyond this length

VARIABLES queue_,       \* the content
          done_,        \* nobody will push any more
          pc            \* where each thread is in its call

vars == <<queue_, done_, pc, sleepers>>

TypeOK ==
    /\ queue_ \in Seq(Items) /\ Len(queue_) <= MaxLen
    /\ done_ \in BOOLEAN
    /\ pc \in [Threads -> {"idle", "popping", "notify_one", "notify_all"}]
    /\ sleepers \subseteq {t \in Threads : pc[t] = "popping"}

Init ==
    /\ queue_ = <<>>
    /\ done_ = FALSE
    /\ pc = [t \in Threads |-> "idle"]
    /\ sleepers = {}

Goto(t, from, to) == pc[t] = from /\ pc' = [pc EXCEPT ![t] = to]

Push(t, item) ==
    /\ Len(queue_) < MaxLen
    /\ queue_' = Append(queue_, item)
    /\ Goto(t, "idle", "notify_one")
    /\ UNCHANGED <<done_, sleepers>>

SignalReady(t) ==
    /\ Goto(t, "notify_one", "idle")
    /\ NotifyOne
    /\ UNCHANGED <<queue_, done_>>

Done(t) ==
    /\ done_' = TRUE
    /\ Goto(t, "idle", "notify_all")
    /\ UNCHANGED <<queue_, sleepers>>

SignalOneDone(t) ==                 \* mutant: done() notifies one
    /\ Goto(t, "notify_all", "idle")
    /\ NotifyOne
    /\ UNCHANGED <<queue_, done_>>

SignalDone(t) ==
    /\ Goto(t, "notify_all", "idle")
    /\ NotifyAll
    /\ UNCHANGED <<queue_, done_>>

Pop(t) ==
    /\ Goto(t, "idle", "popping")
    /\ UNCHANGED <<queue_, done_, sleepers>>

\* A thread inside the predicate loop of pop() that is not asleep.
Awake(t) == pc[t] = "popping" /\ t \notin sleepers

Sleep(t) ==
    /\ Awake(t)
    /\ queue_ = <<>> /\ ~done_
    /\ Block(t)
    /\ UNCHANGED <<queue_, done_, pc>>

Take(t) ==
    /\ Awake(t)
    /\ queue_ # <<>>
    /\ queue_' = Tail(queue_)
    /\ Goto(t, "popping", "idle")
    /\ UNCHANGED <<done_, sleepers>>

LeaveWhenDone(t) ==                 \* mutant: the queue is not looked at
    /\ Awake(t)
    /\ done_
    /\ Goto(t, "popping", "idle")
    /\ UNCHANGED <<queue_, done_, sleepers>>

\* The predicate holds and the queue is empty: an empty optional.
Leave(t) ==
    /\ Awake(t)
    /\ queue_ = <<>> /\ done_
    /\ Goto(t, "popping", "idle")
    /\ UNCHANGED <<queue_, done_, sleepers>>

TryPop(t) ==
    /\ pc[t] = "idle"
    /\ queue_ # <<>>
    /\ queue_' = Tail(queue_)
    /\ UNCHANGED <<done_, pc, sleepers>>

SpuriousWakeup(t) == Unblock(t) /\ UNCHANGED <<queue_, done_, pc>>

Next == \E t \in Threads :
    \/ (\E item \in Items : Push(t, item)) \/ SignalReady(t)
    \/ Pop(t) \/ Sleep(t) \/ Take(t) \/ Leave(t) \/ TryPop(t)
    \/ Done(t) \/ SignalDone(t)
    \/ SpuriousWakeup(t)

\* A thread inside a call keeps running; no caller has to call.
Fairness == \A t \in Threads :
    /\ WF_vars(SignalReady(t) \/ SignalDone(t))
    /\ WF_vars(Sleep(t) \/ Take(t) \/ Leave(t))

Spec == Init /\ [][Next]_vars
FairSpec == Spec /\ Fairness

------------------------------------------------------------------------------
\* No item is stranded: while somebody sleeps in pop(), every item has a
\* thread under way that will take it or wake a sleeper for it, and once the
\* queue is done the wakeup of all of them is still to come, although both
\* notifications follow the release of the mutex and a try_pop() may have
\* taken the item that a signal was for.
NoLostWakeup ==
    \/ sleepers = {}
    \/ \E t \in Threads : pc[t] = "notify_all"
    \/ /\ ~done_
       /\ Len(queue_) <=
            Cardinality({t \in Threads : pc[t] = "notify_one" \/ Awake(t)})

\* sync::simple_blocking_queue does what Fifo promises: order, no pop that
\* leaves empty-handed while there are items, and no pop that sleeps for ever
\* beside an item or after done().
Abstract == INSTANCE Fifo WITH
    items    <- queue_,
    Capacity <- MaxLen,
    pushing  <- {},
    popping  <- {t \in Threads : pc[t] = "popping"},
    closed   <- done_

ImplementsFifo == Abstract!Spec
==============================================================================
