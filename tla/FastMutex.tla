------------------------------ MODULE FastMutex ------------------------------
(***************************************************************************)
(* sync::fast_mutex (sync/mutex_extra.hpp): an atomic word and an          *)
(* auto_event.                                                             *)
(*                                                                         *)
(* state_ is 0 when the lock is free, 1 when it is held, 2 when it is held *)
(* and somebody may wait for the event.  Every exchange is a step of its   *)
(* own.  The first exchange of lock() stores 1 even over a 2: for a while  *)
(* the word does not tell of the waiting threads.                          *)
(***************************************************************************)
EXTENDS Naturals

CONSTANT Threads        \* the threads that use the lock

VARIABLES state_,       \* the atomic word
          event_,       \* is the auto_event set?
          pc            \* where each thread is in its call

vars == <<state_, event_, pc>>

At(label) == {t \in Threads : pc[t] = label}

\* The event; a thread at "event_wait" is inside event_.wait().
Event == INSTANCE AutoResetEvent WITH
    set     <- event_,
    waiting <- At("event_wait")

TypeOK ==
    /\ state_ \in 0 .. 2
    /\ event_ \in BOOLEAN
    /\ pc \in [Threads ->
                {"idle", "contend", "event_wait", "held", "signal"}]

Init ==
    /\ state_ = 0
    /\ event_ = FALSE
    /\ pc = [t \in Threads |-> "idle"]

Goto(t, from, to) == pc[t] = from /\ pc' = [pc EXCEPT ![t] = to]

------------------------------------------------------------------------------
(* lock() and try_lock()                                                   *)

LockByIncrement(t) ==               \* mutant: a fetch_add for the exchange
    /\ state_' = state_ + 1
    /\ Goto(t, "idle", IF state_ = 0 THEN "held" ELSE "contend")
    /\ UNCHANGED event_

\* state_.exchange(1)
Lock(t) ==
    /\ state_' = 1
    /\ Goto(t, "idle", IF state_ = 0 THEN "held" ELSE "contend")
    /\ UNCHANGED event_

ContendQuietly(t) ==                \* mutant: the loop stores 1
    /\ state_' = 1
    /\ IF state_ = 0
        THEN Goto(t, "contend", "held") /\ UNCHANGED event_
        ELSE Goto(t, "contend", "event_wait") /\ Event!Arrive(t)

\* state_.exchange(2), the condition of the loop
Contend(t) ==
    /\ state_' = 2
    /\ IF state_ = 0
        THEN Goto(t, "contend", "held") /\ UNCHANGED event_
        ELSE Goto(t, "contend", "event_wait") /\ Event!Arrive(t)

TakeOnWakeup(t) ==                  \* mutant: no second look after the wakeup
    /\ Goto(t, "event_wait", "held")
    /\ Event!Consume(t)
    /\ UNCHANGED state_

\* event_.wait() returns.
Awaken(t) ==
    /\ Goto(t, "event_wait", "contend")
    /\ Event!Consume(t)
    /\ UNCHANGED state_

\* A weak compare-and-swap may also fail for no reason, which changes nothing.
TryLock(t) ==
    /\ state_ = 0
    /\ state_' = 1
    /\ Goto(t, "idle", "held")
    /\ UNCHANGED event_

------------------------------------------------------------------------------
(* unlock()                                                                *)

UnlockByDecrement(t) ==             \* mutant: 2 is decremented, not cleared
    /\ state_' = state_ - 1
    /\ Goto(t, "held", IF state_ = 2 THEN "signal" ELSE "idle")
    /\ UNCHANGED event_

\* state_.exchange(0)
Unlock(t) ==
    /\ state_' = 0
    /\ Goto(t, "held", IF state_ = 2 THEN "signal" ELSE "idle")
    /\ UNCHANGED event_

SignalEvent(t) ==
    /\ Goto(t, "signal", "idle")
    /\ Event!Signal
    /\ UNCHANGED state_

Next == \E t \in Threads :
    \/ Lock(t) \/ Contend(t) \/ Awaken(t) \/ TryLock(t)
    \/ Unlock(t) \/ SignalEvent(t)

\* A thread inside lock() or unlock() keeps running, and a set event lets some
\* waiting thread go on (AutoEvent, ImplementsEvent).  A holder need not
\* unlock.
Fairness ==
    /\ \A t \in Threads : WF_vars(Contend(t)) /\ WF_vars(SignalEvent(t))
    /\ WF_vars(\E t \in Threads : Awaken(t))

Spec == Init /\ [][Next]_vars
FairSpec == Spec /\ Fairness

------------------------------------------------------------------------------
(* Properties                                                              *)

\* The word is 0 exactly while nobody holds the lock, and one thread at most
\* does, although a failed first exchange overwrites the word of the holder.
ExclusiveWord ==
    /\ state_ = 0 <=> At("held") = {}
    /\ \A t, u \in At("held") : t = u

\* Nobody waits for the event for nothing: the word says so, or the event is
\* set, or a thread is about to mark the word or to signal.
NoLostWakeup ==
    At("event_wait") # {} =>
        \/ state_ = 2
        \/ event_
        \/ At("contend") # {}
        \/ At("signal") # {}

\* sync::fast_mutex is an exclusive lock, and one that is free and waited for
\* is taken again.
Abstract == INSTANCE MutualExclusion WITH
    holders <- At("held"),
    waiting <- At("contend") \cup At("event_wait")

ImplementsMutex == Abstract!Spec
==============================================================================
