----------------------------- MODULE SharedMutex -----------------------------
(***************************************************************************)
(* sync::shared_mutex_base (stdlib/shared_mutex.hpp), with the timed       *)
(* attempts of shared_timed_mutex: a mutex, a word and two gates.          *)
(*                                                                         *)
(* The word holds the bit write_entered_ and the number of readers.  At    *)
(* gate1_ wait those who find a writer entered, or the number of readers   *)
(* at its limit; at gate2_ waits the writer that has entered and sees the  *)
(* readers off.  A critical section of mtx_ is one action; notifications   *)
(* are sent inside.  A thread at a gate that is not asleep there is about  *)
(* to take mtx_ and look again.                                            *)
(***************************************************************************)
EXTENDS Integers, FiniteSets

CONSTANTS Threads,      \* the threads that use the lock
          MaxReaders    \* n_readers_

ASSUME MaxReadersAssumption == MaxReaders \in Nat \ {0}

VARIABLES write_entered_, readers,      \* the parts of state_
          gate1_, gate2_,               \* the threads asleep at the gates
          pc,                           \* where each thread is in its call
          deadline                      \* of each thread's timed attempt

vars == <<write_entered_, readers, gate1_, gate2_, pc, deadline>>

Gate1 == INSTANCE CondVar WITH sleepers <- gate1_
Gate2 == INSTANCE CondVar WITH sleepers <- gate2_

At(label) == {t \in Threads : pc[t] = label}

TypeOK ==
    /\ write_entered_ \in BOOLEAN
    /\ readers \in 0 .. MaxReaders
    /\ pc \in [Threads ->
                {"idle", "reading", "writing",
                 "shared_gate1", "lock_gate1", "lock_gate2"}]
    /\ deadline \in [Threads -> {"none", "pending", "passed"}]
    /\ gate1_ \subseteq At("shared_gate1") \cup At("lock_gate1")
    /\ gate2_ \subseteq At("lock_gate2")

Init ==
    /\ write_entered_ = FALSE
    /\ readers = 0
    /\ gate1_ = {}
    /\ gate2_ = {}
    /\ pc = [t \in Threads |-> "idle"]
    /\ deadline = [t \in Threads |-> "none"]

Become(t, label) == pc' = [pc EXCEPT ![t] = label]
NoDeadline(t) == deadline' = [deadline EXCEPT ![t] = "none"]

\* A call begins, with or without a deadline.
Call(t) ==
    /\ pc[t] = "idle"
    /\ \E d \in {"none", "pending"} : deadline' = [deadline EXCEPT ![t] = d]

\* A thread that has a gate to pass and is not asleep there.
Awake(t, label) == pc[t] = label /\ t \notin gate1_ \cup gate2_

------------------------------------------------------------------------------
(* lock(), try_lock() and try_lock_until()                                 *)

\* write_entered_ is free: take it, and the lock too if there are no readers.
Enter(t) ==
    /\ ~write_entered_
    /\ write_entered_' = TRUE
    /\ IF readers = 0
        THEN Become(t, "writing") /\ UNCHANGED gate2_
        ELSE Become(t, "lock_gate2") /\ Gate2!Block(t)
    /\ UNCHANGED <<readers, gate1_>>

Lock(t) ==
    /\ Call(t)
    /\ \/ Enter(t)
       \/ /\ write_entered_
          /\ Become(t, "lock_gate1") /\ Gate1!Block(t)
          /\ UNCHANGED <<write_entered_, readers, gate2_>>

TryLock(t) ==
    /\ pc[t] = "idle"
    /\ ~write_entered_ /\ readers = 0
    /\ write_entered_' = TRUE
    /\ Become(t, "writing")
    /\ UNCHANGED <<readers, gate1_, gate2_, deadline>>

\* Back from gate1_.
LockEnter(t) ==
    /\ Awake(t, "lock_gate1")
    /\ Enter(t)
    /\ UNCHANGED deadline

LockSleep1(t) ==
    /\ Awake(t, "lock_gate1")
    /\ write_entered_ /\ deadline[t] # "passed"
    /\ Gate1!Block(t)
    /\ UNCHANGED <<write_entered_, readers, gate2_, pc, deadline>>

LockGiveUp1(t) ==
    /\ Awake(t, "lock_gate1")
    /\ write_entered_ /\ deadline[t] = "passed"
    /\ Become(t, "idle") /\ NoDeadline(t)
    /\ UNCHANGED <<write_entered_, readers, gate1_, gate2_>>

\* Back from gate2_.
LockTake(t) ==
    /\ Awake(t, "lock_gate2")
    /\ readers = 0
    /\ Become(t, "writing") /\ NoDeadline(t)
    /\ UNCHANGED <<write_entered_, readers, gate1_, gate2_>>

LockSleep2(t) ==
    /\ Awake(t, "lock_gate2")
    /\ readers # 0 /\ deadline[t] # "passed"
    /\ Gate2!Block(t)
    /\ UNCHANGED <<write_entered_, readers, gate1_, pc, deadline>>

LockGiveUp2Quietly(t) ==            \* mutant: no notification on giving up
    /\ Awake(t, "lock_gate2")
    /\ readers # 0 /\ deadline[t] = "passed"
    /\ write_entered_' = FALSE
    /\ Become(t, "idle") /\ NoDeadline(t)
    /\ UNCHANGED <<readers, gate1_, gate2_>>

\* The attempt takes back its claim, and those it kept out hear of it.
LockGiveUp2(t) ==
    /\ Awake(t, "lock_gate2")
    /\ readers # 0 /\ deadline[t] = "passed"
    /\ write_entered_' = FALSE
    /\ Gate1!NotifyAll
    /\ Become(t, "idle") /\ NoDeadline(t)
    /\ UNCHANGED <<readers, gate2_>>

Unlock(t) ==
    /\ pc[t] = "writing"
    /\ write_entered_' = FALSE /\ readers' = 0
    /\ Gate1!NotifyAll
    /\ Become(t, "idle") /\ NoDeadline(t)
    /\ UNCHANGED gate2_

------------------------------------------------------------------------------
(* lock_shared(), try_lock_shared() and try_lock_shared_until()            *)

SharedShut == write_entered_ \/ readers = MaxReaders

EnterShared(t) ==
    /\ ~SharedShut
    /\ readers' = readers + 1
    /\ Become(t, "reading")
    /\ UNCHANGED <<write_entered_, gate1_, gate2_>>

\* try_lock_shared() is the first alternative, or changes nothing.
LockShared(t) ==
    /\ Call(t)
    /\ \/ EnterShared(t)
       \/ /\ SharedShut
          /\ Become(t, "shared_gate1") /\ Gate1!Block(t)
          /\ UNCHANGED <<write_entered_, readers, gate2_>>

SharedEnter(t) ==
    /\ Awake(t, "shared_gate1")
    /\ EnterShared(t)
    /\ NoDeadline(t)

SharedSleep(t) ==
    /\ Awake(t, "shared_gate1")
    /\ SharedShut /\ deadline[t] # "passed"
    /\ Gate1!Block(t)
    /\ UNCHANGED <<write_entered_, readers, gate2_, pc, deadline>>

SharedGiveUp(t) ==
    /\ Awake(t, "shared_gate1")
    /\ SharedShut /\ deadline[t] = "passed"
    /\ Become(t, "idle") /\ NoDeadline(t)
    /\ UNCHANGED <<write_entered_, readers, gate1_, gate2_>>

UnlockSharedGate1(t) ==             \* mutant: the wrong gate
    /\ pc[t] = "reading"
    /\ readers' = readers - 1
    /\ Gate1!NotifyOne
    /\ Become(t, "idle") /\ NoDeadline(t)
    /\ UNCHANGED <<write_entered_, gate2_>>

UnlockShared(t) ==
    /\ pc[t] = "reading"
    /\ readers' = readers - 1
    /\ IF write_entered_
        THEN /\ IF readers' = 0 THEN Gate2!NotifyOne ELSE UNCHANGED gate2_
             /\ UNCHANGED gate1_
        ELSE /\ IF readers' = MaxReaders - 1
                    THEN Gate1!NotifyOne ELSE UNCHANGED gate1_
             /\ UNCHANGED gate2_
    /\ Become(t, "idle") /\ NoDeadline(t)
    /\ UNCHANGED write_entered_

------------------------------------------------------------------------------
(* The platform                                                            *)

DeadlinePasses(t) ==
    /\ deadline[t] = "pending"
    /\ deadline' = [deadline EXCEPT ![t] = "passed"]
    /\ UNCHANGED <<write_entered_, readers, gate1_, gate2_, pc>>

\* A wakeup without a signal: spurious, or the return of the timed wait.
Wakeup(t) ==
    /\ \/ Gate1!Unblock(t) /\ UNCHANGED gate2_
       \/ Gate2!Unblock(t) /\ UNCHANGED gate1_
    /\ UNCHANGED <<write_entered_, readers, pc, deadline>>

Next == \E t \in Threads :
    \/ Lock(t) \/ TryLock(t) \/ Unlock(t)
    \/ LockEnter(t) \/ LockSleep1(t) \/ LockGiveUp1(t)
    \/ LockTake(t) \/ LockSleep2(t) \/ LockGiveUp2(t)
    \/ LockShared(t) \/ UnlockShared(t)
    \/ SharedEnter(t) \/ SharedSleep(t) \/ SharedGiveUp(t)
    \/ DeadlinePasses(t) \/ Wakeup(t)

\* A thread inside a call keeps running, holders unlock, deadlines pass and
\* the timed wait returns after its deadline.
Fairness == \A t \in Threads :
    /\ WF_vars(Unlock(t) \/ UnlockShared(t))
    /\ WF_vars(\/ LockEnter(t) \/ LockSleep1(t) \/ LockGiveUp1(t)
               \/ LockTake(t) \/ LockSleep2(t) \/ LockGiveUp2(t)
               \/ SharedEnter(t) \/ SharedSleep(t) \/ SharedGiveUp(t))
    /\ WF_vars(DeadlinePasses(t))
    /\ WF_vars(deadline[t] = "passed" /\ Wakeup(t))

Spec == Init /\ [][Next]_vars
FairSpec == Spec /\ Fairness

------------------------------------------------------------------------------
(* Properties                                                              *)

\* The word and the threads agree: readers counts those that read, the bit is
\* set exactly for the one writer that has entered, and a writer at work has
\* no readers beside it.
WordTold ==
    /\ readers = Cardinality(At("reading"))
    /\ Cardinality(At("writing") \cup At("lock_gate2"))
            = IF write_entered_ THEN 1 ELSE 0
    /\ At("writing") # {} => readers = 0

\* Nobody sleeps at a gate that is open: whoever opens one, a writer that
\* gives up at its deadline and a reader that leaves a full lock too, wakes its
\* sleepers.  (Leaving a full lock wakes one.  If two readers slept there the
\* second would stay asleep: the property needs that at most one more than
\* MaxReaders threads use the lock.)
NoSleeperAtOpenGate ==
    /\ gate1_ # {} => SharedShut
    /\ gate2_ # {} => readers # 0

\* A writer that has entered gets the lock, or gives up at its deadline:
\* readers that come later do not keep it out.
EnteredWriterServed ==
    \A t \in Threads : pc[t] = "lock_gate2" ~> pc[t] # "lock_gate2"

\* shared_mutex is a reader-writer lock: readers and a writer are never
\* inside together, and somebody gets in when it can be taken.  Not always one
\* that waits: attempts to write that run into their deadlines can keep a
\* waiting reader out while readers that just came are let in.
Abstract == INSTANCE SharedExclusion WITH
    readers        <- At("reading"),
    writers        <- At("writing"),
    waitingReaders <- At("shared_gate1"),
    waitingWriters <- At("lock_gate1") \cup At("lock_gate2")

ImplementsLock == Abstract!SpecOfAny
==============================================================================
