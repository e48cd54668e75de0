---------------------------- MODULE FastSemaphore ----------------------------
(***************************************************************************)
(* sync::fast_semaphore (sync/semaphore.hpp): an atomic counter in front   *)
(* of a sync::semaphore.                                                   *)
(*                                                                         *)
(* A negative counter says how many threads went, or are on their way, to  *)
(* the slow semaphore.  The atomic operation of a call and what the call   *)
(* does next to the slow semaphore are two steps, and the second may be    *)
(* delayed past any number of other calls.                                 *)
(***************************************************************************)
EXTENDS Integers, FiniteSets

CONSTANTS Threads,      \* the threads that call the semaphore
          InitCount,    \* argument of the constructor, asserted > -1
          MaxCount      \* bound: no caller posts past this counter

ASSUME ThreadsAssumption == IsFiniteSet(Threads)
ASSUME CountAssumption == MaxCount \in Nat /\ InitCount \in 0 .. MaxCount

VARIABLES count_,       \* the atomic counter
          semaphore_,   \* value of the slow semaphore
          pc            \* where each thread is in its call

vars == <<count_, semaphore_, pc>>

At(label) == {t \in Threads : pc[t] = label}

\* The slow semaphore; a thread at "slow_wait" is inside its wait().
Slow == INSTANCE CountingSemaphore WITH
    InitValue <- 0,
    MaxValue  <- Cardinality(Threads),
    value     <- semaphore_,
    waiting   <- At("slow_wait")

TypeOK ==
    /\ count_ \in (-Cardinality(Threads)) .. MaxCount
    /\ semaphore_ \in 0 .. Cardinality(Threads)
    /\ pc \in [Threads -> {"idle", "wait", "slow_wait", "slow_post"}]

Init ==
    /\ count_ = InitCount
    /\ semaphore_ = 0
    /\ pc = [t \in Threads |-> "idle"]

Goto(t, from, to) == pc[t] = from /\ pc' = [pc EXCEPT ![t] = to]

------------------------------------------------------------------------------
(* post()                                                                  *)

FastPostAtZero(t) ==                \* mutant: <= for <
    /\ count_ < MaxCount
    /\ count_' = count_ + 1
    /\ Goto(t, "idle", IF count_ <= 0 THEN "slow_post" ELSE "idle")
    /\ UNCHANGED semaphore_

Post(t) ==
    /\ count_ < MaxCount
    /\ count_' = count_ + 1
    /\ Goto(t, "idle", IF count_ < 0 THEN "slow_post" ELSE "idle")
    /\ UNCHANGED semaphore_

SlowPost(t) ==
    /\ Goto(t, "slow_post", "idle")
    /\ Slow!Release(1)
    /\ UNCHANGED count_

------------------------------------------------------------------------------
(* wait()                                                                  *)

Wait(t) ==
    /\ Goto(t, "idle", "wait")
    /\ UNCHANGED <<count_, semaphore_>>

FastTake(t) ==
    /\ count_ >= 1
    /\ count_' = count_ - 1
    /\ Goto(t, "wait", "idle")
    /\ UNCHANGED semaphore_

SlowArrive(t) ==
    /\ count_ < 1
    /\ count_' = count_ - 1
    /\ Goto(t, "wait", "slow_wait")
    /\ Slow!Arrive(t)

SlowTake(t) ==
    /\ Goto(t, "slow_wait", "idle")
    /\ Slow!Acquire(t)
    /\ UNCHANGED count_

Next == \E t \in Threads :
    \/ Post(t) \/ SlowPost(t)
    \/ Wait(t) \/ FastTake(t) \/ SlowArrive(t) \/ SlowTake(t)

\* A thread inside a call keeps running; the slow semaphore serves somebody
\* when it has a token and waiting threads (Semaphore, ImplementsSemaphore).
Fairness ==
    /\ \A t \in Threads : WF_vars(SlowPost(t))
    /\ \A t \in Threads : WF_vars(FastTake(t) \/ SlowArrive(t))
    /\ WF_vars(\E t \in Threads : SlowTake(t))

Spec == Init /\ [][Next]_vars
FairSpec == Spec /\ Fairness

------------------------------------------------------------------------------
(* Properties                                                              *)

NonNegative(n) == IF n < 0 THEN 0 ELSE n

\* The books of the two counters balance: every thread in the slow wait is
\* either still owed by the atomic counter, or has a token in the slow
\* semaphore, or has a post on its way there.
SlowPathBalance ==
    Cardinality(At("slow_wait")) =
        NonNegative(-count_) + semaphore_ + Cardinality(At("slow_post"))

\* The fast path changes nothing a caller can see: sync::fast_semaphore
\* does what CountingSemaphore promises, its tokens being those in
\* either counter and those on their way from one to the other.
Abstract == INSTANCE CountingSemaphore WITH
    InitValue <- InitCount,
    MaxValue  <- MaxCount + Cardinality(Threads),
    value     <- NonNegative(count_) + semaphore_
                    + Cardinality(At("slow_post")),
    waiting   <- At("wait") \cup At("slow_wait")

ImplementsSemaphore == Abstract!Spec
==============================================================================
