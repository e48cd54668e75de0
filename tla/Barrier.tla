------------------------------- MODULE Barrier -------------------------------
(***************************************************************************)
(* sync::barrier (stdlib/barrier.hpp): a countdown that the last arrival   *)
(* starts again, a mutex and a condition variable.                         *)
(*                                                                         *)
(* The barrier has no round number: a waiting thread leaves when it finds  *)
(* the countdown at its start, and does not see a round that ended if      *)
(* another thread has arrived at the next one before it looks.  round and  *)
(* arrived are history variables that only the properties read.  The       *)
(* participants are as many as the constructor was told; one that dropped  *)
(* does not come back.                                                     *)
(***************************************************************************)
EXTENDS Integers, FiniteSets, CondVar

CONSTANTS Threads,      \* the participants
          MaxRounds     \* bound: nobody arrives at a later round

ASSUME ThreadsAssumption == IsFiniteSet(Threads) /\ Threads # {}
ASSUME MaxRoundsAssumption == MaxRounds \in Nat

VARIABLES count_,       \* arrivals missing in this round
          threads_,     \* participants
          pc,           \* where each participant is
          round,        \* history: rounds completed
          arrived       \* history: the round each participant arrived at last

vars == <<count_, threads_, pc, round, arrived, sleepers>>

Labels == {"idle", "waiting", "notify_all", "drop_notify_all", "dropped"}

TypeOK ==
    /\ count_ \in 0 .. Cardinality(Threads)
    /\ threads_ \in 0 .. Cardinality(Threads)
    /\ pc \in [Threads -> Labels]
    /\ round \in 0 .. MaxRounds
    /\ arrived \in [Threads -> -1 .. MaxRounds]
    /\ sleepers \subseteq {t \in Threads : pc[t] = "waiting"}

Init ==
    /\ count_ = Cardinality(Threads)
    /\ threads_ = Cardinality(Threads)
    /\ pc = [t \in Threads |-> "idle"]
    /\ round = 0
    /\ arrived = [t \in Threads |-> -1]
    /\ sleepers = {}

Goto(t, from, to) == pc[t] = from /\ pc' = [pc EXCEPT ![t] = to]

------------------------------------------------------------------------------
(* arrive_and_wait()                                                       *)

ArriveLast(t) ==
    /\ round < MaxRounds
    /\ count_ - 1 = 0
    /\ count_' = threads_
    /\ Goto(t, "idle", "notify_all")
    /\ round' = round + 1
    /\ arrived' = [arrived EXCEPT ![t] = round]
    /\ UNCHANGED <<threads_, sleepers>>

\* The predicate of the wait is looked at in the same critical section.
ArriveEarly(t) ==
    /\ round < MaxRounds
    /\ count_ - 1 # 0
    /\ count_' = count_ - 1
    /\ IF count_' = threads_
        THEN Goto(t, "idle", "idle") /\ UNCHANGED sleepers
        ELSE Goto(t, "idle", "waiting") /\ Block(t)
    /\ arrived' = [arrived EXCEPT ![t] = round]
    /\ UNCHANGED <<threads_, round>>

\* A thread inside the predicate loop that is not asleep.
Awake(t) == pc[t] = "waiting" /\ t \notin sleepers

LeaveUnchecked(t) ==                \* mutant: any wakeup ends the wait
    /\ Awake(t)
    /\ Goto(t, "waiting", "idle")
    /\ UNCHANGED <<count_, threads_, round, arrived, sleepers>>

Leave(t) ==
    /\ Awake(t)
    /\ count_ = threads_
    /\ Goto(t, "waiting", "idle")
    /\ UNCHANGED <<count_, threads_, round, arrived, sleepers>>

SleepAgain(t) ==
    /\ Awake(t)
    /\ count_ # threads_
    /\ Block(t)
    /\ UNCHANGED <<count_, threads_, pc, round, arrived>>

------------------------------------------------------------------------------
(* arrive_and_drop()                                                       *)

DropLast(t) ==
    /\ round < MaxRounds
    /\ count_ - 1 = 0
    /\ threads_' = threads_ - 1
    /\ count_' = threads_ - 1
    /\ Goto(t, "idle", "drop_notify_all")
    /\ round' = round + 1
    /\ UNCHANGED <<arrived, sleepers>>

DropEarlyKeeping(t) ==              \* mutant: the dropped thread still counts
    /\ round < MaxRounds
    /\ count_ - 1 # 0
    /\ count_' = count_ - 1
    /\ Goto(t, "idle", "dropped")
    /\ UNCHANGED <<threads_, round, arrived, sleepers>>

DropEarly(t) ==
    /\ round < MaxRounds
    /\ count_ - 1 # 0
    /\ count_' = count_ - 1
    /\ threads_' = threads_ - 1
    /\ Goto(t, "idle", "dropped")
    /\ UNCHANGED <<round, arrived, sleepers>>

------------------------------------------------------------------------------
(* What follows the mutex                                                  *)

AwakenOne(t) ==                     \* mutant: notify_one for notify_all
    /\ \/ Goto(t, "notify_all", "idle")
       \/ Goto(t, "drop_notify_all", "dropped")
    /\ NotifyOne
    /\ UNCHANGED <<count_, threads_, round, arrived>>

Awaken(t) ==
    /\ \/ Goto(t, "notify_all", "idle")
       \/ Goto(t, "drop_notify_all", "dropped")
    /\ NotifyAll
    /\ UNCHANGED <<count_, threads_, round, arrived>>

SpuriousWakeup(t) ==
    /\ Unblock(t)
    /\ UNCHANGED <<count_, threads_, pc, round, arrived>>

Next == \E t \in Threads :
    \/ ArriveLast(t) \/ ArriveEarly(t) \/ Leave(t) \/ SleepAgain(t)
    \/ DropLast(t) \/ DropEarly(t)
    \/ Awaken(t) \/ SpuriousWakeup(t)

Arrive(t) == ArriveLast(t) \/ ArriveEarly(t) \/ DropLast(t) \/ DropEarly(t)

\* A thread inside a call keeps running.
CallFairness == \A t \in Threads :
    /\ WF_vars(Leave(t) \/ SleepAgain(t))
    /\ WF_vars(Awaken(t))

\* Moreover every participant arrives at every round or drops.
Fairness == CallFairness /\ \A t \in Threads : WF_vars(Arrive(t))

Spec == Init /\ [][Next]_vars
FairSpec == Spec /\ Fairness

------------------------------------------------------------------------------
(* Properties                                                              *)

\* The countdown and the waiting threads agree: what is missing from the
\* participants are those that wait in the present round, although drops
\* change both numbers in mid-round.  With nobody inside this is the
\* assertion of the destructor, count_ == threads_.
WaitersCounted ==
    threads_ - count_ =
        Cardinality({t \in Threads : pc[t] = "waiting" /\ arrived[t] = round})

\* Nobody passes before its round is complete, whatever wakes it up.
NoEarlyRelease ==
    [][\A t \in Threads :
        pc[t] = "waiting" /\ pc'[t] # "waiting" => arrived[t] < round]_vars

\* A thread is left asleep after its round only if another participant was
\* back at the barrier before it looked: the missing round number is the one
\* way this barrier strands a thread.
StrandedOnlyIfLapped ==
    \A t \in sleepers :
        \/ arrived[t] = round
        \/ count_ < threads_
        \/ \E u \in Threads : pc[u] \in {"notify_all", "drop_notify_all"}

\* Another participant was back at the barrier before this thread looked.
Lapped(t) == pc[t] = "waiting" /\ arrived[t] < round /\ count_ < threads_

\* Whoever waits passes, or somebody is lapped; that is what can keep a whole
\* barrier waiting, and nothing else does.
EverybodyPasses == \A t \in Threads :
    pc[t] = "waiting" ~> (pc[t] = "idle" \/ \E u \in Threads : Lapped(u))
==============================================================================
