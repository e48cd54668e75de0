----------------------------- MODULE FlexBarrier -----------------------------
(***************************************************************************)
(* sync::flex_barrier (stdlib/barrier.hpp): a barrier whose last arrival   *)
(* runs a completion function, which may change the number of              *)
(* participants.                                                           *)
(*                                                                         *)
(* The last arrival does not start the countdown again.  The waiting       *)
(* threads, which look for count_ = threads_, find 0 there: they pass only *)
(* if the completion function made threads_ 0 too.  completed and arrived  *)
(* are history variables that only the properties read.                    *)
(***************************************************************************)
EXTENDS Integers, FiniteSets, CondVar

CONSTANTS Threads,      \* the participants, at least one
          Results,      \* what the completion function may return; -1 keeps
                        \* the number of participants
          MaxLate       \* bound: arrivals after the countdown reached 0

VARIABLES count_,       \* the countdown
          threads_,     \* participants
          pc,           \* where each participant is
          completed,    \* history: calls of the completion function
          arrived       \* history: their number when each participant arrived

vars == <<count_, threads_, pc, completed, arrived, sleepers>>

Labels == {"idle", "waiting", "notify_all", "drop_notify_all", "dropped"}

TypeOK ==
    /\ count_ \in -MaxLate .. Cardinality(Threads)
    /\ threads_ \in Int
    /\ pc \in [Threads -> Labels]
    /\ completed \in 0 .. 1
    /\ arrived \in [Threads -> -1 .. 1]
    /\ sleepers \subseteq {t \in Threads : pc[t] = "waiting"}

Init ==
    /\ count_ = Cardinality(Threads)
    /\ threads_ = Cardinality(Threads)
    /\ pc = [t \in Threads |-> "idle"]
    /\ completed = 0
    /\ arrived = [t \in Threads |-> -1]
    /\ sleepers = {}

Goto(t, from, to) == pc[t] = from /\ pc' = [pc EXCEPT ![t] = to]

\* compl_(), which the last arrival calls with the mutex held.
Complete ==
    /\ \E val \in Results : threads_' = IF val # -1 THEN val ELSE threads_
    /\ completed' = completed + 1

------------------------------------------------------------------------------
(* arrive_and_wait()                                                       *)

ArriveLast(t) ==
    /\ count_ - 1 = 0
    /\ count_' = count_ - 1
    /\ Complete
    /\ Goto(t, "idle", "notify_all")
    /\ arrived' = [arrived EXCEPT ![t] = completed]
    /\ UNCHANGED sleepers

\* The predicate of the wait is looked at in the same critical section.
ArriveEarly(t) ==
    /\ count_ > -MaxLate
    /\ count_ - 1 # 0
    /\ count_' = count_ - 1
    /\ IF count_' = threads_
        THEN Goto(t, "idle", "idle") /\ UNCHANGED sleepers
        ELSE Goto(t, "idle", "waiting") /\ Block(t)
    /\ arrived' = [arrived EXCEPT ![t] = completed]
    /\ UNCHANGED <<threads_, completed>>

\* A thread inside the predicate loop that is not asleep.
Awake(t) == pc[t] = "waiting" /\ t \notin sleepers

Leave(t) ==
    /\ Awake(t)
    /\ count_ = threads_
    /\ Goto(t, "waiting", "idle")
    /\ UNCHANGED <<count_, threads_, completed, arrived, sleepers>>

SleepAgain(t) ==
    /\ Awake(t)
    /\ count_ # threads_
    /\ Block(t)
    /\ UNCHANGED <<count_, threads_, pc, completed, arrived>>

------------------------------------------------------------------------------
(* arrive_and_drop()                                                       *)

DropLast(t) ==
    /\ count_ - 1 = 0
    /\ count_' = count_ - 1
    /\ Complete
    /\ Goto(t, "idle", "drop_notify_all")
    /\ UNCHANGED <<arrived, sleepers>>

DropEarly(t) ==
    /\ count_ > -MaxLate
    /\ count_ - 1 # 0
    /\ count_' = count_ - 1
    /\ threads_' = threads_ - 1
    /\ Goto(t, "idle", "dropped")
    /\ UNCHANGED <<completed, arrived, sleepers>>

------------------------------------------------------------------------------
(* What follows the mutex                                                  *)

Awaken(t) ==
    /\ \/ Goto(t, "notify_all", "idle")
       \/ Goto(t, "drop_notify_all", "dropped")
    /\ NotifyAll
    /\ UNCHANGED <<count_, threads_, completed, arrived>>

SpuriousWakeup(t) ==
    /\ Unblock(t)
    /\ UNCHANGED <<count_, threads_, pc, completed, arrived>>

Next == \E t \in Threads :
    \/ ArriveLast(t) \/ ArriveEarly(t) \/ Leave(t) \/ SleepAgain(t)
    \/ DropLast(t) \/ DropEarly(t)
    \/ Awaken(t) \/ SpuriousWakeup(t)

Spec == Init /\ [][Next]_vars

\* A thread inside a call keeps running.
Fairness == \A t \in Threads : WF_vars(Leave(t) \/ SleepAgain(t) \/ Awaken(t))

------------------------------------------------------------------------------
(* Properties                                                              *)

\* Nobody passes before everybody has arrived and the completion function has
\* run, whatever it returns and however many arrive too late.
NoEarlyRelease ==
    [][\A t \in Threads :
        pc[t] = "waiting" /\ pc'[t] # "waiting" => arrived[t] < completed]_vars

\* Whoever waits when the completion function has ended the participation, that
\* is left threads_ at 0 as the countdown is, passes, unless an arrival too many
\* comes between.  With any other result nobody who waits ever passes.
ReleasedPass == \A t \in Threads :
    pc[t] = "waiting" /\ completed = 1 /\ count_ = threads_
        ~> (pc[t] # "waiting" \/ count_ # threads_)

\* The assertion of the destructor, count_ == threads_ with the message
\* "Threads are still waiting on a flex_barrier", at a moment when nobody is.
DestructorAssertion ==
    (\A t \in Threads : pc[t] \in {"idle", "dropped"}) => count_ = threads_
==============================================================================
