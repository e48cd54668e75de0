------------------------------ MODULE MCBarriers ------------------------------
(***************************************************************************)
(* barrier, flex_barrier (stdlib/barrier.hpp) and latch (stdlib/latch.hpp) *)
(* side by side for TLC: the definitions of Barrier are taken as they are, *)
(* the others by name.  Each behaviour is one of one component, chosen at  *)
(* the start.  The fairness of threads inside a call asks for nothing of   *)
(* those that stay as constructed; that of arrivals at a barrier does, and *)
(* is restricted to the behaviours of barrier.                             *)
(***************************************************************************)
EXTENDS Barrier

CONSTANTS FewerThreads,         \* those that use flex_barrier
          Results,              \* of the completion function: -1 keeps the
                                \* number of participants, others set it
          MaxLate,              \* bound: arrivals at a completed flex_barrier
          Expected              \* the count that latch is constructed with

ASSUME FewerThreadsAssumption ==
    IsFiniteSet(FewerThreads) /\ FewerThreads # {}
ASSUME ResultsAssumption == Results \in SUBSET (Nat \cup {-1})
ASSUME MaxLateAssumption == MaxLate \in Nat
ASSUME ExpectedAssumption == Expected \in Int

\* A completion function that keeps the number of participants, ends them, or
\* sets another number, for TLC.
AllResults == {-1, 0, 2}

VARIABLES component,            \* the one that is used
          f_count, f_threads, f_pc, f_completed, f_arrived, f_sleepers,
          l_count, l_pc, l_counted, l_passed, l_sleepers

Flex == INSTANCE FlexBarrier WITH
    Threads <- FewerThreads,
    count_ <- f_count, threads_ <- f_threads, pc <- f_pc,
    completed <- f_completed, arrived <- f_arrived, sleepers <- f_sleepers

Latch == INSTANCE Latch WITH
    n <- Expected, count_ <- l_count, pc <- l_pc, counted <- l_counted,
    passed <- l_passed, sleepers <- l_sleepers

b_vars == <<count_, threads_, pc, round, arrived, sleepers>>
f_vars == <<f_count, f_threads, f_pc, f_completed, f_arrived, f_sleepers>>
l_vars == <<l_count, l_pc, l_counted, l_passed, l_sleepers>>

AllInit ==
    /\ component \in {"barrier", "flex_barrier", "latch"}
    /\ Init /\ Flex!Init /\ Latch!Init

AllNext ==
    /\ UNCHANGED component
    /\ \/ component = "barrier" /\ Next /\ UNCHANGED <<f_vars, l_vars>>
       \/ component = "flex_barrier" /\ Flex!Next /\ UNCHANGED <<b_vars, l_vars>>
       \/ component = "latch" /\ Latch!Next /\ UNCHANGED <<b_vars, f_vars>>

AllSpec ==
    /\ AllInit
    /\ [][AllNext]_<<component, b_vars, f_vars, l_vars>>
    /\ CallFairness /\ Flex!Fairness /\ Latch!Fairness
    /\ \A t \in Threads : WF_vars(component = "barrier" /\ Arrive(t))

------------------------------------------------------------------------------
\* Types, and the books of barrier: what is missing from its participants are
\* those that wait in the present round.
Consistent ==
    /\ TypeOK /\ Flex!TypeOK /\ Latch!TypeOK
    /\ WaitersCounted

\* Nobody passes barrier or flex_barrier before its round is complete, nor
\* latch before as many threads have counted down as it was told.
NobodyEarly ==
    /\ NoEarlyRelease
    /\ Flex!NoEarlyRelease
    /\ []Latch!NoEarlyPass

\* Whoever waits at barrier passes, or somebody is lapped; whoever waits at a
\* flex_barrier that its completion function ended passes; and so does whoever
\* is awake at a latch that stays at 0.
WaitersPass == EverybodyPasses /\ Flex!ReleasedPass /\ Latch!AwakePasses
==============================================================================
