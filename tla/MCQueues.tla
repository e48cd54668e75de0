------------------------------- MODULE MCQueues -------------------------------
(***************************************************************************)
(* The three queues of sync/queue.hpp side by side for TLC.  Each behaviour *)
(* is one of one queue, chosen at the start; the others stay as they were  *)
(* constructed.  Their fairness asks for nothing there, as it is about     *)
(* threads inside a call.                                                  *)
(***************************************************************************)
EXTENDS Naturals, Sequences, FiniteSets

CONSTANTS Threads, Items, Capacity, NoItem

ASSUME ThreadsAssumption == IsFiniteSet(Threads)
ASSUME CapacityAssumption == Capacity \in Nat \ {0}   \* the constructors assert it
ASSUME NoItemAssumption == NoItem \notin Items

VARIABLES queue,        \* the one that runs
          s_queue, s_done, s_pc, s_sleepers,
          b_open, b_full, b_data, b_push, b_pop, b_count, b_pc,
          l_tokens, l_index, l_data, l_count, l_pc, l_side, l_claimed,
          l_expected, l_desired, l_serialised

Simple == INSTANCE SimpleQueue WITH
    MaxLen <- Capacity, queue_ <- s_queue, done_ <- s_done, pc <- s_pc,
    sleepers <- s_sleepers

Blocking == INSTANCE BlockingQueue WITH
    size_ <- Capacity, open_slots_ <- b_open, full_slots_ <- b_full,
    data_ <- b_data, push_index_ <- b_push, pop_index_ <- b_pop,
    count_ <- b_count, pc <- b_pc

LockFree == INSTANCE LockFreeQueue WITH
    size_ <- Capacity, tokens <- l_tokens, index <- l_index, data_ <- l_data,
    count_ <- l_count, pc <- l_pc, side <- l_side, claimed <- l_claimed,
    expected <- l_expected, desired <- l_desired, serialised <- l_serialised

s_vars == <<s_queue, s_done, s_pc, s_sleepers>>
b_vars == <<b_open, b_full, b_data, b_push, b_pop, b_count, b_pc>>
l_vars == <<l_tokens, l_index, l_data, l_count, l_pc, l_side, l_claimed,
            l_expected, l_desired, l_serialised>>

vars == <<queue, s_vars, b_vars, l_vars>>

Init ==
    /\ queue \in {"simple", "blocking", "lock_free"}
    /\ Simple!Init /\ Blocking!Init /\ LockFree!Init
    /\ queue # "lock_free" => l_serialised

Next ==
    /\ UNCHANGED queue
    /\ \/ queue = "simple" /\ Simple!Next /\ UNCHANGED <<b_vars, l_vars>>
       \/ queue = "blocking" /\ Blocking!Next /\ UNCHANGED <<s_vars, l_vars>>
       \/ queue = "lock_free" /\ LockFree!Next /\ UNCHANGED <<s_vars, b_vars>>

FairSpec ==
    /\ Init /\ [][Next]_vars
    /\ Simple!Fairness /\ Blocking!Fairness /\ LockFree!Fairness

------------------------------------------------------------------------------
\* Types, and what a destructor and size() trust: the ring of blocking_queue
\* has its living elements where its index and count say, and the counter of
\* lock_free_queue stays in range however its callers overlap.
Consistent ==
    /\ Simple!TypeOK /\ Blocking!TypeOK /\ LockFree!TypeOK
    /\ Blocking!RingSound /\ LockFree!CountInRange

\* No item of simple_blocking_queue is stranded beside threads asleep in pop().
NoLostWakeup == Simple!NoLostWakeup

\* Each queue does what Fifo promises; lock_free_queue does while its callers
\* serialise the pushes and the pops.
ImplementsFifo ==
    /\ Simple!ImplementsFifo
    /\ Blocking!ImplementsFifo
    /\ LockFree!ImplementsFifo
==============================================================================
