---------------------------- MODULE BlockingQueue ----------------------------
(***************************************************************************)
(* sync::blocking_queue (sync/queue.hpp): a ring of slots, a semaphore of  *)
(* the open ones, a semaphore of the full ones and a mutex.                *)
(*                                                                         *)
(* The semaphores are what CountingSemaphore promises of them: a wait is   *)
(* the arrival and the step that takes a token.  The critical section that *)
(* constructs or destroys an element is one action.  try_push and try_pop  *)
(* differ from push and pop in that they take a token at once or change    *)
(* nothing.                                                                *)
(***************************************************************************)
EXTENDS Naturals, FiniteSets

CONSTANTS Threads,      \* the threads that use the queue
          Items,        \* what they push
          size_,        \* argument of the constructor
          NoItem        \* a slot without a living element

VARIABLES open_slots_, full_slots_,     \* tokens of the semaphores
          data_,                        \* the slots
          push_index_, pop_index_, count_,
          pc                            \* where each thread is in its call

vars == <<open_slots_, full_slots_, data_, push_index_, pop_index_, count_, pc>>

Slots == 0 .. size_ - 1
Labels == {"idle", "push", "construct", "post_full", "pop", "destroy", "post_open"}

TypeOK ==
    /\ open_slots_ \in 0 .. size_ /\ full_slots_ \in 0 .. size_
    /\ data_ \in [Slots -> Items \cup {NoItem}]
    /\ push_index_ \in Slots /\ pop_index_ \in Slots /\ count_ \in 0 .. size_
    /\ pc \in [Threads -> Labels]

Init ==
    /\ open_slots_ = size_ /\ full_slots_ = 0
    /\ data_ = [s \in Slots |-> NoItem]
    /\ push_index_ = 0 /\ pop_index_ = 0 /\ count_ = 0
    /\ pc = [t \in Threads |-> "idle"]

Goto(t, from, to) == pc[t] = from /\ pc' = [pc EXCEPT ![t] = to]

ring == <<data_, push_index_, pop_index_, count_>>

------------------------------------------------------------------------------
Arrive(t) ==
    /\ Goto(t, "idle", "push") \/ Goto(t, "idle", "pop")
    /\ UNCHANGED <<open_slots_, full_slots_, ring>>

\* open_slots_.wait() returns, or the wait of try_push succeeds.
TakeOpen(t) ==
    /\ open_slots_ > 0
    /\ open_slots_' = open_slots_ - 1
    /\ Goto(t, "push", "construct") \/ Goto(t, "idle", "construct")
    /\ UNCHANGED <<full_slots_, ring>>

Construct(t, item) ==
    /\ Goto(t, "construct", "post_full")
    /\ data_' = [data_ EXCEPT ![push_index_] = item]
    /\ push_index_' = (push_index_ + 1) % size_
    /\ count_' = count_ + 1
    /\ UNCHANGED <<open_slots_, full_slots_, pop_index_>>

PostFull(t) ==
    /\ Goto(t, "post_full", "idle")
    /\ full_slots_' = full_slots_ + 1
    /\ UNCHANGED <<open_slots_, ring>>

OpenBeforeDestroy(t) ==             \* mutant: the slot is opened too early
    /\ full_slots_ > 0
    /\ full_slots_' = full_slots_ - 1
    /\ open_slots_' = open_slots_ + 1
    /\ Goto(t, "pop", "destroy") \/ Goto(t, "idle", "destroy")
    /\ UNCHANGED ring

TakeFull(t) ==
    /\ full_slots_ > 0
    /\ full_slots_' = full_slots_ - 1
    /\ Goto(t, "pop", "destroy") \/ Goto(t, "idle", "destroy")
    /\ UNCHANGED <<open_slots_, ring>>

Destroy(t) ==
    /\ Goto(t, "destroy", "post_open")
    /\ data_' = [data_ EXCEPT ![pop_index_] = NoItem]
    /\ pop_index_' = (pop_index_ + 1) % size_
    /\ count_' = count_ - 1
    /\ UNCHANGED <<open_slots_, full_slots_, push_index_>>

PostOpen(t) ==
    /\ Goto(t, "post_open", "idle")
    /\ open_slots_' = open_slots_ + 1
    /\ UNCHANGED <<full_slots_, ring>>

Next == \E t \in Threads :
    \/ Arrive(t)
    \/ TakeOpen(t) \/ (\E item \in Items : Construct(t, item)) \/ PostFull(t)
    \/ TakeFull(t) \/ Destroy(t) \/ PostOpen(t)

\* A thread inside a call keeps running, and of the threads that wait for a
\* token somebody gets it; no caller has to call.
Fairness ==
    /\ \A t \in Threads :
        WF_vars((\E item \in Items : Construct(t, item)) \/ PostFull(t)
                \/ Destroy(t) \/ PostOpen(t))
    /\ WF_vars(\E t \in Threads : pc[t] = "push" /\ TakeOpen(t))
    /\ WF_vars(\E t \in Threads : pc[t] = "pop" /\ TakeFull(t))

Spec == Init /\ [][Next]_vars
FairSpec == Spec /\ Fairness

------------------------------------------------------------------------------
\* The destructor may trust the ring: the slots from pop_index_ on, as many as
\* count_ says and no others, hold living elements, whatever the order in
\* which pushes and pops took their tokens and entered their sections.
RingSound ==
    \A n \in Slots : data_[(pop_index_ + n) % size_] # NoItem <=> n < count_

\* sync::blocking_queue does what Fifo promises.
Abstract == INSTANCE Fifo WITH
    items    <- [n \in 1 .. count_ |-> data_[(pop_index_ + n - 1) % size_]],
    Capacity <- size_,
    pushing  <- {t \in Threads : pc[t] \in {"push", "construct"}},
    popping  <- {t \in Threads : pc[t] \in {"pop", "destroy"}},
    closed   <- FALSE

ImplementsFifo == Abstract!Spec
==============================================================================
