---------------------------- MODULE LockFreeQueue ----------------------------
(***************************************************************************)
(* sync::lock_free_queue (sync/queue.hpp): a ring of slots without a       *)
(* mutex.  A push takes a token of open_slots_, an index by fetch_add,     *)
(* constructs, counts, brings the index back into the ring in a compare-   *)
(* and-swap loop and posts full_slots_; a pop does the same to the other   *)
(* end.  One action is one access to shared memory, in program order.      *)
(*                                                                         *)
(* Both ends run the same steps, so index and side say which end a thread  *)
(* works on.  try_push and try_pop differ only in the wait, as in          *)
(* BlockingQueue.                                                          *)
(***************************************************************************)
EXTENDS Naturals, FiniteSets

CONSTANTS Threads,      \* the threads that use the queue
          Items,        \* what they push
          size_,        \* argument of the constructor
          NoItem        \* a slot without a living element

Slots == 0 .. size_ - 1
Sides == {"push", "pop"}
Other(s) == IF s = "push" THEN "pop" ELSE "push"

VARIABLES tokens,       \* open_slots_ is tokens["push"], full_slots_ tokens["pop"]
          index,        \* push_index_ and pop_index_
          data_, count_,
          pc, side,     \* where each thread is in which call
          claimed,      \* the index its fetch_add returned
          expected, desired,    \* operands of its compare-and-swap
          serialised    \* the callers let one push and one pop at a time run

vars == <<tokens, index, data_, count_, pc, side, claimed, expected, desired,
          serialised>>

Labels == {"idle", "wait", "claim", "access", "count", "load", "reload", "swap", "post"}
InsideLabels == Labels \ {"idle", "wait"}

TypeOK ==
    /\ tokens \in [Sides -> 0 .. size_] /\ index \in [Sides -> Nat]
    /\ data_ \in [Slots -> Items \cup {NoItem}] /\ count_ \in Nat
    /\ pc \in [Threads -> Labels] /\ side \in [Threads -> Sides]
    /\ claimed \in [Threads -> Nat]
    /\ expected \in [Threads -> Nat] /\ desired \in [Threads -> Slots]

Init ==
    /\ tokens = [s \in Sides |-> IF s = "push" THEN size_ ELSE 0]
    /\ index = [s \in Sides |-> 0]
    /\ data_ = [s \in Slots |-> NoItem] /\ count_ = 0
    /\ pc = [t \in Threads |-> "idle"] /\ side = [t \in Threads |-> "push"]
    /\ claimed = [t \in Threads |-> 0]
    /\ expected = [t \in Threads |-> 0] /\ desired = [t \in Threads |-> 0]
    /\ serialised \in BOOLEAN

Goto(t, from, to) == pc[t] = from /\ pc' = [pc EXCEPT ![t] = to]
Inside(s) == {t \in Threads : side[t] = s /\ pc[t] \in InsideLabels}
locals == <<side, claimed, expected, desired, serialised>>
ring == <<index, data_, count_>>

------------------------------------------------------------------------------
Arrive(t, s) ==
    /\ Goto(t, "idle", "wait")
    /\ side' = [side EXCEPT ![t] = s]
    /\ UNCHANGED <<tokens, ring, claimed, expected, desired, serialised>>

TakeToken(t, s) ==
    /\ \/ Goto(t, "wait", "claim") /\ side[t] = s
       \/ Goto(t, "idle", "claim")
    /\ serialised => Inside(s) = {}
    /\ tokens[s] > 0
    /\ tokens' = [tokens EXCEPT ![s] = @ - 1]
    /\ side' = [side EXCEPT ![t] = s]
    /\ UNCHANGED <<ring, claimed, expected, desired, serialised>>

Claim(t) ==
    /\ Goto(t, "claim", "access")
    /\ claimed' = [claimed EXCEPT ![t] = index[side[t]]]
    /\ index' = [index EXCEPT ![side[t]] = @ + 1]
    /\ UNCHANGED <<tokens, data_, count_, side, expected, desired, serialised>>

Construct(t, item) ==
    /\ Goto(t, "access", "count") /\ side[t] = "push"
    /\ data_' = [data_ EXCEPT ![claimed[t] % size_] = item]
    /\ UNCHANGED <<tokens, index, count_, locals>>

Destroy(t) ==
    /\ Goto(t, "access", "count") /\ side[t] = "pop"
    /\ data_' = [data_ EXCEPT ![claimed[t] % size_] = NoItem]
    /\ UNCHANGED <<tokens, index, count_, locals>>

Count(t) ==
    /\ Goto(t, "count", "load")
    /\ count_' = IF side[t] = "push" THEN count_ + 1 ELSE count_ - 1
    /\ claimed' = [claimed EXCEPT ![t] = 0]         \* not used any more
    /\ UNCHANGED <<tokens, index, data_, side, expected, desired, serialised>>

LoadExpected(t) ==
    /\ Goto(t, "load", "reload")
    /\ expected' = [expected EXCEPT ![t] = index[side[t]]]
    /\ UNCHANGED <<tokens, ring, side, claimed, desired, serialised>>

LoadDesired(t) ==
    /\ Goto(t, "reload", "swap")
    /\ desired' = [desired EXCEPT ![t] = index[side[t]] % size_]
    /\ UNCHANGED <<tokens, ring, side, claimed, expected, serialised>>

Swap(t) ==
    /\ index[side[t]] = expected[t]
    /\ Goto(t, "swap", "post")
    /\ index' = [index EXCEPT ![side[t]] = desired[t]]
    /\ expected' = [expected EXCEPT ![t] = 0]
    /\ desired' = [desired EXCEPT ![t] = 0]
    /\ UNCHANGED <<tokens, data_, count_, side, claimed, serialised>>

SwapFails(t) ==
    /\ index[side[t]] # expected[t]
    /\ Goto(t, "swap", "load")
    /\ UNCHANGED <<tokens, ring, locals>>

Post(t) ==
    /\ Goto(t, "post", "idle")
    /\ tokens' = [tokens EXCEPT ![Other(side[t])] = @ + 1]
    /\ side' = [side EXCEPT ![t] = "push"]
    /\ UNCHANGED <<ring, claimed, expected, desired, serialised>>

Step(t) ==
    \/ Claim(t) \/ (\E item \in Items : Construct(t, item)) \/ Destroy(t)
    \/ Count(t) \/ LoadExpected(t) \/ LoadDesired(t)
    \/ Swap(t) \/ SwapFails(t) \/ Post(t)

Next == \E t \in Threads :
    Step(t) \/ (\E s \in Sides : Arrive(t, s) \/ TakeToken(t, s))

Fairness ==
    /\ \A t \in Threads : WF_vars(Step(t))
    /\ \A s \in Sides : WF_vars(\E t \in Threads : pc[t] = "wait" /\ TakeToken(t, s))

Spec == Init /\ [][Next]_vars
FairSpec == Spec /\ Fairness

------------------------------------------------------------------------------
\* However pushes and pops overlap, size(), empty() and full() never report
\* less than nothing or more than the capacity, though the counter is changed
\* apart from the slots and under no lock.
CountInRange == count_ \in 0 .. size_

\* Where the living elements begin: a pop has claimed the first of them, until
\* it destroys it.
First ==
    IF \E t \in Inside("pop") : pc[t] = "access"
    THEN claimed[CHOOSE t \in Inside("pop") : pc[t] = "access"]
    ELSE index["pop"]

Living == Cardinality({s \in Slots : data_[s] # NoItem})

\* While its callers serialise pushes with pushes and pops with pops, which the
\* code does not do for them, sync::lock_free_queue does what Fifo promises.
Abstract == INSTANCE Fifo WITH
    items    <- IF serialised
                THEN [n \in 1 .. Living |-> data_[(First + n - 1) % size_]]
                ELSE <<>>,
    Capacity <- size_,
    pushing  <- {t \in Threads : serialised /\ side[t] = "push"
                                 /\ pc[t] \in {"wait", "claim", "access"}},
    popping  <- {t \in Threads : serialised /\ side[t] = "pop"
                                 /\ pc[t] \in {"wait", "claim", "access"}},
    closed   <- FALSE

ImplementsFifo == Abstract!Spec
==============================================================================
