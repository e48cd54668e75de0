--------------------------- MODULE FastSharedMutex ---------------------------
(***************************************************************************)
(* sync::fast_shared_mutex (sync/mutex_extra.hpp): two atomic counters,    *)
(* two semaphores and a fast_mutex among the writers.                      *)
(*                                                                         *)
(* rdcount_ is MaxReaders less one for every reader inside, and a writer   *)
(* takes MaxReaders off it, which sends newcomers to rdsem_.  The writer   *)
(* adds the readers it found to rdwait_; each of them takes one off when   *)
(* it leaves, and the one that reaches 0 posts wrsem_ for the writer.      *)
(* Every atomic operation is a step, and so is every call of a semaphore   *)
(* or of the fast_mutex, which are used by what they promise.              *)
(***************************************************************************)
EXTENDS Integers, FiniteSets

CONSTANTS Threads,      \* the threads that use the lock
          TryCallers,   \* those that call try_lock and try_lock_shared as well
          MaxReaders,   \* std::numeric_limits<long>::max()
          MaxInt,       \* std::numeric_limits<int>::max()
          MaxPhantoms   \* bound: failed calls of try_lock_shared()

ASSUME ThreadsAssumption == IsFiniteSet(Threads) /\ TryCallers \subseteq Threads
ASSUME MaxReadersAssumption ==
    /\ MaxPhantoms \in Nat
    /\ MaxReaders \in Nat /\ MaxReaders > 0
    /\ MaxReaders >= Cardinality(Threads) + MaxPhantoms
    /\ MaxInt \in Nat /\ MaxInt <= MaxReaders

VARIABLES rdcount_, rdwait_,    \* the atomic counters
          rdsem_, wrsem_,       \* values of the semaphores
          wrmtx_,               \* the threads that hold the fast_mutex
          count,                \* local variable of the writer under way
          pc                    \* where each thread is in its call

vars == <<rdcount_, rdwait_, rdsem_, wrsem_, wrmtx_, count, pc>>

At(label) == {t \in Threads : pc[t] = label}

RdSem == INSTANCE CountingSemaphore WITH
    InitValue <- 0, MaxValue <- MaxReaders,
    value <- rdsem_, waiting <- At("rdsem_wait")

WrSem == INSTANCE CountingSemaphore WITH
    InitValue <- 0, MaxValue <- MaxReaders,
    value <- wrsem_, waiting <- At("wrsem_wait")

WrMtx == INSTANCE MutualExclusion WITH
    holders <- wrmtx_, waiting <- At("wrmtx_lock")

Labels == {"idle",
           "rdsem_wait", "reading", "rdwait_sub", "wrsem_post",
           "wrmtx_lock", "rdcount_sub", "rdwait_add", "wrsem_wait", "writing",
           "rdsem_post", "wrmtx_unlock",
           "try_sub", "try_add", "try_restore"}

TypeOK ==
    /\ rdcount_ \in (-2 * MaxReaders) .. MaxReaders
    /\ rdwait_ \in -MaxReaders .. 2 * MaxReaders
    /\ rdsem_ \in 0 .. MaxReaders
    /\ wrsem_ \in 0 .. 1
    /\ wrmtx_ \subseteq Threads
    /\ count \in (-2 * MaxReaders) .. MaxReaders
    /\ pc \in [Threads -> Labels]

Init ==
    /\ rdcount_ = MaxReaders
    /\ rdwait_ = 0
    /\ rdsem_ = 0
    /\ wrsem_ = 0
    /\ wrmtx_ = {}
    /\ count = 0
    /\ pc = [t \in Threads |-> "idle"]

\* The threads that have taken MaxReaders off rdcount_.
Claimed == UNION {At(l) : l \in {"rdwait_add", "wrsem_wait", "writing",
                                 "try_add", "try_restore"}}

\* What rdcount_ lacks and no thread inside accounts for: the failed calls of
\* try_lock_shared().
Phantoms == MaxReaders - MaxReaders * Cardinality(Claimed)
            - Cardinality(At("reading") \cup At("rdsem_wait")) - rdcount_

\* What an int keeps of a long: the value modulo its width.
Narrow(n) == ((n + MaxInt + 1) % (2 * (MaxInt + 1))) - (MaxInt + 1)

Goto(t, from, to) == pc[t] = from /\ pc' = [pc EXCEPT ![t] = to]

------------------------------------------------------------------------------
(* lock_shared(), try_lock_shared() and unlock_shared()                    *)

LockShared(t) ==
    /\ rdcount_' = rdcount_ - 1
    /\ Goto(t, "idle", IF rdcount_ < 1 THEN "rdsem_wait" ELSE "reading")
    /\ UNCHANGED <<rdwait_, rdsem_, wrsem_, wrmtx_, count>>

RdSemTake(t) ==
    /\ Goto(t, "rdsem_wait", "reading")
    /\ RdSem!Acquire(t)
    /\ UNCHANGED <<rdcount_, rdwait_, wrsem_, wrmtx_, count>>

\* A failed call keeps what it took off rdcount_.
TryLockShared(t) ==
    /\ t \in TryCallers
    /\ Phantoms < MaxPhantoms       \* bound on failed calls
    /\ rdcount_' = rdcount_ - 1
    /\ Goto(t, "idle", IF rdcount_ < 1 THEN "idle" ELSE "reading")
    /\ UNCHANGED <<rdwait_, rdsem_, wrsem_, wrmtx_, count>>

UnlockShared(t) ==
    /\ rdcount_' = rdcount_ + 1
    /\ Goto(t, "reading", IF rdcount_ < 0 THEN "rdwait_sub" ELSE "idle")
    /\ UNCHANGED <<rdwait_, rdsem_, wrsem_, wrmtx_, count>>

PostAtZero(t) ==                    \* mutant: the old value taken for the new
    /\ rdwait_' = rdwait_ - 1
    /\ Goto(t, "rdwait_sub", IF rdwait_ = 0 THEN "wrsem_post" ELSE "idle")
    /\ UNCHANGED <<rdcount_, rdsem_, wrsem_, wrmtx_, count>>

RdWaitSub(t) ==
    /\ rdwait_' = rdwait_ - 1
    /\ Goto(t, "rdwait_sub", IF rdwait_ = 1 THEN "wrsem_post" ELSE "idle")
    /\ UNCHANGED <<rdcount_, rdsem_, wrsem_, wrmtx_, count>>

WrSemPost(t) ==
    /\ Goto(t, "wrsem_post", "idle")
    /\ WrSem!Release(1)
    /\ UNCHANGED <<rdcount_, rdwait_, rdsem_, wrmtx_, count>>

------------------------------------------------------------------------------
(* lock() and unlock()                                                     *)

Lock(t) ==
    /\ Goto(t, "idle", "wrmtx_lock")
    /\ WrMtx!Arrive(t)
    /\ UNCHANGED <<rdcount_, rdwait_, rdsem_, wrsem_, count>>

WrMtxLock(t) ==
    /\ Goto(t, "wrmtx_lock", "rdcount_sub")
    /\ WrMtx!Acquire(t)
    /\ UNCHANGED <<rdcount_, rdwait_, rdsem_, wrsem_, count>>

RdCountSub(t) ==
    /\ count' = rdcount_
    /\ rdcount_' = rdcount_ - MaxReaders
    /\ Goto(t, "rdcount_sub",
            IF rdcount_ < MaxReaders THEN "rdwait_add" ELSE "writing")
    /\ UNCHANGED <<rdwait_, rdsem_, wrsem_, wrmtx_>>

WaitAlways(t) ==                    \* mutant: no look at readers that left
    /\ rdwait_' = rdwait_ + (MaxReaders - count)
    /\ Goto(t, "rdwait_add", "wrsem_wait")
    /\ UNCHANGED <<rdcount_, rdsem_, wrsem_, wrmtx_, count>>

RdWaitAdd(t) ==
    /\ rdwait_' = rdwait_ + (MaxReaders - count)
    /\ Goto(t, "rdwait_add", IF rdwait_' # 0 THEN "wrsem_wait" ELSE "writing")
    /\ UNCHANGED <<rdcount_, rdsem_, wrsem_, wrmtx_, count>>

WrSemTake(t) ==
    /\ Goto(t, "wrsem_wait", "writing")
    /\ WrSem!Acquire(t)
    /\ UNCHANGED <<rdcount_, rdwait_, rdsem_, wrmtx_, count>>

\* The local variable is an int here.
Unlock(t) ==
    /\ count' = Narrow(rdcount_)
    /\ rdcount_' = rdcount_ + MaxReaders
    /\ Goto(t, "writing", IF count' < 0 THEN "rdsem_post" ELSE "wrmtx_unlock")
    /\ UNCHANGED <<rdwait_, rdsem_, wrsem_, wrmtx_>>

PostOnce(t) ==                      \* mutant: one token for all the readers
    /\ Goto(t, "rdsem_post", "wrmtx_unlock")
    /\ RdSem!Release(1)
    /\ UNCHANGED <<rdcount_, rdwait_, wrsem_, wrmtx_, count>>

\* post() takes an unsigned int, which holds what builds make of -INT_MIN.
RdSemPost(t) ==
    /\ Goto(t, "rdsem_post", "wrmtx_unlock")
    /\ RdSem!Release(-count)
    /\ UNCHANGED <<rdcount_, rdwait_, wrsem_, wrmtx_, count>>

WrMtxUnlock(t) ==
    /\ Goto(t, "wrmtx_unlock", "idle")
    /\ WrMtx!Release(t)
    /\ count' = 0                   \* the local variable is gone
    /\ UNCHANGED <<rdcount_, rdwait_, rdsem_, wrsem_>>

------------------------------------------------------------------------------
(* try_lock()                                                              *)

TryLock(t) ==
    /\ t \in TryCallers
    /\ Goto(t, "idle", "try_sub")
    /\ WrMtx!Acquire(t)
    /\ UNCHANGED <<rdcount_, rdwait_, rdsem_, wrsem_, count>>

\* A lock that is free sends the call to its failure.
TrySub(t) ==
    /\ count' = rdcount_
    /\ rdcount_' = rdcount_ - MaxReaders
    /\ Goto(t, "try_sub",
            IF rdcount_ < MaxReaders THEN "try_add" ELSE "try_restore")
    /\ UNCHANGED <<rdwait_, rdsem_, wrsem_, wrmtx_>>

TryAdd(t) ==
    /\ rdwait_' = rdwait_ + (MaxReaders - count)
    /\ Goto(t, "try_add", IF rdwait_' # 0 THEN "try_restore" ELSE "writing")
    /\ UNCHANGED <<rdcount_, rdsem_, wrsem_, wrmtx_, count>>

\* The call fails and keeps wrmtx_ and what it added to rdwait_.
TryRestore(t) ==
    /\ rdcount_' = rdcount_ + MaxReaders
    /\ Goto(t, "try_restore", "idle")
    /\ count' = 0
    /\ UNCHANGED <<rdwait_, rdsem_, wrsem_, wrmtx_>>

Next == \E t \in Threads :
    \/ LockShared(t) \/ RdSemTake(t) \/ TryLockShared(t)
    \/ UnlockShared(t) \/ RdWaitSub(t) \/ WrSemPost(t)
    \/ Lock(t) \/ WrMtxLock(t) \/ RdCountSub(t) \/ RdWaitAdd(t) \/ WrSemTake(t)
    \/ Unlock(t) \/ RdSemPost(t) \/ WrMtxUnlock(t)
    \/ TryLock(t) \/ TrySub(t) \/ TryAdd(t) \/ TryRestore(t)

\* A thread inside a call keeps running, holders unlock, and the semaphores
\* and the mutex serve somebody when they can (their refinements).
Fairness ==
    /\ \A t \in Threads :
        /\ WF_vars(UnlockShared(t) \/ RdWaitSub(t) \/ WrSemPost(t))
        /\ WF_vars(\/ TrySub(t) \/ TryAdd(t) \/ TryRestore(t)
                   \/ RdCountSub(t) \/ RdWaitAdd(t)
                   \/ Unlock(t) \/ RdSemPost(t) \/ WrMtxUnlock(t))
    /\ WF_vars(\E t \in Threads : RdSemTake(t))
    /\ WF_vars(\E t \in Threads : WrSemTake(t))
    /\ WF_vars(\E t \in Threads : WrMtxLock(t))

Spec == Init /\ [][Next]_vars
FairSpec == Spec /\ Fairness

------------------------------------------------------------------------------
(* Properties                                                              *)

\* The readers that a writer must see off: those that read, those that have
\* a token to, and those that left but are not off rdwait_ yet.
ToDrain ==
    Cardinality(At("reading")) + rdsem_ + Cardinality(At("rdwait_sub"))

\* No failed attempt has left its mark: rdcount_ is what the threads inside
\* account for, and whoever holds wrmtx_ is in a call that will unlock it.
Intact ==
    /\ Phantoms = 0
    /\ wrmtx_ \subseteq At("rdcount_sub") \cup At("try_sub") \cup Claimed
                  \cup At("rdsem_post") \cup At("wrmtx_unlock")

\* Whatever a writer finds that rdcount_ lacks when it unlocks fits its int: the
\* failed calls so far, and the other threads.  Failed calls only add up.
FitsInt == Phantoms + Cardinality(Threads) - 1 <= MaxInt

\* m is never less than n, and no more either as long as an int has room for
\* the tokens that unlock() posts.
Covers(m, n) == m >= n /\ (FitsInt => m = n)

\* The books balance after failed attempts: a draining writer waits for all the
\* readers that are still to leave, its token is there once rdwait_ is 0, and a
\* writer at work has nobody left to see off.  It waits for exactly those
\* readers until the failed calls outgrow the int of unlock(): from then on
\* tokens can be missing and the writer waits for readers that do not exist.
DrainBalance ==
    \A t \in Threads :
        /\ pc[t] = "rdwait_add" =>
            Covers(rdwait_ + (MaxReaders - count), ToDrain)
        /\ pc[t] = "wrsem_wait" =>
            /\ Covers(rdwait_, ToDrain)
            /\ wrsem_ + Cardinality(At("wrsem_post")) =
                    IF rdwait_ = 0 THEN 1 ELSE 0
        /\ pc[t] = "writing" => ToDrain = 0

\* A writer that has wrmtx_ gets the lock once the readers before it unlock,
\* unless an attempt fails: those that arrive after it cannot keep it out for
\* ever.
WriterServed == \A t \in Threads :
    pc[t] = "rdcount_sub" ~> (pc[t] = "writing" \/ ~Intact)

\* sync::fast_shared_mutex is a reader-writer lock: readers and a writer are
\* never inside together, whatever attempts have failed, and as long as none
\* has, a waiting thread gets in when the lock can be taken.
Abstract == INSTANCE SharedExclusion WITH
    readers        <- At("reading"),
    writers        <- At("writing"),
    waitingReaders <- At("rdsem_wait"),
    waitingWriters <- At("wrmtx_lock") \cup At("rdcount_sub")
                        \cup At("rdwait_add") \cup At("wrsem_wait")

ImplementsLock ==
    /\ Abstract!Safety
    /\ []Intact => Abstract!Fairness
==============================================================================
