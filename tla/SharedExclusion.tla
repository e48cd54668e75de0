--------------------------- MODULE SharedExclusion ---------------------------
(***************************************************************************)
(* What a reader-writer lock promises: either readers hold it or one       *)
(* writer does, each gives back what it holds, and a lock that waiting     *)
(* threads could take is not left alone for ever: one of them gets it      *)
(* (Spec) or at least somebody does (SpecOfAny).                           *)
(*                                                                         *)
(* FastSharedMutex and SharedMutex are shown to implement this module.     *)
(***************************************************************************)
CONSTANT Threads            \* the callers

VARIABLES readers,          \* the threads that hold the lock shared
          writers,          \* the threads that hold it exclusively
          waitingReaders,   \* the threads blocked in lock_shared()
          waitingWriters    \* the threads blocked in lock()

vars == <<readers, writers, waitingReaders, waitingWriters>>

Busy == readers \cup writers \cup waitingReaders \cup waitingWriters

Init ==
    /\ readers = {} /\ writers = {}
    /\ waitingReaders = {} /\ waitingWriters = {}

ArriveShared(t) ==
    /\ t \notin Busy
    /\ waitingReaders' = waitingReaders \cup {t}
    /\ UNCHANGED <<readers, writers, waitingWriters>>

AcquireShared(t) ==
    /\ t \notin readers
    /\ writers = {}
    /\ readers' = readers \cup {t}
    /\ waitingReaders' = waitingReaders \ {t}
    /\ UNCHANGED <<writers, waitingWriters>>

ReleaseShared(t) ==
    /\ t \in readers
    /\ readers' = readers \ {t}
    /\ UNCHANGED <<writers, waitingReaders, waitingWriters>>

ArriveExclusive(t) ==
    /\ t \notin Busy
    /\ waitingWriters' = waitingWriters \cup {t}
    /\ UNCHANGED <<readers, writers, waitingReaders>>

AcquireExclusive(t) ==
    /\ readers = {} /\ writers = {}
    /\ writers' = {t}
    /\ waitingWriters' = waitingWriters \ {t}
    /\ UNCHANGED <<readers, waitingReaders>>

ReleaseExclusive(t) ==
    /\ t \in writers
    /\ writers' = writers \ {t}
    /\ UNCHANGED <<readers, waitingReaders, waitingWriters>>

\* A timed attempt ends without the lock.
GiveUp(t) ==
    /\ t \in waitingReaders \cup waitingWriters
    /\ waitingReaders' = waitingReaders \ {t}
    /\ waitingWriters' = waitingWriters \ {t}
    /\ UNCHANGED <<readers, writers>>

Next == \E t \in Threads :
    \/ GiveUp(t)
    \/ ArriveShared(t) \/ AcquireShared(t) \/ ReleaseShared(t)
    \/ ArriveExclusive(t) \/ AcquireExclusive(t) \/ ReleaseExclusive(t)

\* What a waiting thread waits for.
Admit(t) ==
    \/ t \in waitingReaders /\ AcquireShared(t)
    \/ t \in waitingWriters /\ AcquireExclusive(t)

\* A waiting thread could have the lock, and somebody takes it, perhaps one
\* that has just come.
TakeWanted ==
    /\ writers = {}
    /\ waitingReaders # {} \/ (waitingWriters # {} /\ readers = {})
    /\ \E t \in Threads : AcquireShared(t) \/ AcquireExclusive(t)

Safety == Init /\ [][Next]_vars
Fairness == WF_vars(\E t \in Threads : Admit(t))
Spec == Safety /\ Fairness
SpecOfAny == Safety /\ WF_vars(TakeWanted)
==============================================================================
