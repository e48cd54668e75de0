------------------------------ MODULE MultiLock ------------------------------
(***************************************************************************)
(* The free functions lock() and try_lock() and sync::scoped_lock          *)
(* (stdlib/mutex.hpp), which take several mutexes.                         *)
(*                                                                         *)
(* lock() blocks on one mutex, tries the others in cyclic order and, when  *)
(* one of them is taken, gives back what it has and begins again with that *)
(* one.  try_lock() tries them all once.  The mutexes are exclusive locks; *)
(* each lock, attempt and unlock of one of them is a step.  The two-       *)
(* argument lock() is the case of two mutexes.                             *)
(***************************************************************************)
EXTENDS Naturals, Sequences, FiniteSets

CONSTANTS Threads,      \* the callers
          Mutexes,
          Orders,       \* the argument lists of the calls
          NoThread      \* owner of a free mutex

VARIABLES owner,        \* of each mutex
          order,        \* the arguments of each thread's call
          pc,           \* where it is in its call
          retrying,     \* the call is lock(), not try_lock()
          start,        \* index it begins with, counted from 0
          taken,        \* how many it has, from start on
          next          \* index it will begin with after a failure

vars == <<owner, order, pc, retrying, start, taken, next>>

Count(t) == Len(order[t])
MutexInShortCycle(t, n) ==          \* mutant: the cycle leaves out the last one
    order[t][((start[t] + n) % (Count(t) - 1)) + 1]

Mutex(t, n) == order[t][((start[t] + n) % Count(t)) + 1]
Owned(t) == {m \in Mutexes : owner[m] = t}

TypeOK ==
    /\ owner \in [Mutexes -> Threads \cup {NoThread}]
    /\ order \in [Threads -> Orders]
    /\ pc \in [Threads -> {"idle", "block", "try", "back", "holding"}]
    /\ retrying \in [Threads -> BOOLEAN]
    /\ \A t \in Threads :
        start[t] < Count(t) /\ next[t] < Count(t) /\ taken[t] <= Count(t)

Init ==
    /\ owner = [m \in Mutexes |-> NoThread]
    /\ order = [t \in Threads |-> CHOOSE o \in Orders : TRUE]
    /\ pc = [t \in Threads |-> "idle"]
    /\ retrying = [t \in Threads |-> FALSE]
    /\ start = [t \in Threads |-> 0] /\ taken = [t \in Threads |-> 0]
    /\ next = [t \in Threads |-> 0]

Goto(t, from, to) == pc[t] = from /\ pc' = [pc EXCEPT ![t] = to]

Lock(t, args) ==
    /\ Goto(t, "idle", "block")
    /\ order' = [order EXCEPT ![t] = args]
    /\ retrying' = [retrying EXCEPT ![t] = TRUE]
    /\ UNCHANGED <<owner, start, taken, next>>

TryLock(t, args) ==
    /\ Goto(t, "idle", "try")
    /\ order' = [order EXCEPT ![t] = args]
    /\ retrying' = [retrying EXCEPT ![t] = FALSE]
    /\ UNCHANGED <<owner, start, taken, next>>

Take(t) ==
    /\ owner[Mutex(t, taken[t])] = NoThread
    /\ owner' = [owner EXCEPT ![Mutex(t, taken[t])] = t]
    /\ taken' = [taken EXCEPT ![t] = @ + 1]

\* unique_lock lock{m}: the only step that waits.
Block(t) ==
    /\ Goto(t, "block", "try")
    /\ Take(t)
    /\ UNCHANGED <<order, retrying, start, next>>

TryNext(t) ==
    /\ Goto(t, "try", IF taken[t] + 1 = Count(t) THEN "holding" ELSE "try")
    /\ Take(t)
    /\ UNCHANGED <<order, retrying, start, next>>

\* The mutex that was taken will be the next to block on.
TryFails(t) ==
    /\ owner[Mutex(t, taken[t])] # NoThread
    /\ Goto(t, "try", "back")
    /\ next' = [next EXCEPT ![t] = (start[t] + taken[t]) % Count(t)]
    /\ UNCHANGED <<owner, order, retrying, start, taken>>

\* The destructors of the unique_locks, the last one taken first.
GiveBack(t) ==
    /\ pc[t] = "back" /\ taken[t] > 0
    /\ owner' = [owner EXCEPT ![Mutex(t, taken[t] - 1)] = NoThread]
    /\ taken' = [taken EXCEPT ![t] = @ - 1]
    /\ UNCHANGED <<order, pc, retrying, start, next>>

LeaveTooEarly(t) ==                 \* mutant: the first mutex is kept
    /\ taken[t] <= 1
    /\ Goto(t, "back", IF retrying[t] THEN "block" ELSE "idle")
    /\ start' = [start EXCEPT ![t] = IF retrying[t] THEN next[t] ELSE 0]
    /\ next' = [next EXCEPT ![t] = 0]
    /\ taken' = [taken EXCEPT ![t] = 0]
    /\ UNCHANGED <<owner, order, retrying>>

\* lock() yields and begins with the mutex that was taken; try_lock() returns.
Leave(t) ==
    /\ taken[t] = 0
    /\ Goto(t, "back", IF retrying[t] THEN "block" ELSE "idle")
    /\ start' = [start EXCEPT ![t] = IF retrying[t] THEN next[t] ELSE 0]
    /\ next' = [next EXCEPT ![t] = 0]
    /\ UNCHANGED <<owner, order, retrying, taken>>

\* ~scoped_lock: the mutexes are unlocked in the order of the arguments.
Unlock(t) ==
    /\ pc[t] = "holding"
    /\ owner' = [owner EXCEPT ![order[t][Count(t) - taken[t] + 1]] = NoThread]
    /\ taken' = [taken EXCEPT ![t] = @ - 1]
    /\ Goto(t, "holding", IF taken[t] = 1 THEN "idle" ELSE "holding")
    /\ start' = [start EXCEPT ![t] = 0]
    /\ UNCHANGED <<order, retrying, next>>

InCall(t) ==
    Block(t) \/ TryNext(t) \/ TryFails(t) \/ GiveBack(t) \/ Leave(t)

Next == \E t \in Threads :
    \/ (\E args \in Orders : Lock(t, args) \/ TryLock(t, args))
    \/ InCall(t) \/ Unlock(t)

\* A thread inside a call keeps running; a holder need not unlock.
Fairness == \A t \in Threads : WF_vars(InCall(t))

Spec == Init /\ [][Next]_vars
FairSpec == Spec /\ Fairness

------------------------------------------------------------------------------
\* A thread holds nothing while it blocks on a mutex, and nothing is left
\* behind by an attempt that failed, at whichever mutex it failed: with
\* arguments in any order no cycle of waiting threads can close.
NothingKept ==
    \A t \in Threads : pc[t] \in {"idle", "block"} => Owned(t) = {}

\* lock() and a try_lock() that succeeds return with every mutex of the call,
\* wherever in the list lock() began, and scoped_lock gives all of them back.
AllTaken ==
    \A t \in Threads : pc[t] = "holding" =>
        Owned(t) = {order[t][n] : n \in Count(t) - taken[t] + 1 .. Count(t)}

\* A thread that is alone in wanting mutexes gets them: the retries end once
\* the others have returned from their calls and hold nothing.  More is not
\* promised, as two threads may fail each other for ever in lockstep.
LoneCallerServed == \A t \in Threads :
    []<>~( /\ pc[t] \in {"block", "try", "back"}
           /\ \A u \in Threads \ {t} : pc[u] = "idle" )
==============================================================================
