------------------------------ MODULE UniqueLock ------------------------------
(***************************************************************************)
(* sync::unique_lock (stdlib/_mutex.hpp): objects of one thread, the       *)
(* client, that know a mutex and whether they own it.  Another thread uses *)
(* the mutex, too.                                                         *)
(*                                                                         *)
(* lock() and try_lock() lock the mutex and do not set owns_: the lock is  *)
(* then owed by the client itself, as after release() or before adopt_lock *)
(* (owed).  The defaulted move constructor leaves owns_ set in the object  *)
(* it moves from; duplicated records that a lock came to have two owners,  *)
(* or none as an owner was assigned to, which no property speaks of.       *)
(***************************************************************************)
EXTENDS Naturals, FiniteSets

CONSTANT Objects        \* the unique_locks

VARIABLES holder,       \* of the mutex: "nobody", "client" or "other"
          live,         \* the objects that exist
          mtx_,         \* those with a mutex
          owns_,        \* those that own it
          owed,         \* the client has to unlock what no object owns
          duplicated    \* history: an owner was moved from, or assigned to

vars == <<holder, live, mtx_, owns_, owed, duplicated>>

TypeOK ==
    /\ holder \in {"nobody", "client", "other"}
    /\ live \subseteq Objects /\ mtx_ \subseteq live /\ owns_ \subseteq live
    /\ owed \in BOOLEAN /\ duplicated \in BOOLEAN

Init ==
    /\ holder = "nobody" /\ live = {} /\ mtx_ = {} /\ owns_ = {}
    /\ owed = FALSE /\ duplicated = FALSE

New(l) == l \notin live /\ live' = live \cup {l} /\ mtx_' = mtx_ \cup {l}
Acquire == holder = "nobody" /\ holder' = "client"

ConstructEmpty(l) ==
    /\ l \notin live /\ live' = live \cup {l}
    /\ UNCHANGED <<holder, mtx_, owns_, owed, duplicated>>

\* unique_lock(m), and the trying and timed constructors when they succeed.
ConstructLocked(l) ==
    /\ New(l)
    /\ Acquire
    /\ owns_' = owns_ \cup {l}
    /\ UNCHANGED <<owed, duplicated>>

\* defer_lock, or an attempt that fails.
ConstructUnlocked(l) ==
    /\ New(l)
    /\ UNCHANGED <<holder, owns_, owed, duplicated>>

ConstructAdopting(l) ==
    /\ New(l)
    /\ owed /\ owed' = FALSE
    /\ owns_' = owns_ \cup {l}
    /\ UNCHANGED <<holder, duplicated>>

MoveConstruct(l, from) ==
    /\ l \notin live /\ from \in live
    /\ live' = live \cup {l}
    /\ mtx_' = IF from \in mtx_ THEN mtx_ \cup {l} ELSE mtx_
    /\ owns_' = IF from \in owns_ THEN owns_ \cup {l} ELSE owns_
    /\ duplicated' = (duplicated \/ from \in owns_)
    /\ UNCHANGED <<holder, owed>>

Put(set, l, in) == IF in THEN set \cup {l} ELSE set \ {l}

\* What the body does; that it returns no value is undefined in C++ and leaves
\* no other step to model.
MoveAssign(l, from) ==
    /\ {l, from} \subseteq live /\ l # from
    /\ mtx_' = Put(mtx_, l, from \in mtx_) \ {from}
    /\ owns_' = Put(owns_, l, from \in owns_) \ {from}
    /\ duplicated' = (duplicated \/ l \in owns_)
    /\ UNCHANGED <<holder, live, owed>>

Swap(l, k) ==
    /\ {l, k} \subseteq live
    /\ mtx_' = Put(Put(mtx_, l, k \in mtx_), k, l \in mtx_)
    /\ owns_' = Put(Put(owns_, l, k \in owns_), k, l \in owns_)
    /\ UNCHANGED <<holder, live, owed, duplicated>>

Destroy(l) ==
    /\ l \in live
    /\ live' = live \ {l} /\ mtx_' = mtx_ \ {l} /\ owns_' = owns_ \ {l}
    /\ holder' = IF l \in owns_ THEN "nobody" ELSE holder
    /\ UNCHANGED <<owed, duplicated>>

\* The caller's duty in all that follows: the object has a mutex.
Lock(l) ==
    /\ l \in mtx_
    /\ Acquire
    /\ owed' = TRUE
    /\ UNCHANGED <<live, mtx_, owns_, duplicated>>

\* try_lock_for and try_lock_until store their result; a failure is stored,
\* too, and the caller asks only with an object that does not own.
TryLockUntil(l) ==
    /\ l \in mtx_ \ owns_
    /\ Acquire
    /\ owns_' = owns_ \cup {l}
    /\ UNCHANGED <<live, mtx_, owed, duplicated>>

\* The caller's duty: the client has the lock.
Unlock(l) ==
    /\ l \in mtx_ /\ (l \in owns_ \/ owed)
    /\ holder' = "nobody"
    /\ owns_' = owns_ \ {l}
    /\ owed' = (owed /\ l \in owns_)
    /\ UNCHANGED <<live, mtx_, duplicated>>

Release(l) ==
    /\ l \in mtx_
    /\ mtx_' = mtx_ \ {l} /\ owns_' = owns_ \ {l}
    /\ owed' = (owed \/ l \in owns_)
    /\ UNCHANGED <<holder, live, duplicated>>

Other ==
    /\ \/ holder = "nobody" /\ holder' = "other"
       \/ holder = "other" /\ holder' = "nobody"
    /\ UNCHANGED <<live, mtx_, owns_, owed, duplicated>>

Next ==
    \/ Other
    \/ \E l \in Objects :
        \/ ConstructEmpty(l) \/ ConstructLocked(l) \/ ConstructUnlocked(l)
        \/ ConstructAdopting(l)
        \/ \E k \in Objects : MoveConstruct(l, k) \/ MoveAssign(l, k) \/ Swap(l, k)
        \/ Destroy(l)
        \/ Lock(l) \/ TryLockUntil(l) \/ Unlock(l) \/ Release(l)

Spec == Init /\ [][Next]_vars

------------------------------------------------------------------------------
\* Unless an owner was moved from or assigned to, the lock is owed once: the
\* client holds the mutex exactly if one object owns it or the client itself
\* has to unlock it, and never both.  So no destructor unlocks a mutex that
\* the other thread holds, and none that nobody owes stays locked.
OwedOnce ==
    ~duplicated =>
        Cardinality(owns_) + (IF owed THEN 1 ELSE 0)
            = IF holder = "client" THEN 1 ELSE 0
==============================================================================
