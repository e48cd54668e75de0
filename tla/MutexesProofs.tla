---------------------------- MODULE MutexesProofs ----------------------------
(***************************************************************************)
(* What is proved of the mutexes of stdlib/shared_mutex.hpp and            *)
(* stdlib/mutex.hpp, of the functions that lock several of them and of     *)
(* unique_lock, for any finite set of threads, any argument lists and any  *)
(* limits: the books of each, that no thread is forgotten asleep, that no  *)
(* mutex is kept by a call that waits or has failed, and that every step   *)
(* of the three mutexes is a step of the lock it promises to be.           *)
(***************************************************************************)
EXTENDS MCMutexes, FiniteSetTheorems, SequenceTheorems, TLAPS

USE ThreadsAssumption, MaxReadersAssumption, MaxCountAssumption,
    ObjectsAssumption, OrdersAssumption

\* Each component takes its own steps or stays as it is, so that what a step
\* of each keeps, a step of the whole keeps.
LEMMA EachSteps ==
    ASSUME [AllNext]_<<mutex, m_vars, t_vars, r_vars, s_vars, u_vars>>
    PROVE  /\ [Next]_vars
           /\ [Timed!Next]_(Timed!vars) /\ [Recursive!Next]_(Recursive!vars)
           /\ [Several!Next]_(Several!vars) /\ [Unique!Next]_(Unique!vars)
BY DEF AllNext, m_vars, t_vars, r_vars, s_vars, u_vars, vars, Timed!vars,
       Recursive!vars, Several!vars, Unique!vars

\* The cardinality of a subset of a finite set, and how it changes with one
\* member.
LEMMA Counting ==
    ASSUME NEW S, NEW T \in SUBSET S, IsFiniteSet(S)
    PROVE  /\ IsFiniteSet(T)
           /\ Cardinality(T) \in Nat /\ Cardinality(S) \in Nat
           /\ Cardinality(T) <= Cardinality(S)
           /\ Cardinality(T) = 0 <=> T = {}
           /\ \A x \in S \ T : Cardinality(T \cup {x}) = Cardinality(T) + 1
           /\ \A x \in T : Cardinality(T \ {x}) = Cardinality(T) - 1
<1>1. IsFiniteSet(T)
  BY FS_Subset
<1> QED
  BY <1>1, FS_Subset, FS_CardinalityType, FS_EmptySet, FS_AddElement,
     FS_RemoveElement

\* A set into which a member comes, or which one leaves.
LEMMA Comes ==
    ASSUME NEW S, IsFiniteSet(S), NEW T \in SUBSET S, NEW x \in S, x \notin T,
           NEW U, U = T \cup {x}
    PROVE  Cardinality(U) = Cardinality(T) + 1
<1>1. \A y \in S \ T : Cardinality(T \cup {y}) = Cardinality(T) + 1
  BY Counting
<1> QED
  BY <1>1

\* An element that leaves.
LEMMA Goes ==
    ASSUME NEW S, IsFiniteSet(S), NEW T \in SUBSET S, NEW x \in T,
           NEW U, U = T \ {x}
    PROVE  Cardinality(U) = Cardinality(T) - 1
BY Counting

\* UniqueLock counts as this module does.
LEMMA SameCardinality == \A S : Unique!Cardinality(S) = Cardinality(S)
BY DEF Unique!Cardinality, Cardinality

------------------------------------------------------------------------------
(* timed_mutex                                                             *)

\* The flag is set exactly while the mutex is held, by one thread: what
\* lock(), the attempts and unlock() make of locked_.
FlagTold ==
    /\ t_locked <=> Timed!At("holding") # {}
    /\ \A t, u \in Timed!At("holding") : t = u

TimedInv == Timed!TypeOK /\ Timed!NoLostWakeup /\ FlagTold

\* A new mutex is free and nobody waits for it.
LEMMA TimedStarts == Timed!Init => TimedInv
BY DEF Timed!Init, TimedInv, Timed!TypeOK, Timed!NoLostWakeup, FlagTold,
       Timed!At

\* Only who finds the flag reset sets it and only its holder resets it.
LEMMA FlagKept ==
    Timed!TypeOK /\ FlagTold /\ [Timed!Next]_(Timed!vars) => FlagTold'
<1> USE DEF Timed!TypeOK, FlagTold, Timed!At, Timed!Goto
<1> SUFFICES ASSUME Timed!TypeOK, FlagTold, [Timed!Next]_(Timed!vars)
             PROVE  FlagTold'
  OBVIOUS
<1>1. ASSUME NEW t \in Threads, Timed!TryLock(t) \/ Timed!Take(t)
      PROVE  FlagTold'
  <2>1. Timed!At("holding")' = {t} /\ t_locked'
    BY <1>1 DEF Timed!TryLock, Timed!Take
  <2> QED
    BY <2>1
<1>2. ASSUME NEW t \in Threads, Timed!Unlock(t) PROVE FlagTold'
  <2>1. Timed!At("holding") = {t}
    BY <1>2 DEF Timed!Unlock
  <2>2. Timed!At("holding")' = {} /\ ~t_locked'
    BY <1>2, <2>1 DEF Timed!Unlock
  <2> QED
    BY <2>2
<1>3. ASSUME NEW t \in Threads,
             \/ Timed!Call(t) \/ Timed!Sleep(t) \/ Timed!GiveUp(t)
             \/ Timed!DeadlinePasses(t) \/ Timed!Wakeup(t)
      PROVE  FlagTold'
  <2>1. Timed!At("holding")' = Timed!At("holding") /\ t_locked' = t_locked
    BY <1>3 DEF Timed!Call, Timed!Sleep, Timed!GiveUp, Timed!DeadlinePasses,
         Timed!Wakeup, Timed!Awake
  <2> QED
    BY <2>1
<1>4. CASE UNCHANGED Timed!vars
  BY <1>4 DEF Timed!vars
<1> QED
  BY <1>1, <1>2, <1>3, <1>4 DEF Timed!Next

\* The mutex becomes free in the step that wakes a sleeper, and an awake
\* thread leaves the loop or goes to sleep only while the mutex is held, or by
\* taking it, whatever deadlines pass.
LEMMA TimedKept == TimedInv /\ [Timed!Next]_(Timed!vars) => TimedInv'
<1> USE DEF Timed!TypeOK, Timed!NoLostWakeup, Timed!Awake, Timed!At, Timed!Goto
<1> SUFFICES ASSUME Timed!TypeOK, Timed!NoLostWakeup, FlagTold,
                    [Timed!Next]_(Timed!vars)
             PROVE  Timed!TypeOK' /\ Timed!NoLostWakeup'
  BY FlagKept DEF TimedInv
<1>1. ASSUME NEW t \in Threads, Timed!Call(t)
      PROVE  Timed!TypeOK' /\ Timed!NoLostWakeup'
  BY <1>1 DEF Timed!Call
<1>2. ASSUME NEW t \in Threads, Timed!TryLock(t) \/ Timed!Take(t)
      PROVE  Timed!TypeOK' /\ Timed!NoLostWakeup'
  <2>1. t_locked' /\ t_sleepers' = t_sleepers /\ t \notin t_sleepers
        /\ t_pc' = [t_pc EXCEPT ![t] = "holding"]
    BY <1>2 DEF Timed!TryLock, Timed!Take
  <2>2. t_deadline' \in [Threads -> {"none", "pending", "passed"}]
    BY <1>2 DEF Timed!TryLock, Timed!Take
  <2> QED
    BY <2>1, <2>2
<1>3. ASSUME NEW t \in Threads, Timed!Sleep(t) \/ Timed!GiveUp(t)
      PROVE  Timed!TypeOK' /\ Timed!NoLostWakeup'
  BY <1>3 DEF Timed!Sleep, Timed!GiveUp, Timed!Block
<1>4. ASSUME NEW t \in Threads, Timed!Unlock(t)
      PROVE  Timed!TypeOK' /\ Timed!NoLostWakeup'
  <2>1. CASE t_sleepers = {} /\ t_sleepers' = {}
    BY <1>4, <2>1 DEF Timed!Unlock
  <2>2. ASSUME NEW w \in t_sleepers, t_sleepers' = t_sleepers \ {w}
        PROVE  Timed!TypeOK' /\ Timed!NoLostWakeup'
    <3>1. w \in Threads /\ t_pc[w] = "waiting" /\ w # t
      BY <1>4 DEF Timed!Unlock
    <3>2. t_pc'[w] = "waiting" /\ w \notin t_sleepers'
      BY <1>4, <2>2, <3>1 DEF Timed!Unlock
    <3> QED
      BY <1>4, <2>2, <3>1, <3>2 DEF Timed!Unlock
  <2> QED
    BY <1>4, <2>1, <2>2 DEF Timed!Unlock, Timed!NotifyOne
<1>5. ASSUME NEW t \in Threads, Timed!DeadlinePasses(t) \/ Timed!Wakeup(t)
      PROVE  Timed!TypeOK' /\ Timed!NoLostWakeup'
  BY <1>5 DEF Timed!DeadlinePasses, Timed!Wakeup, Timed!Unblock
<1>6. CASE UNCHANGED Timed!vars
  BY <1>6 DEF Timed!vars
<1> QED
  BY <1>1, <1>2, <1>3, <1>4, <1>5, <1>6 DEF Timed!Next

\* A step of timed_mutex is one of MutualExclusion or none: the mutex is taken
\* only while nobody holds it, and an attempt fails only while somebody does.
LEMMA TimedSteps ==
    TimedInv /\ [Timed!Next]_(Timed!vars)
        => [Timed!Abstract!NextTimed]_(Timed!Abstract!vars)
<1> USE DEF TimedInv, Timed!TypeOK, FlagTold, Timed!At, Timed!Goto,
            Timed!Abstract!vars
<1> SUFFICES ASSUME TimedInv, [Timed!Next]_(Timed!vars)
             PROVE  Timed!Abstract!NextTimed \/ UNCHANGED Timed!Abstract!vars
  OBVIOUS
<1>1. ASSUME NEW t \in Threads, Timed!Call(t)
      PROVE  Timed!Abstract!Arrive(t)
  BY <1>1 DEF Timed!Call, Timed!Abstract!Arrive
<1>2. ASSUME NEW t \in Threads, Timed!TryLock(t) \/ Timed!Take(t)
      PROVE  Timed!Abstract!Acquire(t)
  BY <1>2 DEF Timed!TryLock, Timed!Take, Timed!Abstract!Acquire
<1>3. ASSUME NEW t \in Threads, Timed!Unlock(t)
      PROVE  Timed!Abstract!Release(t)
  BY <1>3 DEF Timed!Unlock, Timed!Abstract!Release
<1>4. ASSUME NEW t \in Threads, Timed!GiveUp(t)
      PROVE  Timed!Abstract!GiveUp(t)
  BY <1>4 DEF Timed!GiveUp, Timed!Awake, Timed!Abstract!GiveUp
<1>5. ASSUME NEW t \in Threads,
             Timed!Sleep(t) \/ Timed!DeadlinePasses(t) \/ Timed!Wakeup(t)
      PROVE  UNCHANGED Timed!Abstract!vars
  BY <1>5 DEF Timed!Sleep, Timed!DeadlinePasses, Timed!Wakeup
<1>6. CASE UNCHANGED Timed!vars
  BY <1>6 DEF Timed!vars
<1> QED
  BY <1>1, <1>2, <1>3, <1>4, <1>5, <1>6
     DEF Timed!Next, Timed!Abstract!Next, Timed!Abstract!NextTimed

------------------------------------------------------------------------------
(* recursive_timed_mutex                                                   *)

\* A mutex is held exactly if it has an owner.
RecursiveInv ==
    /\ Recursive!TypeOK /\ Recursive!OwnerTold /\ Recursive!NoLostWakeup
    /\ r_count # 0 <=> r_id \in Threads

\* A new mutex has no owner and nobody waits for it.
LEMMA RecursiveStarts == Recursive!Init => RecursiveInv
BY DEF Recursive!Init, RecursiveInv, Recursive!TypeOK, Recursive!OwnerTold,
       Recursive!NoLostWakeup

\* The owner alone changes the count of a mutex that is held, and forgets
\* itself with the last unlock; that unlock notifies later, but until then the
\* thread under way for it is known by its label.
LEMMA RecursiveKept ==
    RecursiveInv /\ [Recursive!Next]_(Recursive!vars) => RecursiveInv'
<1> USE DEF RecursiveInv, Recursive!TypeOK, Recursive!OwnerTold,
            Recursive!NoLostWakeup, Recursive!Awake, Recursive!Goto
<1> SUFFICES ASSUME RecursiveInv, [Recursive!Next]_(Recursive!vars)
             PROVE  RecursiveInv'
  OBVIOUS
<1>1. ASSUME NEW t \in Threads, Recursive!Relock(t) PROVE RecursiveInv'
  BY <1>1 DEF Recursive!Relock
<1>2. ASSUME NEW t \in Threads, Recursive!Call(t) PROVE RecursiveInv'
  BY <1>2 DEF Recursive!Call
<1>3. ASSUME NEW t \in Threads, Recursive!TryLock(t) \/ Recursive!Take(t)
      PROVE  RecursiveInv'
  <2>1. /\ \A u \in Threads : r_held[u] = 0
        /\ r_count' = 1 /\ r_id' = t /\ r_held' = [r_held EXCEPT ![t] = 1]
    BY <1>3 DEF Recursive!TryLock, Recursive!Take, Recursive!Own
  <2>2. /\ r_pc' \in [Threads -> {"idle", "waiting", "notify_one"}]
        /\ r_deadline' \in [Threads -> {"none", "pending", "passed"}]
        /\ r_sleepers' \subseteq {u \in Threads : r_pc'[u] = "waiting"}
    <3> HIDE DEF Recursive!OwnerTold, Recursive!NoLostWakeup
    <3>1. CASE Recursive!TryLock(t)
      BY <3>1 DEF Recursive!TryLock
    <3>2. CASE Recursive!Take(t)
      <4>1. /\ r_pc' = [r_pc EXCEPT ![t] = "idle"] /\ r_sleepers' = r_sleepers
            /\ r_deadline' = [r_deadline EXCEPT ![t] = "none"]
            /\ t \notin r_sleepers
        BY <3>2 DEF Recursive!Take
      <4> QED
        BY <4>1
    <3> QED
      BY <1>3, <3>1, <3>2
  <2>3. r_held' \in [Threads -> 0 .. MaxCount] /\ r_count' \in 0 .. MaxCount
    BY <2>1
  <2>4. Recursive!OwnerTold'
    BY <2>1
  <2> QED
    BY <2>1, <2>2, <2>3, <2>4
<1>4. ASSUME NEW t \in Threads, Recursive!Unlock(t) PROVE RecursiveInv'
  <2>1. r_id = t /\ r_held[t] = r_count /\ r_count > 0
    BY <1>4 DEF Recursive!Unlock
  <2>2. /\ r_count' = r_count - 1 /\ r_held' = [r_held EXCEPT ![t] = @ - 1]
        /\ r_id' = IF r_count = 1 THEN NoThread ELSE r_id
        /\ r_pc' = [r_pc EXCEPT ![t] =
                        IF r_count = 1 THEN "notify_one" ELSE "idle"]
        /\ r_pc[t] = "idle" /\ UNCHANGED <<r_deadline, r_sleepers>>
    BY <1>4 DEF Recursive!Unlock
  <2>3. CASE r_count = 1
    BY <2>1, <2>2, <2>3
  <2>4. CASE r_count # 1
    BY <2>1, <2>2, <2>4
  <2> QED
    BY <2>3, <2>4
<1>5. ASSUME NEW t \in Threads, Recursive!Signal(t) PROVE RecursiveInv'
  <2>1. CASE r_sleepers = {} /\ r_sleepers' = {}
    BY <1>5, <2>1 DEF Recursive!Signal
  <2>2. ASSUME NEW w \in r_sleepers, r_sleepers' = r_sleepers \ {w}
        PROVE  RecursiveInv'
    <3>1. w \in Threads /\ r_pc[w] = "waiting" /\ w # t
      BY <1>5 DEF Recursive!Signal
    <3>2. r_pc'[w] = "waiting" /\ w \notin r_sleepers'
      BY <1>5, <2>2, <3>1 DEF Recursive!Signal
    <3> QED
      BY <1>5, <2>2, <3>1, <3>2 DEF Recursive!Signal
  <2> QED
    BY <1>5, <2>1, <2>2 DEF Recursive!Signal, Recursive!NotifyOne
<1>6. ASSUME NEW t \in Threads, Recursive!Sleep(t) \/ Recursive!GiveUp(t)
      PROVE  RecursiveInv'
  BY <1>6, ZenonT(40) DEF Recursive!Sleep, Recursive!GiveUp, Recursive!Block
<1>7. ASSUME NEW t \in Threads,
             Recursive!DeadlinePasses(t) \/ Recursive!Wakeup(t)
      PROVE  RecursiveInv'
  BY <1>7 DEF Recursive!DeadlinePasses, Recursive!Wakeup, Recursive!Unblock
<1>8. CASE UNCHANGED Recursive!vars
  BY <1>8 DEF Recursive!vars
<1> QED
  BY <1>1, <1>2, <1>3, <1>4, <1>5, <1>6, <1>7, <1>8 DEF Recursive!Next

\* A step of recursive_timed_mutex is one of MutualExclusion or none: only the
\* first lock of a holder acquires and only its last unlock releases.
LEMMA RecursiveSteps ==
    RecursiveInv /\ [Recursive!Next]_(Recursive!vars)
        => [Recursive!Abstract!NextTimed]_(Recursive!Abstract!vars)
<1> USE DEF RecursiveInv, Recursive!TypeOK, Recursive!OwnerTold,
            Recursive!Goto, Recursive!Awake, Recursive!Abstract!vars
<1> SUFFICES ASSUME RecursiveInv, [Recursive!Next]_(Recursive!vars)
             PROVE  \/ Recursive!Abstract!NextTimed
                    \/ UNCHANGED Recursive!Abstract!vars
  OBVIOUS
<1> DEFINE holders == {t \in Threads : r_held[t] > 0}
           waiting == {t \in Threads : r_pc[t] = "waiting"}
<1>a. r_count = 0 <=> holders = {}
  BY SMTT(30)
<1>1. ASSUME NEW t \in Threads, Recursive!Relock(t)
      PROVE  UNCHANGED Recursive!Abstract!vars
  <2>1. r_held[t] = r_count /\ r_pc' = r_pc
        /\ r_held' = [r_held EXCEPT ![t] = @ + 1]
    BY <1>1 DEF Recursive!Relock
  <2>2. r_count # 0
    BY <1>1, <1>a DEF Recursive!Relock
  <2> QED
    BY <2>1, <2>2
<1>2. ASSUME NEW t \in Threads, Recursive!Call(t)
      PROVE  Recursive!Abstract!Arrive(t)
  BY <1>2 DEF Recursive!Call, Recursive!Abstract!Arrive
<1>3. ASSUME NEW t \in Threads, Recursive!TryLock(t) \/ Recursive!Take(t)
      PROVE  Recursive!Abstract!Acquire(t)
  <2>1. /\ \A u \in Threads : r_held[u] = 0
        /\ r_held' = [r_held EXCEPT ![t] = 1]
    BY <1>3 DEF Recursive!TryLock, Recursive!Take, Recursive!Own
  <2>2. holders = {} /\ holders' = {t}
    BY <2>1
  <2>3. waiting' = waiting \ {t}
    BY <1>3 DEF Recursive!TryLock, Recursive!Take
  <2> QED
    BY <2>2, <2>3 DEF Recursive!Abstract!Acquire
<1>4. ASSUME NEW t \in Threads, Recursive!Unlock(t)
      PROVE  Recursive!Abstract!Release(t) \/ UNCHANGED Recursive!Abstract!vars
  <2>1. /\ r_id = t /\ r_held[t] = r_count /\ r_count > 0
        /\ r_held' = [r_held EXCEPT ![t] = @ - 1]
    BY <1>4 DEF Recursive!Unlock
  <2>2. waiting' = waiting
    BY <1>4 DEF Recursive!Unlock
  <2>3. holders' = IF r_count = 1 THEN holders \ {t} ELSE holders
    BY <2>1
  <2> QED
    BY <2>1, <2>2, <2>3 DEF Recursive!Abstract!Release
<1>5. ASSUME NEW t \in Threads, Recursive!GiveUp(t)
      PROVE  Recursive!Abstract!GiveUp(t)
  BY <1>5, <1>a DEF Recursive!GiveUp, Recursive!Abstract!GiveUp
<1>6. ASSUME NEW t \in Threads,
             \/ Recursive!Signal(t) \/ Recursive!Sleep(t)
             \/ Recursive!DeadlinePasses(t) \/ Recursive!Wakeup(t)
      PROVE  UNCHANGED Recursive!Abstract!vars
  BY <1>6 DEF Recursive!Signal, Recursive!Sleep, Recursive!DeadlinePasses,
       Recursive!Wakeup
<1>7. CASE UNCHANGED Recursive!vars
  BY <1>7 DEF Recursive!vars
<1> QED
  BY <1>1, <1>2, <1>3, <1>4, <1>5, <1>6, <1>7
     DEF Recursive!Next, Recursive!Abstract!Next, Recursive!Abstract!NextTimed

------------------------------------------------------------------------------
(* unique_lock                                                             *)

UniqueInv == Unique!TypeOK /\ Unique!OwedOnce

\* No objects, and a mutex that nobody holds.
LEMMA UniqueStarts == Unique!Init => UniqueInv
<1> SUFFICES ASSUME Unique!Init PROVE UniqueInv
  OBVIOUS
<1>1. Unique!Cardinality({}) = 0
  BY SameCardinality, FS_EmptySet
<1>2. Unique!TypeOK
  BY DEF Unique!Init, Unique!TypeOK
<1>3. Unique!OwedOnce
  BY <1>1 DEF Unique!Init, Unique!OwedOnce
<1> QED
  BY <1>2, <1>3 DEF UniqueInv

\* Every call moves the one debt for the lock as a whole: from the client to
\* an object, from an object to another, back to the client, or away with the
\* unlock.  Only where an owner is moved from or assigned to is it doubled or
\* lost, which duplicated tells.
LEMMA UniqueKept == UniqueInv /\ [Unique!Next]_(Unique!vars) => UniqueInv'
<1> USE DEF UniqueInv, Unique!TypeOK
<1> SUFFICES ASSUME UniqueInv, [Unique!Next]_(Unique!vars) PROVE UniqueInv'
  OBVIOUS
<1>0. /\ Cardinality(u_owns) \in Nat
      /\ Cardinality(u_owns) = 0 <=> u_owns = {}
      /\ \A l \in Objects \ u_owns :
            Cardinality(u_owns \cup {l}) = Cardinality(u_owns) + 1
      /\ \A l \in u_owns :
            Cardinality(u_owns \ {l}) = Cardinality(u_owns) - 1
  <2>1. u_owns \in SUBSET Objects
    OBVIOUS
  <2> QED
    BY <2>1, Counting
<1>a. /\ ~u_duplicated =>
            Cardinality(u_owns) + (IF u_owed THEN 1 ELSE 0)
                = IF u_holder = "client" THEN 1 ELSE 0
      /\ Unique!OwedOnce' <=> (~u_duplicated' =>
            Cardinality(u_owns') + (IF u_owed' THEN 1 ELSE 0)
                = IF u_holder' = "client" THEN 1 ELSE 0)
  BY SameCardinality DEF Unique!OwedOnce
<1> HIDE DEF UniqueInv
<1>b. Unique!TypeOK
  BY DEF UniqueInv
<1>c. SUFFICES Unique!TypeOK' /\ Unique!OwedOnce'
  BY DEF UniqueInv
<1>1. ASSUME NEW l \in Objects,
             Unique!ConstructEmpty(l) \/ Unique!ConstructUnlocked(l)
      PROVE  Unique!TypeOK' /\ Unique!OwedOnce'
  BY <1>1, <1>a, <1>b
     DEF Unique!ConstructEmpty, Unique!ConstructUnlocked, Unique!New
<1>2. ASSUME NEW l \in Objects, Unique!ConstructLocked(l)
      PROVE  Unique!TypeOK' /\ Unique!OwedOnce'
  <2>1. /\ u_live' = u_live \cup {l} /\ u_mtx' = u_mtx \cup {l}
        /\ u_owns' = u_owns \cup {l} /\ l \in Objects \ u_owns
        /\ u_holder = "nobody" /\ u_holder' = "client"
        /\ UNCHANGED <<u_owed, u_duplicated>>
    BY <1>2, <1>b DEF Unique!ConstructLocked, Unique!New, Unique!Acquire
  <2>2. Unique!OwedOnce'
    BY <1>0, <1>a, <2>1
  <2> QED
    BY <1>b, <2>1, <2>2
<1>3. ASSUME NEW l \in Objects, Unique!ConstructAdopting(l)
      PROVE  Unique!TypeOK' /\ Unique!OwedOnce'
  <2>1. /\ u_live' = u_live \cup {l} /\ u_mtx' = u_mtx \cup {l}
        /\ u_owns' = u_owns \cup {l} /\ l \in Objects \ u_owns
        /\ u_owed /\ u_owed' = FALSE /\ UNCHANGED <<u_holder, u_duplicated>>
    BY <1>3, <1>b DEF Unique!ConstructAdopting, Unique!New
  <2>2. Unique!OwedOnce'
    BY <1>0, <1>a, <2>1
  <2> QED
    BY <1>b, <2>1, <2>2
<1>4. ASSUME NEW l \in Objects, NEW k \in Objects, Unique!MoveConstruct(l, k)
      PROVE  Unique!TypeOK' /\ Unique!OwedOnce'
  <2>1. /\ u_duplicated' = (u_duplicated \/ k \in u_owns)
        /\ k \notin u_owns => u_owns' = u_owns
        /\ UNCHANGED <<u_holder, u_owed>>
    BY <1>4 DEF Unique!MoveConstruct
  <2>2. Unique!OwedOnce'
    BY <1>a, <2>1
  <2> QED
    BY <1>4, <1>b, <2>2 DEF Unique!MoveConstruct
<1>5. ASSUME NEW l \in Objects, NEW k \in Objects, Unique!MoveAssign(l, k)
      PROVE  Unique!TypeOK' /\ Unique!OwedOnce'
  <2>1. /\ u_duplicated' <=> u_duplicated \/ l \in u_owns
        /\ u_duplicated' \in BOOLEAN
        /\ l # k /\ UNCHANGED <<u_holder, u_live, u_owed>>
        /\ u_owns' = Unique!Put(u_owns, l, k \in u_owns) \ {k}
        /\ u_mtx' = Unique!Put(u_mtx, l, k \in u_mtx) \ {k}
        /\ {l, k} \subseteq u_live
    BY <1>5, <1>b DEF Unique!MoveAssign
  <2>2. Unique!OwedOnce'
    <3>1. CASE l \in u_owns
      BY <1>a, <1>b, <2>1, <3>1
    <3>2. CASE l \notin u_owns /\ k \notin u_owns
      <4>1. u_owns' = u_owns
        BY <2>1, <3>2 DEF Unique!Put
      <4>2. u_duplicated' <=> u_duplicated
        BY <2>1, <3>2
      <4>3. u_owed' = u_owed /\ u_holder' = u_holder
        BY <2>1
      <4> QED
        BY <1>a, <4>1, <4>2, <4>3
    <3>3. CASE l \notin u_owns /\ k \in u_owns
      <4>1. u_owns' = (u_owns \ {k}) \cup {l} /\ l \notin u_owns \ {k}
            /\ u_owns \ {k} \in SUBSET Objects
        BY <1>b, <2>1, <3>3 DEF Unique!Put
      <4>2. Cardinality(u_owns') = Cardinality(u_owns \ {k}) + 1
        BY <4>1, Comes
      <4>3. Cardinality(u_owns') = Cardinality(u_owns)
        BY <1>0, <3>3, <4>2
      <4> QED
        BY <1>a, <1>b, <2>1, <4>3
    <3> QED
      BY <3>1, <3>2, <3>3
  <2> QED
    BY <1>b, <2>1, <2>2 DEF Unique!Put
<1>6. ASSUME NEW l \in Objects, NEW k \in Objects, Unique!Swap(l, k)
      PROVE  Unique!TypeOK' /\ Unique!OwedOnce'
  <2>1. /\ {l, k} \subseteq u_live
        /\ UNCHANGED <<u_holder, u_live, u_owed, u_duplicated>>
        /\ u_owns' = Unique!Put(Unique!Put(u_owns, l, k \in u_owns),
                                k, l \in u_owns)
        /\ u_mtx' = Unique!Put(Unique!Put(u_mtx, l, k \in u_mtx),
                               k, l \in u_mtx)
    BY <1>6 DEF Unique!Swap
  <2>2. Cardinality(u_owns') = Cardinality(u_owns)
    <3>1. CASE l \in u_owns <=> k \in u_owns
      <4>1. u_owns' = u_owns
        BY <2>1, <3>1 DEF Unique!Put
      <4> QED
        BY <4>1
    <3>2. ASSUME NEW x \in Objects, NEW y \in Objects, x \in u_owns,
                 y \notin u_owns, u_owns' = (u_owns \ {x}) \cup {y}
          PROVE  Cardinality(u_owns') = Cardinality(u_owns)
      <4>1. u_owns \ {x} \in SUBSET Objects /\ y \notin u_owns \ {x}
        BY <1>b, <3>2
      <4>2. Cardinality(u_owns') = Cardinality(u_owns \ {x}) + 1
        BY <3>2, <4>1, Comes
      <4> QED
        BY <1>0, <3>2, <4>2
    <3>3. CASE l \in u_owns /\ k \notin u_owns
      <4>1. u_owns' = (u_owns \ {l}) \cup {k}
        BY <2>1, <3>3 DEF Unique!Put
      <4> QED
        BY <3>2, <3>3, <4>1
    <3>4. CASE k \in u_owns /\ l \notin u_owns
      <4>1. u_owns' = (u_owns \ {k}) \cup {l}
        BY <2>1, <3>4 DEF Unique!Put
      <4> QED
        BY <3>2, <3>4, <4>1
    <3> QED
      BY <3>1, <3>3, <3>4
  <2>3. Unique!OwedOnce'
    BY <1>a, <2>1, <2>2
  <2> QED
    BY <1>b, <2>1, <2>3 DEF Unique!Put
<1>7. ASSUME NEW l \in Objects, Unique!Destroy(l)
      PROVE  Unique!TypeOK' /\ Unique!OwedOnce'
  <2>1. /\ u_live' = u_live \ {l} /\ u_mtx' = u_mtx \ {l}
        /\ u_owns' = u_owns \ {l}
        /\ u_holder' = IF l \in u_owns THEN "nobody" ELSE u_holder
        /\ UNCHANGED <<u_owed, u_duplicated>>
    BY <1>7 DEF Unique!Destroy
  <2>2. Unique!OwedOnce'
    <3>1. CASE l \in u_owns
      BY <1>0, <1>a, <2>1, <3>1
    <3>2. CASE l \notin u_owns
      <4>1. u_owns' = u_owns
        BY <2>1, <3>2
      <4> QED
        BY <1>a, <2>1, <3>2, <4>1
    <3> QED
      BY <3>1, <3>2
  <2> QED
    BY <1>b, <2>1, <2>2
<1>8. ASSUME NEW l \in Objects, Unique!Lock(l)
      PROVE  Unique!TypeOK' /\ Unique!OwedOnce'
  BY <1>0, <1>8, <1>a, <1>b DEF Unique!Lock, Unique!Acquire
<1>9. ASSUME NEW l \in Objects, Unique!TryLockUntil(l)
      PROVE  Unique!TypeOK' /\ Unique!OwedOnce'
  <2>1. /\ u_owns' = u_owns \cup {l} /\ l \in u_live /\ l \in Objects \ u_owns
        /\ u_holder = "nobody" /\ u_holder' = "client"
        /\ UNCHANGED <<u_live, u_mtx, u_owed, u_duplicated>>
    BY <1>9, <1>b DEF Unique!TryLockUntil, Unique!Acquire
  <2>2. Unique!OwedOnce'
    BY <1>0, <1>a, <2>1
  <2> QED
    BY <1>b, <2>1, <2>2
<1>10. ASSUME NEW l \in Objects, Unique!Unlock(l)
       PROVE  Unique!TypeOK' /\ Unique!OwedOnce'
  <2>1. /\ u_owns' = u_owns \ {l}
        /\ (l \in u_owns \/ u_owed) /\ u_holder' = "nobody"
        /\ u_owed' \in BOOLEAN /\ (u_owed' <=> u_owed /\ l \in u_owns)
        /\ UNCHANGED <<u_live, u_mtx, u_duplicated>>
    BY <1>10, <1>b DEF Unique!Unlock
  <2>2. Unique!OwedOnce'
    <3>1. CASE l \in u_owns
      <4>1. ~u_duplicated => ~u_owed /\ Cardinality(u_owns) = 1
        BY <1>a, <1>0, <3>1
      <4>2. Cardinality(u_owns') = Cardinality(u_owns) - 1
        BY <1>0, <2>1, <3>1
      <4>3. ~u_duplicated => ~u_owed' /\ Cardinality(u_owns') = 0
        BY <2>1, <4>1, <4>2
      <4> QED
        BY <1>a, <2>1, <4>3
    <3>2. CASE l \notin u_owns
      <4>1. u_owns' = u_owns /\ ~u_owed' /\ u_owed
        BY <2>1, <3>2
      <4>2. ~u_duplicated => Cardinality(u_owns) = 0
        BY <1>a, <1>0, <4>1
      <4>3. ~u_duplicated => Cardinality(u_owns') = 0
        BY <4>1, <4>2
      <4> QED
        BY <1>a, <2>1, <4>1, <4>3
    <3> QED
      BY <3>1, <3>2
  <2> QED
    BY <1>b, <2>1, <2>2
<1>11. ASSUME NEW l \in Objects, Unique!Release(l)
       PROVE  Unique!TypeOK' /\ Unique!OwedOnce'
  <2>1. /\ u_owns' = u_owns \ {l} /\ u_mtx' = u_mtx \ {l}
        /\ u_owed' \in BOOLEAN /\ (u_owed' <=> u_owed \/ l \in u_owns)
        /\ UNCHANGED <<u_holder, u_live, u_duplicated>>
    BY <1>11, <1>b DEF Unique!Release
  <2>2. Unique!OwedOnce'
    <3>1. CASE l \in u_owns
      BY <1>0, <1>a, <2>1, <3>1
    <3>2. CASE l \notin u_owns
      <4>1. u_owns' = u_owns
        BY <2>1, <3>2
      <4> QED
        BY <1>a, <2>1, <3>2, <4>1
    <3> QED
      BY <3>1, <3>2
  <2> QED
    BY <1>b, <2>1, <2>2
<1>12. CASE Unique!Other
  BY <1>12, <1>0, <1>a, <1>b DEF Unique!Other
<1>13. CASE UNCHANGED Unique!vars
  BY <1>13, <1>a, <1>b DEF Unique!vars
<1> QED
  BY <1>1, <1>2, <1>3, <1>4, <1>5, <1>6, <1>7, <1>8, <1>9, <1>10, <1>11,
     <1>12, <1>13 DEF Unique!Next

------------------------------------------------------------------------------
(* shared_mutex and shared_timed_mutex                                     *)

Readers == At("reading")
Writers == At("writing") \cup At("lock_gate2")

\* WordTold without counting writers: the bit is set for one that has entered.
SharedInv ==
    /\ TypeOK
    /\ readers = Cardinality(Readers)
    /\ IF write_entered_ THEN \E w \in Threads : Writers = {w} ELSE Writers = {}
    /\ At("writing") # {} => readers = 0

\* The two ways to say it say the same.
LEMMA SharedWord == TypeOK => (SharedInv <=> WordTold)
<1>1. Writers \in SUBSET Threads
  BY DEF Writers, At
<1>2. IsFiniteSet(Writers)
  BY <1>1, FS_Subset
<1>3. Cardinality(Writers) = 0 <=> Writers = {}
  BY <1>1, Counting
<1>4. Cardinality(Writers) = 1 <=> \E w : Writers = {w}
  BY <1>2, FS_Singleton
<1>5. (\E w : Writers = {w}) <=> (\E w \in Threads : Writers = {w})
  BY <1>1
<1> QED
  BY <1>3, <1>4, <1>5 DEF TypeOK, SharedInv, WordTold, Readers, Writers

\* A new mutex: a free word and nobody at the gates.
LEMMA SharedStarts == Init => SharedInv /\ NoSleeperAtOpenGate
<1> SUFFICES ASSUME Init PROVE SharedInv /\ NoSleeperAtOpenGate
  OBVIOUS
<1>1. Readers = {} /\ Writers = {} /\ At("writing") = {}
  BY DEF Init, Readers, Writers, At
<1>2. Cardinality(Readers) = 0
  BY <1>1, FS_EmptySet
<1>3. TypeOK
  <2>1. 0 \in 0 .. MaxReaders
    OBVIOUS
  <2>2. gate1_ = {} /\ gate2_ = {} /\ readers = 0 /\ write_entered_ = FALSE
    BY DEF Init
  <2>3. /\ pc \in [Threads ->
                    {"idle", "reading", "writing",
                     "shared_gate1", "lock_gate1", "lock_gate2"}]
        /\ deadline \in [Threads -> {"none", "pending", "passed"}]
    BY DEF Init
  <2> QED
    BY <2>1, <2>2, <2>3 DEF TypeOK
<1> QED
  BY <1>1, <1>2, <1>3 DEF Init, SharedInv, NoSleeperAtOpenGate

\* What a thread that reads, and one that does not, does to their number.
LEMMA ReadersCounted ==
    ASSUME TypeOK
    PROVE  /\ Cardinality(Readers) \in Nat
           /\ Cardinality(Readers) = 0 <=> Readers = {}
           /\ \A t \in Threads : t \notin Readers /\ Readers' = Readers \cup {t}
                => Cardinality(Readers)' = Cardinality(Readers) + 1
           /\ \A t \in Readers : Readers' = Readers \ {t}
                => Cardinality(Readers)' = Cardinality(Readers) - 1
<1>1. Readers \in SUBSET Threads
  BY DEF Readers, At
<1>2. ASSUME NEW t \in Threads, t \notin Readers, Readers' = Readers \cup {t}
      PROVE  Cardinality(Readers)' = Cardinality(Readers) + 1
  BY <1>1, <1>2, Comes
<1>3. ASSUME NEW t \in Readers, Readers' = Readers \ {t}
      PROVE  Cardinality(Readers)' = Cardinality(Readers) - 1
  BY <1>1, <1>3, Goes
<1> QED
  BY <1>1, <1>2, <1>3, Counting

\* Every step keeps the types, given the word.
LEMMA SharedTypeKept == SharedInv /\ [Next]_vars => TypeOK'
<1> SUFFICES ASSUME SharedInv, [Next]_vars PROVE TypeOK'
  OBVIOUS
<1>a. TypeOK
  BY DEF SharedInv
<1> USE DEF TypeOK, At, Become, NoDeadline, Call
<1>1. ASSUME NEW t \in Threads, Lock(t) PROVE TypeOK'
  <2>1. deadline' \in [Threads -> {"none", "pending", "passed"}]
    BY <1>1, <1>a DEF Lock
  <2>2. CASE Enter(t)
    BY <1>1, <1>a, <2>1, <2>2 DEF Lock, Enter, Gate2!Block
  <2>3. CASE Become(t, "lock_gate1") /\ Gate1!Block(t)
             /\ UNCHANGED <<write_entered_, readers, gate2_>>
    BY <1>1, <1>a, <2>1, <2>3 DEF Lock, Gate1!Block
  <2> QED
    BY <1>1, <2>2, <2>3 DEF Lock
<1>2. ASSUME NEW t \in Threads, TryLock(t) PROVE TypeOK'
  BY <1>2, <1>a DEF TryLock
<1>3. ASSUME NEW t \in Threads, LockEnter(t) PROVE TypeOK'
  BY <1>3, <1>a DEF LockEnter, Awake, Enter, Gate2!Block
<1>4. ASSUME NEW t \in Threads, LockSleep1(t) \/ LockSleep2(t) \/ SharedSleep(t)
      PROVE  TypeOK'
  BY <1>4, <1>a DEF LockSleep1, LockSleep2, SharedSleep, Awake, Gate1!Block,
       Gate2!Block
<1>5. ASSUME NEW t \in Threads,
             LockGiveUp1(t) \/ SharedGiveUp(t) \/ LockTake(t)
      PROVE  TypeOK'
  <2>1. PICK label \in {"idle", "writing"} : pc' = [pc EXCEPT ![t] = label]
    BY <1>5 DEF LockGiveUp1, SharedGiveUp, LockTake
  <2>2. /\ t \notin gate1_ \cup gate2_
        /\ deadline' = [deadline EXCEPT ![t] = "none"]
        /\ UNCHANGED <<write_entered_, readers, gate1_, gate2_>>
    BY <1>5 DEF LockGiveUp1, SharedGiveUp, LockTake, Awake
  <2> QED
    BY <1>a, <2>1, <2>2
<1>6. ASSUME NEW t \in Threads, LockGiveUp2(t) \/ Unlock(t) PROVE TypeOK'
  <2>1. /\ pc' = [pc EXCEPT ![t] = "idle"]
        /\ deadline' = [deadline EXCEPT ![t] = "none"]
        /\ write_entered_' = FALSE /\ readers' \in {0, readers}
        /\ gate1_' = {} /\ gate2_' = gate2_
    BY <1>6 DEF LockGiveUp2, Unlock, Gate1!NotifyAll
  <2>2. t \notin gate2_
    BY <1>6, <1>a DEF LockGiveUp2, Unlock, Awake
  <2>3. readers' \in 0 .. MaxReaders
    BY <1>a, <2>1
  <2>4. gate2_' \subseteq At("lock_gate2")'
    BY <1>a, <2>1, <2>2
  <2>5. /\ pc' \in [Threads -> {"idle", "reading", "writing",
                     "shared_gate1", "lock_gate1", "lock_gate2"}]
        /\ deadline' \in [Threads -> {"none", "pending", "passed"}]
    BY <1>a, <2>1
  <2> QED
    BY <2>1, <2>3, <2>4, <2>5
<1>7. ASSUME NEW t \in Threads, LockShared(t) PROVE TypeOK'
  <2>1. deadline' \in [Threads -> {"none", "pending", "passed"}]
    BY <1>7, <1>a DEF LockShared
  <2>2. CASE EnterShared(t)
    BY <1>7, <1>a, <2>1, <2>2 DEF LockShared, EnterShared, SharedShut
  <2>3. CASE Become(t, "shared_gate1") /\ Gate1!Block(t)
             /\ UNCHANGED <<write_entered_, readers, gate2_>>
    BY <1>7, <1>a, <2>1, <2>3 DEF LockShared, Gate1!Block
  <2> QED
    BY <1>7, <2>2, <2>3 DEF LockShared
<1>8. ASSUME NEW t \in Threads, SharedEnter(t) PROVE TypeOK'
  BY <1>8, <1>a DEF SharedEnter, EnterShared, SharedShut, Awake
<1>9. ASSUME NEW t \in Threads, UnlockShared(t) PROVE TypeOK'
  <2>1. Readers # {}
    BY <1>9 DEF UnlockShared, Readers
  <2>2. readers' \in 0 .. MaxReaders
    BY <1>9, <1>a, <2>1, ReadersCounted DEF UnlockShared, SharedInv
  <2>3. gate1_' \subseteq gate1_ /\ gate2_' \subseteq gate2_
    BY <1>9 DEF UnlockShared, Gate1!NotifyOne, Gate2!NotifyOne
  <2>4. /\ pc[t] = "reading" /\ pc' = [pc EXCEPT ![t] = "idle"]
        /\ deadline' = [deadline EXCEPT ![t] = "none"]
        /\ write_entered_' = write_entered_
    BY <1>9 DEF UnlockShared
  <2> QED
    BY <1>a, <2>2, <2>3, <2>4
<1>10. ASSUME NEW t \in Threads, DeadlinePasses(t) \/ Wakeup(t) PROVE TypeOK'
  BY <1>10, <1>a DEF DeadlinePasses, Wakeup, Gate1!Unblock, Gate2!Unblock
<1>11. CASE UNCHANGED vars
  BY <1>11, <1>a DEF vars
<1> QED
  BY <1>1, <1>2, <1>3, <1>4, <1>5, <1>6, <1>7, <1>8, <1>9, <1>10, <1>11
     DEF Next

\* Only who finds the bit reset sets it, and the thread it was set for resets
\* it; a reader enters only past a reset bit, so a writer that has entered
\* sees the number of readers fall to nothing.
LEMMA SharedKept == SharedInv /\ [Next]_vars => SharedInv'
<1> SUFFICES ASSUME SharedInv, [Next]_vars PROVE SharedInv'
  OBVIOUS
<1>a. /\ TypeOK /\ TypeOK' /\ readers = Cardinality(Readers)
      /\ IF write_entered_ THEN \E w \in Threads : Writers = {w}
                           ELSE Writers = {}
      /\ At("writing") # {} => readers = 0
      /\ pc \in [Threads -> {"idle", "reading", "writing",
                 "shared_gate1", "lock_gate1", "lock_gate2"}]
      /\ At("writing") \subseteq Writers
  BY SharedTypeKept DEF SharedInv, TypeOK, Writers
<1>1. ASSUME NEW t \in Threads, pc[t] \in {"idle", "lock_gate1"},
             Enter(t) \/ TryLock(t)
      PROVE  SharedInv'
  <2>1. ~write_entered_ /\ write_entered_' /\ readers' = readers
    BY <1>1 DEF Enter, TryLock
  <2>2. PICK label \in {"writing", "lock_gate2"} :
          /\ pc' = [pc EXCEPT ![t] = label]
          /\ label = "writing" => readers = 0
    BY <1>1 DEF Enter, TryLock, Become
  <2>3. Readers' = Readers
    BY <1>1, <1>a, <2>2 DEF Readers, At
  <2>4. Writers' = {t}
    BY <1>a, <2>1, <2>2 DEF Writers, At
  <2>5. At("writing")' # {} => readers = 0
    BY <1>a, <2>1, <2>2 DEF At
  <2> QED
    BY <1>a, <2>1, <2>3, <2>4, <2>5 DEF SharedInv
<1>2. ASSUME NEW t \in Threads, LockTake(t) PROVE SharedInv'
  <2>1. /\ readers = 0 /\ UNCHANGED <<write_entered_, readers>>
        /\ pc[t] = "lock_gate2" /\ pc' = [pc EXCEPT ![t] = "writing"]
    BY <1>2 DEF LockTake, Awake, Become
  <2>2. Readers' = Readers /\ Writers' = Writers
    BY <1>a, <2>1 DEF Readers, Writers, At
  <2> QED
    BY <1>a, <2>1, <2>2 DEF SharedInv
<1>3. ASSUME NEW t \in Threads, LockGiveUp2(t) \/ Unlock(t) PROVE SharedInv'
  <2>1. /\ ~write_entered_'
        /\ pc[t] \in {"writing", "lock_gate2"} /\ pc' = [pc EXCEPT ![t] = "idle"]
        /\ readers' = readers
    BY <1>3, <1>a DEF LockGiveUp2, Unlock, Awake, Become, At
  <2>2. Writers = {t}
    BY <1>a, <2>1 DEF Writers, At
  <2>3. Readers' = Readers /\ Writers' = {} /\ At("writing")' = {}
    BY <1>a, <2>1, <2>2 DEF Readers, Writers, At
  <2> QED
    BY <1>a, <2>1, <2>3 DEF SharedInv
<1>4. ASSUME NEW t \in Threads, pc[t] \in {"idle", "shared_gate1"},
             EnterShared(t)
      PROVE  SharedInv'
  <2>1. /\ ~write_entered_ /\ ~write_entered_' /\ readers' = readers + 1
        /\ pc' = [pc EXCEPT ![t] = "reading"]
    BY <1>4 DEF EnterShared, SharedShut, Become
  <2>2. t \notin Readers /\ Readers' = Readers \cup {t}
    BY <1>4, <1>a, <2>1 DEF Readers, At
  <2>3. Writers' = {} /\ At("writing")' = {}
    BY <1>a, <2>1 DEF Writers, At
  <2> QED
    BY <1>a, <2>1, <2>2, <2>3, ReadersCounted DEF SharedInv
<1>5. ASSUME NEW t \in Threads, UnlockShared(t) PROVE SharedInv'
  <2>1. /\ write_entered_' = write_entered_ /\ readers' = readers - 1
        /\ pc[t] = "reading" /\ pc' = [pc EXCEPT ![t] = "idle"]
    BY <1>5 DEF UnlockShared, Become
  <2>2. t \in Readers /\ Readers' = Readers \ {t}
    BY <1>a, <2>1 DEF Readers, At
  <2>3. Writers' = Writers /\ At("writing")' = At("writing")
    BY <1>a, <2>1 DEF Writers, At
  <2>4. At("writing") = {}
    BY <1>a, <2>2, ReadersCounted
  <2> QED
    BY <1>a, <2>1, <2>2, <2>3, <2>4, ReadersCounted DEF SharedInv
<1>6. ASSUME UNCHANGED <<write_entered_, readers>>,
             UNCHANGED <<Readers, Writers, At("writing")>>
      PROVE  SharedInv'
  BY <1>6, <1>a DEF SharedInv
<1>7. ASSUME NEW t \in Threads,
             \/ LockSleep1(t) \/ LockSleep2(t) \/ SharedSleep(t)
             \/ DeadlinePasses(t) \/ Wakeup(t)
      PROVE  SharedInv'
  <2>1. UNCHANGED <<write_entered_, readers, pc>>
    BY <1>7 DEF LockSleep1, LockSleep2, SharedSleep, DeadlinePasses, Wakeup
  <2> QED
    BY <1>6, <2>1 DEF Readers, Writers, At
<1>8. ASSUME NEW t \in Threads, UNCHANGED <<write_entered_, readers>>,
             pc[t] \in {"idle", "lock_gate1", "shared_gate1"},
             NEW label \in {"idle", "lock_gate1", "shared_gate1"},
             pc' = [pc EXCEPT ![t] = label]
      PROVE  SharedInv'
  <2>1. UNCHANGED <<Readers, Writers, At("writing")>>
    BY <1>8, <1>a DEF Readers, Writers, At
  <2> QED
    BY <1>6, <1>8, <2>1
<1>9. CASE UNCHANGED vars
  BY <1>6, <1>9 DEF vars, Readers, Writers, At
<1>10. ASSUME NEW t \in Threads, Lock(t) \/ TryLock(t) \/ LockEnter(t)
       PROVE  SharedInv'
  BY <1>10, <1>1, <1>8 DEF Lock, TryLock, LockEnter, Awake, Call, Become
<1>11. ASSUME NEW t \in Threads, LockShared(t) \/ SharedEnter(t)
       PROVE  SharedInv'
  BY <1>11, <1>4, <1>8 DEF LockShared, SharedEnter, Awake, Call, Become
<1>12. ASSUME NEW t \in Threads, LockGiveUp1(t) \/ SharedGiveUp(t)
       PROVE  SharedInv'
  BY <1>12, <1>8 DEF LockGiveUp1, SharedGiveUp, Awake, Become
<1> QED
  BY <1>2, <1>3, <1>5, <1>7, <1>9, <1>10, <1>11, <1>12 DEF Next

\* A gate is opened by the step that wakes its sleepers.  Leaving a full lock
\* wakes one, and there is no other one while at most one more than MaxReaders
\* threads use the lock; at gate2_ the one writer that has entered sleeps.
LEMMA GatesKept ==
    ASSUME SharedInv, NoSleeperAtOpenGate,
           Cardinality(Threads) <= MaxReaders + 1, [Next]_vars
    PROVE  NoSleeperAtOpenGate'
<1>a. /\ gate1_ \subseteq At("shared_gate1") \cup At("lock_gate1")
      /\ gate2_ \subseteq At("lock_gate2")
      /\ readers \in 0 .. MaxReaders /\ readers = Cardinality(Readers)
      /\ IF write_entered_ THEN \E w \in Threads : Writers = {w}
                           ELSE Writers = {}
      /\ At("writing") # {} => readers = 0
      /\ gate1_ # {} => write_entered_ \/ readers = MaxReaders
      /\ gate2_ # {} => readers # 0
  BY DEF SharedInv, TypeOK, NoSleeperAtOpenGate, SharedShut
<1> USE DEF NoSleeperAtOpenGate, SharedShut
<1>1. ASSUME NEW t \in Threads, Enter(t) PROVE NoSleeperAtOpenGate'
  BY <1>1, <1>a DEF Enter, Gate2!Block
<1>2. ASSUME NEW t \in Threads, Lock(t) \/ TryLock(t) \/ LockEnter(t)
      PROVE  NoSleeperAtOpenGate'
  BY <1>1, <1>2, <1>a DEF Lock, TryLock, LockEnter
<1>3. ASSUME NEW t \in Threads,
             LockSleep1(t) \/ LockSleep2(t) \/ SharedSleep(t)
      PROVE  NoSleeperAtOpenGate'
  BY <1>3, <1>a DEF LockSleep1, LockSleep2, SharedSleep
<1>4. ASSUME NEW t \in Threads,
             \/ LockGiveUp1(t) \/ SharedGiveUp(t) \/ LockTake(t)
             \/ DeadlinePasses(t)
      PROVE  NoSleeperAtOpenGate'
  BY <1>4, <1>a DEF LockGiveUp1, SharedGiveUp, LockTake, DeadlinePasses
<1>5. ASSUME NEW t \in Threads, LockGiveUp2(t) PROVE NoSleeperAtOpenGate'
  BY <1>5, <1>a DEF LockGiveUp2, Gate1!NotifyAll
<1>6. ASSUME NEW t \in Threads, Unlock(t) PROVE NoSleeperAtOpenGate'
  <2>1. readers = 0 /\ gate2_ = {}
    BY <1>6, <1>a DEF Unlock, At
  <2> QED
    BY <1>6, <2>1 DEF Unlock, Gate1!NotifyAll
<1>7. ASSUME NEW t \in Threads, LockShared(t) \/ SharedEnter(t)
      PROVE  NoSleeperAtOpenGate'
  BY <1>7, <1>a DEF LockShared, SharedEnter, EnterShared
<1>8. ASSUME NEW t \in Threads, UnlockShared(t) PROVE NoSleeperAtOpenGate'
  <2>1. /\ readers' = readers - 1 /\ write_entered_' = write_entered_
        /\ pc[t] = "reading"
    BY <1>8 DEF UnlockShared
  <2>2. CASE write_entered_
    <3>1. gate1_' = gate1_
          /\ IF readers' = 0 THEN Gate2!NotifyOne ELSE UNCHANGED gate2_
      BY <1>8, <2>2 DEF UnlockShared
    <3>2. \A u, v \in gate2_ : u = v
      BY <1>a, <2>2 DEF Writers
    <3>3. readers' = 0 => gate2_' = {}
      BY <3>1, <3>2 DEF Gate2!NotifyOne
    <3> QED
      BY <2>1, <2>2, <3>3
  <2>3. CASE ~write_entered_
    <3>1. gate2_' = gate2_ /\ gate2_ = {}
      BY <1>8, <1>a, <2>3 DEF UnlockShared, Writers
    <3>2. gate1_' # {} => readers = MaxReaders
      <4>1. gate1_' \subseteq gate1_
        BY <1>8, <2>3 DEF UnlockShared, Gate1!NotifyOne
      <4> QED
        BY <1>a, <2>3, <4>1
    <3>3. ASSUME readers = MaxReaders PROVE gate1_' = {}
      <4>1. Gate1!NotifyOne
        BY <1>8, <2>1, <2>3, <3>3 DEF UnlockShared
      <4>2. \A u, v \in gate1_ : u = v
        <5>1. SUFFICES ASSUME NEW u \in gate1_, NEW v \in gate1_, u # v
                       PROVE  FALSE
          OBVIOUS
        <5>2. /\ Readers \in SUBSET Threads /\ u \in Threads \ Readers
              /\ v \in Threads \ (Readers \cup {u})
          BY <1>a, <5>1 DEF Readers, At
        <5>3. Cardinality(Readers \cup {u}) = Cardinality(Readers) + 1
          BY <5>2, Comes
        <5>4. /\ Readers \cup {u} \in SUBSET Threads
              /\ (Readers \cup {u}) \cup {v} \in SUBSET Threads
          BY <5>2
        <5>5. Cardinality((Readers \cup {u}) \cup {v})
                = Cardinality(Readers \cup {u}) + 1
          BY <5>2, <5>4, Comes
        <5>6. Cardinality((Readers \cup {u}) \cup {v}) <= Cardinality(Threads)
          BY <5>4, Counting
        <5>7. Cardinality(Threads) \in Nat
          BY <5>4, Counting
        <5> QED
          BY <1>a, <3>3, <5>3, <5>5, <5>6, <5>7
      <4> QED
        BY <4>1, <4>2 DEF Gate1!NotifyOne
    <3> QED
      BY <3>1, <3>2, <3>3
  <2> QED
    BY <2>2, <2>3
<1>9. ASSUME NEW t \in Threads, Wakeup(t) PROVE NoSleeperAtOpenGate'
  BY <1>9, <1>a DEF Wakeup, Gate1!Unblock, Gate2!Unblock
<1>10. CASE UNCHANGED vars
  BY <1>10, <1>a DEF vars
<1> QED
  BY <1>2, <1>3, <1>4, <1>5, <1>6, <1>7, <1>8, <1>9, <1>10 DEF Next

\* A step of shared_mutex is one of SharedExclusion or none: a reader comes in
\* only while no writer is inside, a writer only while nobody is.
LEMMA SharedSteps ==
    SharedInv /\ [Next]_vars => [Abstract!Next]_(Abstract!vars)
<1> USE DEF At
<1> SUFFICES ASSUME SharedInv, [Next]_vars
             PROVE  Abstract!Next \/ UNCHANGED Abstract!vars
  OBVIOUS
<1>a. /\ pc \in [Threads -> {"idle", "reading", "writing",
                 "shared_gate1", "lock_gate1", "lock_gate2"}]
      /\ readers = Cardinality(At("reading"))
      /\ IF write_entered_
            THEN \E w \in Threads :
                    At("writing") \cup At("lock_gate2") = {w}
            ELSE At("writing") \cup At("lock_gate2") = {}
      /\ readers = 0 <=> At("reading") = {}
      /\ At("writing") # {} => readers = 0
  <2>1. TypeOK
    BY DEF SharedInv
  <2> QED
    BY <2>1, ReadersCounted DEF SharedInv, TypeOK, Readers, Writers
<1>1. ASSUME NEW t \in Threads, Lock(t)
      PROVE  Abstract!ArriveExclusive(t) \/ Abstract!AcquireExclusive(t)
  <2>1. pc[t] = "idle"
    BY <1>1 DEF Lock, Call
  <2>2. CASE /\ pc' = [pc EXCEPT ![t] = "writing"]
             /\ ~write_entered_ /\ readers = 0
    BY <1>a, <2>1, <2>2 DEF Abstract!AcquireExclusive
  <2>3. ASSUME NEW label \in {"lock_gate1", "lock_gate2"},
               pc' = [pc EXCEPT ![t] = label]
        PROVE  Abstract!ArriveExclusive(t)
    BY <1>a, <2>1, <2>3 DEF Abstract!ArriveExclusive, Abstract!Busy
  <2> QED
    BY <1>1, <2>2, <2>3 DEF Lock, Enter, Become
<1>2. ASSUME NEW t \in Threads, TryLock(t) PROVE Abstract!AcquireExclusive(t)
  <2>1. /\ pc[t] = "idle" /\ pc' = [pc EXCEPT ![t] = "writing"]
        /\ ~write_entered_ /\ readers = 0
    BY <1>2 DEF TryLock, Become
  <2> QED
    BY <1>a, <2>1 DEF Abstract!AcquireExclusive
<1>3. ASSUME NEW t \in Threads, LockEnter(t)
      PROVE  Abstract!AcquireExclusive(t) \/ UNCHANGED Abstract!vars
  <2>1. pc[t] = "lock_gate1"
    BY <1>3 DEF LockEnter, Awake
  <2>2. CASE /\ pc' = [pc EXCEPT ![t] = "writing"]
             /\ ~write_entered_ /\ readers = 0
    BY <1>a, <2>1, <2>2 DEF Abstract!AcquireExclusive
  <2>3. CASE pc' = [pc EXCEPT ![t] = "lock_gate2"]
    BY <1>a, <2>1, <2>3 DEF Abstract!vars
  <2> QED
    BY <1>3, <2>2, <2>3 DEF LockEnter, Enter, Become
<1>4. ASSUME NEW t \in Threads, LockTake(t) PROVE Abstract!AcquireExclusive(t)
  <2>1. /\ readers = 0 /\ pc[t] = "lock_gate2"
        /\ pc' = [pc EXCEPT ![t] = "writing"]
    BY <1>4 DEF LockTake, Awake, Become
  <2>2. At("writing") = {} /\ At("reading") = {} /\ At("lock_gate2") = {t}
    BY <1>a, <2>1
  <2> QED
    BY <1>a, <2>1, <2>2 DEF Abstract!AcquireExclusive
<1>5. ASSUME NEW t \in Threads,
             LockGiveUp1(t) \/ LockGiveUp2(t) \/ SharedGiveUp(t)
      PROVE  Abstract!GiveUp(t)
  <2>1. /\ pc[t] \in {"shared_gate1", "lock_gate1", "lock_gate2"}
        /\ pc' = [pc EXCEPT ![t] = "idle"]
    BY <1>5 DEF LockGiveUp1, LockGiveUp2, SharedGiveUp, Awake, Become
  <2> QED
    BY <1>a, <2>1 DEF Abstract!GiveUp
<1>6. ASSUME NEW t \in Threads, Unlock(t) PROVE Abstract!ReleaseExclusive(t)
  <2>1. pc[t] = "writing" /\ pc' = [pc EXCEPT ![t] = "idle"]
    BY <1>6 DEF Unlock, Become
  <2> QED
    BY <1>a, <2>1 DEF Abstract!ReleaseExclusive
<1>7. ASSUME NEW t \in Threads, LockShared(t)
      PROVE  Abstract!ArriveShared(t) \/ Abstract!AcquireShared(t)
  <2>1. pc[t] = "idle"
    BY <1>7 DEF LockShared, Call
  <2>2. CASE pc' = [pc EXCEPT ![t] = "reading"] /\ ~write_entered_
    BY <1>a, <2>1, <2>2 DEF Abstract!AcquireShared
  <2>3. CASE pc' = [pc EXCEPT ![t] = "shared_gate1"]
    BY <1>a, <2>1, <2>3 DEF Abstract!ArriveShared, Abstract!Busy
  <2> QED
    BY <1>7, <2>2, <2>3 DEF LockShared, EnterShared, SharedShut, Become
<1>8. ASSUME NEW t \in Threads, SharedEnter(t) PROVE Abstract!AcquireShared(t)
  <2>1. /\ pc[t] = "shared_gate1" /\ pc' = [pc EXCEPT ![t] = "reading"]
        /\ ~write_entered_
    BY <1>8 DEF SharedEnter, EnterShared, SharedShut, Awake, Become
  <2> QED
    BY <1>a, <2>1 DEF Abstract!AcquireShared
<1>9. ASSUME NEW t \in Threads, UnlockShared(t) PROVE Abstract!ReleaseShared(t)
  <2>1. pc[t] = "reading" /\ pc' = [pc EXCEPT ![t] = "idle"]
    BY <1>9 DEF UnlockShared, Become
  <2> QED
    BY <1>a, <2>1 DEF Abstract!ReleaseShared
<1>10. ASSUME NEW t \in Threads,
              \/ LockSleep1(t) \/ LockSleep2(t) \/ SharedSleep(t)
              \/ DeadlinePasses(t) \/ Wakeup(t)
       PROVE  UNCHANGED Abstract!vars
  BY <1>10 DEF LockSleep1, LockSleep2, SharedSleep, DeadlinePasses, Wakeup,
       Abstract!vars
<1>11. CASE UNCHANGED vars
  BY <1>11 DEF vars, Abstract!vars
<1> QED
  BY <1>1, <1>2, <1>3, <1>4, <1>5, <1>6, <1>7, <1>8, <1>9, <1>10, <1>11
     DEF Next, Abstract!Next

------------------------------------------------------------------------------
(* lock(), try_lock() and scoped_lock                                      *)

\* The n-th argument of a call, counted in the cycle from the one that it
\* begins with.
Nth(args, begin, n) == args[((begin + n) % Len(args)) + 1]

\* An index that has run at most once around.
Around(x, length) == IF x < length THEN x ELSE x - length

\* It is the remainder that the code takes.
LEMMA AroundOnce ==
    ASSUME NEW L \in Nat \ {0}
    PROVE  \A x \in 0 .. 2 * L - 1 : x % L = Around(x, L)
BY DEF Around

\* The cycle goes through all the arguments, each once.
LEMMA Cycle ==
    ASSUME NEW args \in Orders, NEW begin \in 0 .. Len(args) - 1
    PROVE  /\ Len(args) \in Nat \ {0, 1}
           /\ \A i \in 1 .. Len(args) : args[i] \in Mutexes
           /\ \A n \in 0 .. Len(args) - 1 :
                /\ Nth(args, begin, n) \in Mutexes
                /\ (begin + n) % Len(args) \in 0 .. Len(args) - 1
           /\ \A n, m \in 0 .. Len(args) - 1 :
                Nth(args, begin, n) = Nth(args, begin, m) => n = m
           /\ \A n \in 0 .. Len(args) - 1 : \E i \in 1 .. Len(args) :
                args[i] = Nth(args, begin, n)
           /\ \A i \in 1 .. Len(args) : \E n \in 0 .. Len(args) - 1 :
                args[i] = Nth(args, begin, n)
<1> DEFINE L == Len(args)
<1>1. /\ args \in Seq(Mutexes) /\ L \in Nat \ {0, 1}
      /\ \A i, j \in 1 .. L : args[i] = args[j] => i = j
  BY LenProperties
<1>2. \A i \in 1 .. L : args[i] \in Mutexes
  BY <1>1
<1> HIDE DEF L
<1>3. begin \in 0 .. L - 1
  BY DEF L
<1>4. \A x \in 0 .. 2 * L - 1 : x % L = Around(x, L)
  BY <1>1, AroundOnce
<1>5. \A n \in 0 .. L - 1 : begin + n \in 0 .. 2 * L - 1
  BY <1>1, <1>3
<1>6. \A n \in 0 .. L - 1 : (begin + n) % L = Around(begin + n, L)
  BY <1>4, <1>5
<1>7. \A n \in 0 .. L - 1 : Around(begin + n, L) \in 0 .. L - 1
  <2>1. L \in Nat /\ L > 1
    BY <1>1
  <2> QED
    BY <1>3, <2>1 DEF Around
<1>8. \A n \in 0 .. L - 1 : Around(begin + n, L) + 1 \in 1 .. L
  <2>1. L \in Nat /\ L > 1
    BY <1>1
  <2> QED
    BY <1>3, <2>1 DEF Around
<1>9. \A n \in 0 .. L - 1 :
        Nth(args, begin, n) = args[Around(begin + n, L) + 1]
  BY <1>6 DEF Nth, L
<1>10. \A n, m \in 0 .. L - 1 :
         Around(begin + n, L) + 1 = Around(begin + m, L) + 1 => n = m
  BY <1>1, <1>3 DEF Around
<1>11. \A i \in 1 .. L : \E n \in 0 .. L - 1 : Around(begin + n, L) + 1 = i
  <2> TAKE i \in 1 .. L
  <2>1. CASE i - 1 >= begin
    <3>1. i - 1 - begin \in 0 .. L - 1
          /\ Around(begin + (i - 1 - begin), L) + 1 = i
      BY <1>1, <1>3, <2>1 DEF Around
    <3> QED
      BY <3>1
  <2>2. CASE i - 1 < begin
    <3>1. i - 1 - begin + L \in 0 .. L - 1
          /\ Around(begin + (i - 1 - begin + L), L) + 1 = i
      BY <1>1, <1>3, <2>2 DEF Around
    <3> QED
      BY <3>1
  <2> QED
    BY <1>1, <1>3, <2>1, <2>2
<1>12. /\ \A n \in 0 .. L - 1 : \E i \in 1 .. L : args[i] = Nth(args, begin, n)
       /\ \A i \in 1 .. L : \E n \in 0 .. L - 1 : args[i] = Nth(args, begin, n)
  BY <1>8, <1>9, <1>11
<1>13. \A n, m \in 0 .. L - 1 :
         Nth(args, begin, n) = Nth(args, begin, m) => n = m
  BY <1>1, <1>8, <1>9, <1>10
<1>14. \A n \in 0 .. L - 1 : /\ Nth(args, begin, n) \in Mutexes
                             /\ (begin + n) % L \in 0 .. L - 1
  <2> TAKE n \in 0 .. L - 1
  <2>1. (begin + n) % L \in 0 .. L - 1
    BY <1>6, <1>7
  <2>2. Around(begin + n, L) + 1 \in 1 .. L
    BY <1>8
  <2>3. Nth(args, begin, n) \in Mutexes
    BY <1>2, <1>9, <2>2
  <2> QED
    BY <2>1, <2>3
<1> QED
  BY <1>1, <1>2, <1>12, <1>13, <1>14 DEF L

\* What a thread has in the place where it is: a call, as many mutexes as it
\* took since the one that it began with; a holder, those it has not unlocked.
Given(t) ==
    IF s_pc[t] = "holding"
    THEN {s_order[t][i] : i \in Len(s_order[t]) - s_taken[t] + 1
                                    .. Len(s_order[t])}
    ELSE {Nth(s_order[t], s_start[t], n) : n \in 0 .. s_taken[t] - 1}

\* A thread has that and no other mutex, and is back at the beginning of an
\* empty list whenever it can start another call.
Sound(t) ==
    /\ s_start[t] < Len(s_order[t]) /\ s_next[t] < Len(s_order[t])
    /\ s_taken[t] <= Len(s_order[t])
    /\ s_pc[t] = "idle" => s_start[t] = 0
    /\ s_pc[t] \in {"idle", "block"} => s_taken[t] = 0
    /\ s_pc[t] = "try" => s_taken[t] < Len(s_order[t])
    /\ s_pc[t] = "holding" => s_taken[t] > 0
    /\ s_pc[t] # "back" => s_next[t] = 0
    /\ Several!Owned(t) = Given(t)

SeveralTypes ==
    /\ s_owner \in [Mutexes -> Threads \cup {NoThread}]
    /\ s_order \in [Threads -> Orders]
    /\ s_pc \in [Threads -> {"idle", "block", "try", "back", "holding"}]
    /\ s_retrying \in [Threads -> BOOLEAN]
    /\ s_start \in [Threads -> Nat] /\ s_taken \in [Threads -> Nat]
    /\ s_next \in [Threads -> Nat]

SeveralInv == SeveralTypes /\ \A t \in Threads : Sound(t)

\* What the invariant says of the run's properties.
LEMMA SeveralSays ==
    SeveralInv => Several!TypeOK /\ Several!AllTaken /\ Several!NothingKept
<1> SUFFICES ASSUME SeveralInv
             PROVE  Several!TypeOK /\ Several!AllTaken /\ Several!NothingKept
  OBVIOUS
<1>1. Several!TypeOK
  BY DEF SeveralInv, SeveralTypes, Sound, Several!TypeOK, Several!Count
<1>2. Several!AllTaken
  BY DEF SeveralInv, Sound, Given, Several!AllTaken, Several!Count
<1>3. ASSUME NEW t \in Threads, s_pc[t] \in {"idle", "block"}
      PROVE  Several!Owned(t) = {}
  <2>1. s_taken[t] = 0 /\ s_pc[t] # "holding" /\ Several!Owned(t) = Given(t)
    BY <1>3 DEF SeveralInv, Sound
  <2>2. 0 .. s_taken[t] - 1 = {}
    BY <2>1
  <2> QED
    BY <2>1, <2>2 DEF Given
<1> QED
  BY <1>1, <1>2, <1>3 DEF Several!NothingKept

\* At first all the mutexes are free and all the calls still to come.
LEMMA SeveralStarts == Several!Init => SeveralInv
<1> SUFFICES ASSUME Several!Init PROVE SeveralInv
  OBVIOUS
<1>1. SeveralTypes
  BY DEF Several!Init, SeveralTypes
<1>2. ASSUME NEW t \in Threads PROVE Sound(t)
  <2>1. /\ s_pc[t] = "idle" /\ s_start[t] = 0 /\ s_taken[t] = 0 /\ s_next[t] = 0
        /\ s_order[t] \in Orders
    BY <1>1 DEF Several!Init, SeveralTypes
  <2>2. Len(s_order[t]) > 0
    BY <2>1
  <2>3. Several!Owned(t) = {}
    BY DEF Several!Init, Several!Owned
  <2>4. 0 .. s_taken[t] - 1 = {}
    BY <2>1
  <2>5. Given(t) = {}
    BY <2>1, <2>4 DEF Given
  <2> QED
    BY <2>1, <2>2, <2>3, <2>5 DEF Sound
<1> QED
  BY <1>1, <1>2 DEF SeveralInv

\* A thread that does not move stays sound while nobody takes from it, or
\* gives to it.
LEMMA OthersSound ==
    ASSUME SeveralInv, NEW t \in Threads, NEW u \in Threads \ {t},
           NEW order, NEW label, NEW begin, NEW took, NEW after,
           \/ s_order' = s_order \/ s_order' = [s_order EXCEPT ![t] = order],
           \/ s_pc' = s_pc \/ s_pc' = [s_pc EXCEPT ![t] = label],
           \/ s_start' = s_start \/ s_start' = [s_start EXCEPT ![t] = begin],
           \/ s_taken' = s_taken \/ s_taken' = [s_taken EXCEPT ![t] = took],
           \/ s_next' = s_next \/ s_next' = [s_next EXCEPT ![t] = after],
           Several!Owned(u)' = Several!Owned(u)
    PROVE  Sound(u)'
<1>1. /\ s_order'[u] = s_order[u] /\ s_pc'[u] = s_pc[u]
      /\ s_start'[u] = s_start[u] /\ s_taken'[u] = s_taken[u]
      /\ s_next'[u] = s_next[u]
  BY DEF SeveralInv, SeveralTypes
<1>2. Sound(u)
  BY DEF SeveralInv
<1>3. Given(u)' = Given(u)
  BY <1>1 DEF Given
<1> QED
  BY <1>1, <1>2, <1>3 DEF Sound

\* A free mutex taken, and one of its own given back.
LEMMA OwnerMoves ==
    ASSUME SeveralInv, NEW t \in Threads, NEW m \in Mutexes
    PROVE  /\ s_owner[m] = NoThread /\ s_owner' = [s_owner EXCEPT ![m] = t]
              => /\ Several!Owned(t)' = Several!Owned(t) \cup {m}
                 /\ \A u \in Threads \ {t} :
                        Several!Owned(u)' = Several!Owned(u)
           /\ /\ m \in Several!Owned(t)
              /\ s_owner' = [s_owner EXCEPT ![m] = NoThread]
              => /\ Several!Owned(t)' = Several!Owned(t) \ {m}
                 /\ \A u \in Threads \ {t} :
                        Several!Owned(u)' = Several!Owned(u)
           /\ s_owner' = s_owner
              => \A u \in Threads : Several!Owned(u)' = Several!Owned(u)
BY DEF SeveralInv, SeveralTypes, Several!Owned

\* A call takes the next mutex of its cycle and gives back the last, and a
\* holder unlocks in the order of the list: each has what its place says, and
\* a call that waits or has failed has nothing.
LEMMA SeveralKept ==
    SeveralInv /\ [Several!Next]_(Several!vars) => SeveralInv'
<1> SUFFICES ASSUME SeveralInv, [Several!Next]_(Several!vars)
             PROVE  SeveralInv'
  OBVIOUS
<1>0. SeveralTypes /\ \A t \in Threads : Sound(t)
  BY DEF SeveralInv
<1>a. \A t \in Threads : /\ Several!Count(t) = Len(s_order[t])
                         /\ \A n : Several!Mutex(t, n)
                                    = Nth(s_order[t], s_start[t], n)
  BY DEF Several!Count, Several!Mutex, Nth
<1>b. ASSUME NEW t \in Threads
      PROVE  /\ s_order[t] \in Orders
             /\ s_start[t] \in 0 .. Len(s_order[t]) - 1
             /\ Len(s_order[t]) \in Nat \ {0, 1}
             /\ s_taken[t] \in 0 .. Len(s_order[t])
             /\ s_pc[t] \in {"idle", "block", "try", "back", "holding"}
  <2>1. /\ s_order[t] \in Orders /\ s_start[t] \in Nat /\ s_taken[t] \in Nat
        /\ s_pc[t] \in {"idle", "block", "try", "back", "holding"}
    BY <1>0 DEF SeveralTypes
  <2>2. Len(s_order[t]) \in Nat \ {0, 1}
    BY <2>1, LenProperties
  <2>3. s_start[t] < Len(s_order[t]) /\ s_taken[t] <= Len(s_order[t])
    BY <1>0 DEF Sound
  <2> QED
    BY <2>1, <2>2, <2>3
<1>1. ASSUME NEW t \in Threads, NEW args \in Orders,
             Several!Lock(t, args) \/ Several!TryLock(t, args)
      PROVE  SeveralInv'
  <2>1. PICK label \in {"block", "try"}, retry \in BOOLEAN :
          /\ s_pc[t] = "idle" /\ s_pc' = [s_pc EXCEPT ![t] = label]
          /\ s_order' = [s_order EXCEPT ![t] = args]
          /\ s_retrying' = [s_retrying EXCEPT ![t] = retry]
          /\ UNCHANGED <<s_owner, s_start, s_taken, s_next>>
    BY <1>1 DEF Several!Lock, Several!TryLock, Several!Goto
  <2>2. SeveralTypes'
    BY <1>0, <2>1 DEF SeveralTypes
  <2>3. \A u \in Threads : Several!Owned(u)' = Several!Owned(u)
    BY <2>1 DEF Several!Owned
  <2>4. ASSUME NEW u \in Threads \ {t} PROVE Sound(u)'
    BY <2>1, <2>3, OthersSound
  <2>5. Sound(t)'
    <3>1. /\ s_start[t] = 0 /\ s_taken[t] = 0 /\ s_next[t] = 0
          /\ Several!Owned(t) = Given(t)
      BY <1>0, <2>1 DEF Sound
    <3>2. 0 .. s_taken[t] - 1 = {}
      BY <3>1
    <3>3. Given(t) = {}
      BY <2>1, <3>2 DEF Given
    <3>4. s_pc'[t] = label /\ s_order'[t] = args
      BY <1>0, <2>1 DEF SeveralTypes
    <3>5. Given(t)' = {}
      BY <2>1, <3>2, <3>4 DEF Given
    <3>6. Len(args) \in Nat /\ Len(args) > 0
      OBVIOUS
    <3> QED
      BY <2>1, <2>3, <3>1, <3>3, <3>4, <3>5, <3>6 DEF Sound
  <2> QED
    BY <2>2, <2>4, <2>5 DEF SeveralInv
<1>2. ASSUME NEW t \in Threads, Several!Block(t) \/ Several!TryNext(t)
      PROVE  SeveralInv'
  <2> DEFINE args == s_order[t]
             m == Nth(args, s_start[t], s_taken[t])
  <2>1. s_taken[t] < Len(args)
    BY <1>0, <1>2, <1>b DEF Several!Block, Several!TryNext, Several!Goto, Sound
  <2>2. PICK label \in {"try", "holding"} :
          /\ s_pc[t] \in {"block", "try"} /\ s_pc' = [s_pc EXCEPT ![t] = label]
          /\ label = "holding" <=> s_taken[t] + 1 = Len(args)
    <3>1. CASE Several!Block(t)
      <4>1. s_taken[t] = 0
        BY <1>0, <3>1 DEF Several!Block, Several!Goto, Sound
      <4> QED
        BY <1>b, <3>1, <4>1 DEF Several!Block, Several!Goto
    <3>2. CASE Several!TryNext(t)
      BY <1>a, <3>2 DEF Several!TryNext, Several!Goto
    <3> QED
      BY <1>2, <3>1, <3>2
  <2>3. /\ s_owner[m] = NoThread /\ s_owner' = [s_owner EXCEPT ![m] = t]
        /\ s_taken' = [s_taken EXCEPT ![t] = s_taken[t] + 1]
        /\ UNCHANGED <<s_order, s_retrying, s_start, s_next>>
    BY <1>2, <1>a DEF Several!Block, Several!TryNext, Several!Take
  <2>a. s_taken[t] \in 0 .. Len(args) - 1
    BY <1>b, <2>1
  <2>4. m \in Mutexes
    BY <1>b, <2>a, Cycle
  <2>5. SeveralTypes'
    BY <1>0, <2>2, <2>3, <2>4 DEF SeveralTypes
  <2>6. /\ Several!Owned(t)' = Several!Owned(t) \cup {m}
        /\ \A u \in Threads \ {t} : Several!Owned(u)' = Several!Owned(u)
    BY <2>3, <2>4, OwnerMoves
  <2>7. ASSUME NEW u \in Threads \ {t} PROVE Sound(u)'
    BY <2>2, <2>3, <2>6, OthersSound
  <2>8. /\ s_pc'[t] = label /\ s_taken'[t] = s_taken[t] + 1
        /\ s_order'[t] = args /\ s_start'[t] = s_start[t]
        /\ s_next'[t] = s_next[t]
    BY <1>0, <2>2, <2>3 DEF SeveralTypes
  <2>9. Given(t)' = Given(t) \cup {m}
    <3>1. Given(t) = {Nth(args, s_start[t], n) : n \in 0 .. s_taken[t] - 1}
      BY <2>2 DEF Given
    <3>2. Given(t) \cup {m}
            = {Nth(args, s_start[t], n) : n \in 0 .. s_taken[t]}
      BY <1>b, <3>1
    <3>3. CASE label = "try"
      <4>1. (s_taken[t] + 1) - 1 = s_taken[t]
        BY <1>b
      <4> QED
        BY <2>8, <3>2, <3>3, <4>1 DEF Given
    <3>4. CASE label = "holding"
      <4>1. /\ s_taken[t] = Len(args) - 1
            /\ Len(args) - (s_taken[t] + 1) + 1 = 1
        BY <1>b, <2>2, <3>4
      <4>2. Given(t)' = {args[i] : i \in 1 .. Len(args)}
        BY <2>8, <3>4, <4>1 DEF Given
      <4>3. {Nth(args, s_start[t], n) : n \in 0 .. Len(args) - 1}
              = {args[i] : i \in 1 .. Len(args)}
        <5>1. /\ \A n \in 0 .. Len(args) - 1 : \E i \in 1 .. Len(args) :
                    args[i] = Nth(args, s_start[t], n)
              /\ \A i \in 1 .. Len(args) : \E n \in 0 .. Len(args) - 1 :
                    args[i] = Nth(args, s_start[t], n)
          BY <1>b, Cycle
        <5>2. ASSUME NEW n \in 0 .. Len(args) - 1
              PROVE  Nth(args, s_start[t], n) \in {args[i] : i \in 1 .. Len(args)}
          BY <5>1
        <5>3. ASSUME NEW i \in 1 .. Len(args)
              PROVE  args[i] \in {Nth(args, s_start[t], n)
                                    : n \in 0 .. Len(args) - 1}
          BY <5>1
        <5> QED
          BY <5>2, <5>3
      <4> QED
        BY <3>2, <4>1, <4>2, <4>3
    <3> QED
      BY <2>2, <3>3, <3>4
  <2>10. Sound(t)'
    <3>1. Sound(t)
      BY <1>0
    <3>2. Several!Owned(t)' = Given(t)'
      BY <2>6, <2>9, <3>1 DEF Sound
    <3>3. s_taken[t] + 1 <= Len(args) /\ s_taken[t] + 1 > 0
      BY <1>b, <2>a
    <3>4. label = "try" => s_taken[t] + 1 < Len(args)
      <4>1. s_taken[t] + 1 # Len(args) => s_taken[t] + 1 < Len(args)
        BY <1>b, <2>a
      <4> QED
        BY <2>2, <4>1
    <3> QED
      BY <2>2, <2>8, <3>1, <3>2, <3>3, <3>4 DEF Sound
  <2> QED
    BY <2>5, <2>7, <2>10 DEF SeveralInv
<1>3. ASSUME NEW t \in Threads, Several!TryFails(t) PROVE SeveralInv'
  <2> DEFINE args == s_order[t]
             after == (s_start[t] + s_taken[t]) % Len(args)
  <2>1. /\ s_pc[t] = "try" /\ s_pc' = [s_pc EXCEPT ![t] = "back"]
        /\ s_next' = [s_next EXCEPT ![t] = after]
        /\ UNCHANGED <<s_owner, s_order, s_retrying, s_start, s_taken>>
    BY <1>3, <1>a DEF Several!TryFails, Several!Goto
  <2>2. s_taken[t] \in 0 .. Len(args) - 1
    BY <1>0, <1>b, <2>1 DEF Sound
  <2>3. after \in 0 .. Len(args) - 1
    BY <1>b, <2>2, Cycle
  <2>4. SeveralTypes'
    <3>1. after \in Nat
      BY <1>b, <2>3
    <3> HIDE DEF after
    <3> QED
      BY <1>0, <2>1, <3>1 DEF SeveralTypes
  <2>5. \A u \in Threads : Several!Owned(u)' = Several!Owned(u)
    BY <2>1 DEF Several!Owned
  <2>6. ASSUME NEW u \in Threads \ {t} PROVE Sound(u)'
    BY <2>1, <2>5, OthersSound
  <2>7. Sound(t)'
    <3>1. /\ s_pc'[t] = "back" /\ s_next'[t] = after
      BY <1>0, <2>1 DEF SeveralTypes
    <3>2. Given(t)' = Given(t)
      BY <2>1, <3>1 DEF Given
    <3>3. after < Len(args)
      BY <1>b, <2>3
    <3>4. Sound(t)
      BY <1>0
    <3> HIDE DEF after
    <3> QED
      BY <2>1, <2>5, <3>1, <3>2, <3>3, <3>4 DEF Sound
  <2> QED
    BY <2>4, <2>6, <2>7 DEF SeveralInv
<1>4. ASSUME NEW t \in Threads, Several!GiveBack(t) PROVE SeveralInv'
  <2> DEFINE args == s_order[t]
             m == Nth(args, s_start[t], s_taken[t] - 1)
  <2>1. /\ s_pc[t] = "back" /\ s_taken[t] > 0
        /\ s_owner' = [s_owner EXCEPT ![m] = NoThread]
        /\ s_taken' = [s_taken EXCEPT ![t] = s_taken[t] - 1]
        /\ UNCHANGED <<s_order, s_pc, s_retrying, s_start, s_next>>
    BY <1>4, <1>a DEF Several!GiveBack
  <2>2. s_taken[t] - 1 \in 0 .. Len(args) - 1
    BY <1>b, <2>1
  <2>3. Several!Owned(t) = {Nth(args, s_start[t], n) : n \in 0 .. s_taken[t] - 1}
    BY <1>0, <2>1 DEF Sound, Given
  <2>4. m \in Mutexes /\ m \in Several!Owned(t)
    <3>1. m \in Mutexes
      BY <1>b, <2>2, Cycle
    <3>2. s_taken[t] - 1 \in 0 .. s_taken[t] - 1
      BY <2>2
    <3> QED
      BY <2>3, <3>1, <3>2
  <2>5. /\ Several!Owned(t)' = Several!Owned(t) \ {m}
        /\ \A u \in Threads \ {t} : Several!Owned(u)' = Several!Owned(u)
    BY <2>1, <2>4, OwnerMoves
  <2>6. ASSUME NEW u \in Threads \ {t} PROVE Sound(u)'
    BY <2>1, <2>5, OthersSound
  <2>7. s_taken'[t] = s_taken[t] - 1 /\ s_taken'[t] \in Nat
    BY <1>0, <2>1, <2>2 DEF SeveralTypes
  <2>8. SeveralTypes'
    <3>1. s_taken' \in [Threads -> Nat]
      BY <1>0, <2>1, <2>7 DEF SeveralTypes
    <3>2. s_owner' \in [Mutexes -> Threads \cup {NoThread}]
      BY <1>0, <2>1 DEF SeveralTypes
    <3> QED
      BY <1>0, <2>1, <3>1, <3>2 DEF SeveralTypes
  <2>9. Given(t)' = Several!Owned(t) \ {m}
    <3>1. Given(t)' = {Nth(args, s_start[t], n)
                        : n \in 0 .. (s_taken[t] - 1) - 1}
      BY <2>1, <2>7 DEF Given
    <3>2. \A n \in 0 .. s_taken[t] - 1 :
            n \in 0 .. (s_taken[t] - 1) - 1 <=> n # s_taken[t] - 1
      BY <2>2
    <3>3. \A n \in 0 .. (s_taken[t] - 1) - 1 : n \in 0 .. s_taken[t] - 1
      BY <2>2
    <3>4. \A n \in 0 .. s_taken[t] - 1 :
            Nth(args, s_start[t], n) = m => n = s_taken[t] - 1
      <4>1. \A n \in 0 .. s_taken[t] - 1 : n \in 0 .. Len(args) - 1
        BY <1>b, <2>2
      <4>2. \A i, j \in 0 .. Len(args) - 1 :
              Nth(args, s_start[t], i) = Nth(args, s_start[t], j) => i = j
        BY <1>b, Cycle
      <4> QED
        BY <2>2, <4>1, <4>2
    <3> QED
      BY <2>3, <3>1, <3>2, <3>3, <3>4
  <2>10. Sound(t)'
    <3>1. Sound(t)
      BY <1>0
    <3>2. s_taken[t] - 1 <= Len(args)
      BY <1>b, <2>2
    <3> QED
      BY <2>1, <2>5, <2>7, <2>9, <3>1, <3>2 DEF Sound
  <2> QED
    BY <2>6, <2>8, <2>10 DEF SeveralInv
<1>5. ASSUME NEW t \in Threads, Several!Leave(t) PROVE SeveralInv'
  <2>1. PICK label \in {"block", "idle"}, begin \in {0, s_next[t]} :
          /\ s_pc[t] = "back" /\ s_pc' = [s_pc EXCEPT ![t] = label]
          /\ s_start' = [s_start EXCEPT ![t] = begin]
          /\ s_next' = [s_next EXCEPT ![t] = 0]
          /\ label = "idle" => begin = 0
          /\ s_taken[t] = 0
          /\ UNCHANGED <<s_owner, s_order, s_retrying, s_taken>>
    BY <1>5 DEF Several!Leave, Several!Goto
  <2>2. SeveralTypes'
    BY <1>0, <2>1 DEF SeveralTypes
  <2>3. \A u \in Threads : Several!Owned(u)' = Several!Owned(u)
    BY <2>1 DEF Several!Owned
  <2>4. ASSUME NEW u \in Threads \ {t} PROVE Sound(u)'
    BY <2>1, <2>3, OthersSound
  <2>5. /\ s_pc'[t] = label /\ s_start'[t] = begin /\ s_next'[t] = 0
        /\ s_order' = s_order /\ s_taken'[t] = 0
    BY <1>0, <2>1 DEF SeveralTypes
  <2>6. Sound(t)'
    <3>1. Sound(t)
      BY <1>0
    <3>2. 0 .. s_taken[t] - 1 = {} /\ s_taken' = s_taken
      BY <2>1
    <3>3. Given(t) = {}
      BY <2>1, <3>2 DEF Given
    <3>4. Given(t)' = {}
      BY <2>5, <3>2 DEF Given
    <3>5. begin < Len(s_order[t]) /\ 0 < Len(s_order[t])
      BY <1>b, <2>1, <3>1 DEF Sound
    <3>6. 0 <= Len(s_order[t])
      BY <1>b
    <3> QED
      BY <2>1, <2>3, <2>5, <3>1, <3>3, <3>4, <3>5, <3>6 DEF Sound
  <2> QED
    BY <2>2, <2>4, <2>6 DEF SeveralInv
<1>6. ASSUME NEW t \in Threads, Several!Unlock(t) PROVE SeveralInv'
  <2> DEFINE args == s_order[t]
             i == Len(args) - s_taken[t] + 1
             m == args[i]
  <2>1. PICK label \in {"idle", "holding"} :
          /\ s_pc[t] = "holding" /\ s_pc' = [s_pc EXCEPT ![t] = label]
          /\ label = "idle" <=> s_taken[t] = 1
          /\ s_owner' = [s_owner EXCEPT ![m] = NoThread]
          /\ s_taken' = [s_taken EXCEPT ![t] = s_taken[t] - 1]
          /\ s_start' = [s_start EXCEPT ![t] = 0]
          /\ UNCHANGED <<s_order, s_retrying, s_next>>
    BY <1>6, <1>a DEF Several!Unlock, Several!Goto
  <2>2. s_taken[t] \in 1 .. Len(args) /\ i \in 1 .. Len(args)
    BY <1>0, <1>b, <2>1 DEF Sound
  <2>3. Several!Owned(t) = {args[n] : n \in i .. Len(args)}
    BY <1>0, <2>1 DEF Sound, Given
  <2>4. m \in Mutexes /\ m \in Several!Owned(t)
    <3>1. m \in Mutexes
      BY <1>b, <2>2, Cycle
    <3>2. i \in i .. Len(args)
      BY <1>b, <2>2
    <3> QED
      BY <2>3, <3>1, <3>2
  <2>5. /\ Several!Owned(t)' = Several!Owned(t) \ {m}
        /\ \A u \in Threads \ {t} : Several!Owned(u)' = Several!Owned(u)
    BY <2>1, <2>4, OwnerMoves
  <2>6. ASSUME NEW u \in Threads \ {t} PROVE Sound(u)'
    BY <2>1, <2>5, OthersSound
  <2>7. /\ s_taken'[t] = s_taken[t] - 1 /\ s_taken'[t] \in Nat
        /\ s_pc'[t] = label /\ s_start'[t] = 0
    BY <1>0, <2>1, <2>2 DEF SeveralTypes
  <2>8. SeveralTypes'
    <3>1. s_taken' \in [Threads -> Nat]
      BY <1>0, <2>1, <2>7 DEF SeveralTypes
    <3>2. s_owner' \in [Mutexes -> Threads \cup {NoThread}]
      BY <1>0, <2>1 DEF SeveralTypes
    <3>3. /\ s_start' \in [Threads -> Nat]
          /\ s_pc' \in [Threads -> {"idle", "block", "try", "back", "holding"}]
      BY <1>0, <2>1 DEF SeveralTypes
    <3> QED
      BY <1>0, <2>1, <3>1, <3>2, <3>3 DEF SeveralTypes
  <2>9. Several!Owned(t) \ {m} = {args[n] : n \in i + 1 .. Len(args)}
    <3>1. \A n \in i .. Len(args) : n \in 1 .. Len(args)
      BY <1>b, <2>2
    <3>2. \A n \in i .. Len(args) : args[n] = m => n = i
      BY <1>b, <2>2, <3>1
    <3>3. \A n \in i .. Len(args) : n \in i + 1 .. Len(args) <=> n # i
      BY <1>b, <2>2
    <3>4. \A n \in i + 1 .. Len(args) : n \in i .. Len(args)
      BY <1>b, <2>2
    <3> QED
      BY <2>3, <3>2, <3>3, <3>4
  <2>10. Given(t)' = Several!Owned(t) \ {m}
    <3>1. CASE label = "holding"
      <4>1. Len(args) - (s_taken[t] - 1) + 1 = i + 1
        BY <1>b, <2>2
      <4> QED
        BY <2>1, <2>7, <2>9, <3>1, <4>1 DEF Given
    <3>2. CASE label = "idle"
      <4>1. 0 .. (s_taken[t] - 1) - 1 = {} /\ i + 1 .. Len(args) = {}
        BY <1>b, <2>1, <2>2, <3>2
      <4>2. Given(t)' = {}
        BY <2>1, <2>7, <3>2, <4>1 DEF Given
      <4> QED
        BY <2>9, <4>1, <4>2
    <3> QED
      BY <3>1, <3>2
  <2>11. Sound(t)'
    <3>1. Sound(t)
      BY <1>0
    <3>2. /\ s_taken[t] - 1 <= Len(args) /\ 0 < Len(args)
          /\ label = "idle" => s_taken[t] - 1 = 0
          /\ label = "holding" => s_taken[t] - 1 > 0
      BY <1>b, <2>1, <2>2, SMTT(30)
    <3> QED
      BY <2>1, <2>5, <2>7, <2>10, <3>1, <3>2 DEF Sound
  <2> QED
    BY <2>6, <2>8, <2>11 DEF SeveralInv
<1>7. CASE UNCHANGED Several!vars
  BY <1>7, <1>0
     DEF Several!vars, SeveralInv, SeveralTypes, Sound, Given, Several!Owned
<1> QED
  BY <1>1, <1>2, <1>3, <1>4, <1>5, <1>6, <1>7 DEF Several!Next, Several!InCall

------------------------------------------------------------------------------
(* The five side by side                                                   *)

\* Every component keeps its invariant.
LEMMA MutexesHold ==
    AllSpec => [](SharedInv /\ TimedInv /\ RecursiveInv /\ SeveralInv /\ UniqueInv)
<1>1. AllInit => SharedInv /\ TimedInv /\ RecursiveInv /\ SeveralInv /\ UniqueInv
  BY SharedStarts, TimedStarts, RecursiveStarts, SeveralStarts, UniqueStarts
     DEF AllInit
<1>2. /\ SharedInv /\ TimedInv /\ RecursiveInv /\ SeveralInv /\ UniqueInv
      /\ [AllNext]_<<mutex, m_vars, t_vars, r_vars, s_vars, u_vars>>
      => SharedInv' /\ TimedInv' /\ RecursiveInv' /\ SeveralInv' /\ UniqueInv'
  BY EachSteps, SharedKept, TimedKept, RecursiveKept, SeveralKept, UniqueKept
<1> QED
  BY <1>1, <1>2, PTL DEF AllSpec

\* The word of shared_mutex and the owner and count of recursive_timed_mutex
\* are what their calls returned, lock() and try_lock() return with all of
\* their mutexes, wherever in the list lock() began, and a lock is owed by one
\* unique_lock, or by the client, at most.
THEOREM BooksBalance == AllSpec => []Consistent
<1>1. SharedInv /\ TimedInv /\ RecursiveInv /\ SeveralInv /\ UniqueInv
        => Consistent
  <2>1. SharedInv => TypeOK /\ WordTold
    BY SharedWord DEF SharedInv
  <2>2. TimedInv => Timed!TypeOK
    BY DEF TimedInv
  <2>3. RecursiveInv => Recursive!TypeOK /\ Recursive!OwnerTold
    BY DEF RecursiveInv
  <2>4. UniqueInv => Unique!TypeOK /\ Unique!OwedOnce
    BY DEF UniqueInv
  <2> QED
    BY <2>1, <2>2, <2>3, <2>4, SeveralSays DEF Consistent
<1> QED
  BY <1>1, MutexesHold, PTL

\* A thread that waits on one of several mutexes, or returns from try_lock()
\* without them, holds none of them: no cycle of waiting threads can close,
\* whatever the order of the arguments.
THEOREM WaitersHoldNothing == AllSpec => []NothingKept
<1>1. SeveralInv => NothingKept
  BY SeveralSays DEF NothingKept
<1> QED
  BY <1>1, MutexesHold, PTL

\* No thread sleeps on at a mutex that it could take, unless another one is
\* about to see to it.  The hypothesis is what n_readers_, some two thousand
\* million, gives every program: unlock_shared() of a full shared_mutex wakes
\* one reader, which is not enough when two sleep.
THEOREM NobodyForgotten ==
    ASSUME Cardinality(Threads) <= MaxReaders + 1
    PROVE  AllSpec => []NoLostWakeup
<1>1. AllInit => NoSleeperAtOpenGate
  BY SharedStarts DEF AllInit
<1>2. /\ SharedInv /\ NoSleeperAtOpenGate
      /\ [AllNext]_<<mutex, m_vars, t_vars, r_vars, s_vars, u_vars>>
      => NoSleeperAtOpenGate'
  BY EachSteps, GatesKept
<1>3. TimedInv /\ RecursiveInv /\ NoSleeperAtOpenGate => NoLostWakeup
  BY DEF TimedInv, RecursiveInv, NoLostWakeup
<1> QED
  BY <1>1, <1>2, <1>3, MutexesHold, PTL DEF AllSpec

\* Mutual exclusion of timed_mutex in the terms of the code: one holder at
\* most, and the flag tells of it.
THEOREM OneHolder == AllSpec => []FlagTold
<1>1. TimedInv => FlagTold
  BY DEF TimedInv
<1> QED
  BY <1>1, MutexesHold, PTL

\* Every behaviour of timed_mutex is one of MutualExclusion with timed
\* attempts, its fairness apart: the mutex is taken only while nobody holds it,
\* and an attempt fails only while somebody does, whenever its deadline passes.
THEOREM TimedStepsImplementMutex ==
    AllSpec => /\ Timed!Abstract!Init
               /\ [][Timed!Abstract!NextTimed]_(Timed!Abstract!vars)
<1>1. AllInit => Timed!Abstract!Init
  BY DEF AllInit, Timed!Init, Timed!At, Timed!Abstract!Init
<1>2. /\ TimedInv
      /\ [AllNext]_<<mutex, m_vars, t_vars, r_vars, s_vars, u_vars>>
      => [Timed!Abstract!NextTimed]_(Timed!Abstract!vars)
  BY EachSteps, TimedSteps
<1> QED
  BY <1>1, <1>2, MutexesHold, PTL DEF AllSpec

\* So is every behaviour of recursive_timed_mutex, between the first lock and
\* the last unlock of each holder.
THEOREM RecursiveStepsImplementMutex ==
    AllSpec => /\ Recursive!Abstract!Init
               /\ [][Recursive!Abstract!NextTimed]_(Recursive!Abstract!vars)
<1>1. AllInit => Recursive!Abstract!Init
  BY DEF AllInit, Recursive!Init, Recursive!Abstract!Init
<1>2. /\ RecursiveInv
      /\ [AllNext]_<<mutex, m_vars, t_vars, r_vars, s_vars, u_vars>>
      => [Recursive!Abstract!NextTimed]_(Recursive!Abstract!vars)
  BY EachSteps, RecursiveSteps
<1> QED
  BY <1>1, <1>2, MutexesHold, PTL DEF AllSpec

\* Every behaviour of shared_mutex is one of SharedExclusion, its fairness
\* apart: readers and a writer are never inside together.
THEOREM SharedStepsImplementLock == AllSpec => Abstract!Safety
<1>1. AllInit => Abstract!Init
  BY DEF AllInit, Init, At, Abstract!Init
<1>2. /\ SharedInv
      /\ [AllNext]_<<mutex, m_vars, t_vars, r_vars, s_vars, u_vars>>
      => [Abstract!Next]_(Abstract!vars)
  BY EachSteps, SharedSteps
<1> QED
  BY <1>1, <1>2, MutexesHold, PTL DEF AllSpec, Abstract!Safety
==============================================================================
