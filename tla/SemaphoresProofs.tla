-------------------------- MODULE SemaphoresProofs --------------------------
(***************************************************************************)
(* What is proved of the semaphores of sync/semaphore.hpp for any finite   *)
(* set of threads, any initial count and any bound: the two counters of    *)
(* fast_semaphore balance, semaphore strands no token beside threads that  *)
(* sleep, and every step of both is a step of CountingSemaphore.           *)
(***************************************************************************)
EXTENDS MCSemaphores, FiniteSetTheorems, TLAPS

USE ThreadsAssumption, CountAssumption

------------------------------------------------------------------------------
(* How the number of threads at a label changes when one of them moves.    *)

\* The threads at a label are finitely many, at most all.
LEMMA AtFinite ==
    ASSUME NEW label
    PROVE  /\ IsFiniteSet(At(label)) /\ Cardinality(At(label)) \in Nat
           /\ IsFiniteSet(At(label)') /\ Cardinality(At(label))' \in Nat
           /\ Cardinality(At(label)) <= Cardinality(Threads)
           /\ Cardinality(At(label))' <= Cardinality(Threads)
           /\ Cardinality(Threads) \in Nat
<1>1. At(label) \in SUBSET Threads /\ At(label)' \in SUBSET Threads
  BY DEF At
<1> QED
  BY <1>1, FS_Subset, FS_CardinalityType

\* A thread that goes from one label to another changes two of the numbers.
LEMMA Moved ==
    ASSUME pc \in [Threads -> {"idle", "wait", "slow_wait", "slow_post"}],
           NEW t \in Threads, NEW from, NEW to, from # to, Goto(t, from, to)
    PROVE  /\ Cardinality(At(from))' = Cardinality(At(from)) - 1
           /\ Cardinality(At(to))' = Cardinality(At(to)) + 1
<1>1. At(from)' = At(from) \ {t} /\ t \in At(from)
  BY DEF At, Goto
<1>2. At(to)' = At(to) \cup {t} /\ t \notin At(to)
  BY DEF At, Goto
<1>3. IsFiniteSet(At(from)) /\ IsFiniteSet(At(to))
  BY AtFinite
<1>4. Cardinality(At(from) \ {t}) = Cardinality(At(from)) - 1
  BY <1>1, <1>3, FS_RemoveElement
<1>5. Cardinality(At(to) \cup {t}) = Cardinality(At(to)) + 1
  BY <1>2, <1>3, FS_AddElement
<1> QED
  BY <1>1, <1>2, <1>4, <1>5

\* It changes no other one, and none at all if it stays.
LEMMA Stayed ==
    ASSUME pc \in [Threads -> {"idle", "wait", "slow_wait", "slow_post"}],
           NEW t \in Threads, NEW from, NEW to, Goto(t, from, to),
           NEW label, (label # from /\ label # to) \/ from = to
    PROVE  At(label)' = At(label)
BY DEF At, Goto

------------------------------------------------------------------------------
\* What the balance rests on: the counters are integers, and neither the
\* bound on posts nor the slow semaphore's own floor is passed.
CountersInt ==
    /\ count_ \in Int /\ count_ <= MaxCount
    /\ semaphore_ \in Nat
    /\ pc \in [Threads -> {"idle", "wait", "slow_wait", "slow_post"}]

\* The balance of the two counters, through every interleaving of the two
\* steps of post() and wait(), with the types it needs: it is inductive, as a
\* step that moves a thread along the slow path changes one counter with it.
THEOREM BooksBalance == Spec => [](CountersInt /\ SlowPathBalance)
<1> USE DEF CountersInt, SlowPathBalance, NonNegative
<1>1. Init => CountersInt /\ SlowPathBalance
  <2> SUFFICES ASSUME Init PROVE CountersInt /\ SlowPathBalance
    OBVIOUS
  <2>1. At("slow_wait") = {} /\ At("slow_post") = {}
    BY DEF Init, At
  <2> QED
    BY <2>1, FS_EmptySet DEF Init
<1>2. CountersInt /\ SlowPathBalance /\ [Next]_vars
      => (CountersInt /\ SlowPathBalance)'
  <2> SUFFICES ASSUME CountersInt, SlowPathBalance, [Next]_vars
               PROVE  CountersInt' /\ SlowPathBalance'
    OBVIOUS
  <2>0. /\ Cardinality(At("slow_wait")) \in Nat
        /\ Cardinality(At("slow_post")) \in Nat
    BY AtFinite
  <2>1. ASSUME NEW t \in Threads, Post(t)
        PROVE  CountersInt' /\ SlowPathBalance'
    <3>1. CountersInt'
      BY <2>1 DEF Post, Goto
    <3>2. At("slow_wait")' = At("slow_wait")
      BY <2>1, Stayed DEF Post
    <3>3. CASE count_ < 0
      <4>1. Cardinality(At("slow_post"))' = Cardinality(At("slow_post")) + 1
        BY <2>1, <3>3, Moved DEF Post
      <4> QED
        BY <2>0, <2>1, <3>1, <3>2, <3>3, <4>1 DEF Post
    <3>4. CASE ~(count_ < 0)
      <4>1. At("slow_post")' = At("slow_post")
        BY <2>1, <3>4, Stayed DEF Post
      <4> QED
        BY <2>0, <2>1, <3>1, <3>2, <3>4, <4>1 DEF Post
    <3> QED
      BY <3>3, <3>4
  <2>2. ASSUME NEW t \in Threads, SlowPost(t)
        PROVE  CountersInt' /\ SlowPathBalance'
    <3>1. CountersInt' /\ semaphore_' = semaphore_ + 1 /\ count_' = count_
      BY <2>2 DEF SlowPost, Slow!Release, Goto
    <3>2. At("slow_wait")' = At("slow_wait")
      BY <2>2, Stayed DEF SlowPost
    <3>3. Cardinality(At("slow_post"))' = Cardinality(At("slow_post")) - 1
      BY <2>2, Moved DEF SlowPost
    <3> QED
      BY <2>0, <3>1, <3>2, <3>3
  <2>3. ASSUME NEW t \in Threads, Wait(t) \/ FastTake(t)
        PROVE  CountersInt' /\ SlowPathBalance'
    <3>1. CountersInt' /\ semaphore_' = semaphore_
          /\ NonNegative(-count_)' = NonNegative(-count_)
      BY <2>3 DEF Wait, FastTake, Goto
    <3>2. /\ At("slow_wait")' = At("slow_wait")
          /\ At("slow_post")' = At("slow_post")
      BY <2>3, Stayed DEF Wait, FastTake
    <3> QED
      BY <2>0, <3>1, <3>2
  <2>4. ASSUME NEW t \in Threads, SlowArrive(t)
        PROVE  CountersInt' /\ SlowPathBalance'
    <3>1. CountersInt' /\ semaphore_' = semaphore_
          /\ count_ < 1 /\ count_' = count_ - 1
      BY <2>4 DEF SlowArrive, Slow!Arrive, Goto
    <3>2. Cardinality(At("slow_wait"))' = Cardinality(At("slow_wait")) + 1
      BY <2>4, Moved DEF SlowArrive
    <3>3. At("slow_post")' = At("slow_post")
      BY <2>4, Stayed DEF SlowArrive
    <3> QED
      BY <2>0, <3>1, <3>2, <3>3
  <2>5. ASSUME NEW t \in Threads, SlowTake(t)
        PROVE  CountersInt' /\ SlowPathBalance'
    <3>1. CountersInt' /\ semaphore_' = semaphore_ - 1 /\ count_' = count_
      BY <2>5 DEF SlowTake, Slow!Acquire, Goto
    <3>2. Cardinality(At("slow_wait"))' = Cardinality(At("slow_wait")) - 1
      BY <2>5, Moved DEF SlowTake
    <3>3. At("slow_post")' = At("slow_post")
      BY <2>5, Stayed DEF SlowTake
    <3> QED
      BY <2>0, <3>1, <3>2, <3>3
  <2>6. CASE UNCHANGED vars
    BY <2>6 DEF vars, At
  <2> QED
    BY <2>1, <2>2, <2>3, <2>4, <2>5, <2>6 DEF Next
<1> QED
  BY <1>1, <1>2, PTL DEF Spec

\* The atomic counter never falls below the threads there are, nor does the slow
\* semaphore hold more tokens than threads: both follow from the balance.
LEMMA FastTypes == Spec => []TypeOK
<1>1. CountersInt /\ SlowPathBalance => TypeOK
  BY AtFinite DEF CountersInt, SlowPathBalance, NonNegative, TypeOK
<1> QED
  BY <1>1, BooksBalance, PTL

------------------------------------------------------------------------------
\* Every behaviour of sync::fast_semaphore is one of CountingSemaphore, its
\* fairness apart: the atomic operation of a post is the release, that of a
\* wait that finds a token the acquisition, and the detour through the slow
\* semaphore neither adds nor loses a token.
THEOREM StepsImplementSemaphore ==
    Spec => Abstract!Init /\ [][Abstract!Next]_(Abstract!vars)
<1> USE DEF CountersInt, SlowPathBalance, NonNegative
<1>1. Init => Abstract!Init
  <2> SUFFICES ASSUME Init PROVE Abstract!Init
    OBVIOUS
  <2>1. At("slow_wait") = {} /\ At("slow_post") = {} /\ At("wait") = {}
    BY DEF Init, At
  <2> QED
    BY <2>1, FS_EmptySet DEF Init, Abstract!Init
<1>2. CountersInt /\ SlowPathBalance /\ (CountersInt /\ SlowPathBalance)'
      /\ [Next]_vars => [Abstract!Next]_(Abstract!vars)
  <2> SUFFICES ASSUME CountersInt, SlowPathBalance, SlowPathBalance',
                      CountersInt', [Next]_vars
               PROVE  Abstract!Next \/ UNCHANGED Abstract!vars
    OBVIOUS
  <2> DEFINE value == NonNegative(count_) + semaphore_
                        + Cardinality(At("slow_post"))
             waiting == At("wait") \cup At("slow_wait")
  <2>0. \A label : /\ Cardinality(At(label)) \in Nat
                   /\ Cardinality(At(label))' \in Nat
                   /\ Cardinality(At(label))' <= Cardinality(Threads)
                   /\ Cardinality(Threads) \in Nat
    BY AtFinite
  <2>1. ASSUME NEW t \in Threads, Post(t) PROVE Abstract!Next
    <3>1. value' = value + 1
      <4>1. CASE count_ < 0
        <5>1. Cardinality(At("slow_post"))' = Cardinality(At("slow_post")) + 1
          BY <2>1, <4>1, Moved DEF Post
        <5> QED
          BY <2>0, <2>1, <4>1, <5>1 DEF Post
      <4>2. CASE ~(count_ < 0)
        <5>1. At("slow_post")' = At("slow_post")
          BY <2>1, <4>2, Stayed DEF Post
        <5> QED
          BY <2>0, <2>1, <4>2, <5>1 DEF Post
      <4> QED
        BY <4>1, <4>2
    <3>2. value \in Nat /\ value' <= MaxCount + Cardinality(Threads)
      <4>1. NonNegative(count_)' \in 0 .. MaxCount
        OBVIOUS
      <4>2. NonNegative(-count_)' \in Nat
        <5>1. -(count_') \in Int /\ \A n \in Int : NonNegative(n) \in Nat
          OBVIOUS
        <5>2. NonNegative(-count_)' = NonNegative(-(count_'))
          OBVIOUS
        <5> HIDE DEF NonNegative
        <5> QED
          BY <5>1, <5>2
      <4>3. Cardinality(At("slow_wait"))' = NonNegative(-count_)'
                  + semaphore_' + Cardinality(At("slow_post"))'
        BY DEF SlowPathBalance
      <4>4. /\ Cardinality(At("slow_post"))' \in Nat
            /\ Cardinality(At("slow_wait"))' \in 0 .. Cardinality(Threads)
        BY <2>0
      <4>5. value \in Nat
        BY <2>0
      <4> HIDE DEF NonNegative, SlowPathBalance
      <4> QED
        BY <2>0, <4>1, <4>2, <4>3, <4>4, <4>5
    <3>3. At("wait")' = At("wait") /\ At("slow_wait")' = At("slow_wait")
      BY <2>1, Stayed DEF Post
    <3>4. Abstract!Release(1)
      BY <3>1, <3>2, <3>3 DEF Abstract!Release
    <3>5. 1 \in 0 .. MaxCount + Cardinality(Threads)
      BY <2>0, <3>1, <3>2
    <3> QED
      BY <3>4, <3>5 DEF Abstract!Next
  <2>2. ASSUME NEW t \in Threads, SlowPost(t)
        PROVE  UNCHANGED Abstract!vars
    <3>1. Cardinality(At("slow_post"))' = Cardinality(At("slow_post")) - 1
      BY <2>2, Moved DEF SlowPost
    <3>2. At("wait")' = At("wait") /\ At("slow_wait")' = At("slow_wait")
      BY <2>2, Stayed DEF SlowPost
    <3>3. semaphore_' = semaphore_ + 1 /\ count_' = count_
      BY <2>2 DEF SlowPost, Slow!Release
    <3> QED
      BY <2>0, <3>1, <3>2, <3>3 DEF Abstract!vars
  <2>3. ASSUME NEW t \in Threads, Wait(t) PROVE Abstract!Arrive(t)
    <3>1. At("slow_post")' = At("slow_post")
      BY <2>3, Stayed DEF Wait
    <3>2. t \notin waiting /\ waiting' = waiting \cup {t}
      BY <2>3 DEF Wait, Goto, At
    <3> QED
      BY <2>3, <3>1, <3>2 DEF Wait, Abstract!Arrive
  <2>4. ASSUME NEW t \in Threads, FastTake(t) PROVE Abstract!Acquire(t)
    <3>1. At("slow_post")' = At("slow_post")
      BY <2>4, Stayed DEF FastTake
    <3>2. t \in waiting /\ waiting' = waiting \ {t}
      BY <2>4 DEF FastTake, Goto, At
    <3>3. value > 0 /\ value' = value - 1
      BY <2>0, <2>4, <3>1 DEF FastTake
    <3> QED
      BY <3>2, <3>3 DEF Abstract!Acquire
  <2>5. ASSUME NEW t \in Threads, SlowArrive(t)
        PROVE  UNCHANGED Abstract!vars
    <3>1. At("slow_post")' = At("slow_post")
      BY <2>5, Stayed DEF SlowArrive
    <3>2. waiting' = waiting
      BY <2>5 DEF SlowArrive, Goto, At
    <3>3. semaphore_' = semaphore_ /\ NonNegative(count_)' = NonNegative(count_)
      BY <2>5 DEF SlowArrive, Slow!Arrive
    <3> QED
      BY <3>1, <3>2, <3>3 DEF Abstract!vars
  <2>6. ASSUME NEW t \in Threads, SlowTake(t) PROVE Abstract!Acquire(t)
    <3>1. At("slow_post")' = At("slow_post")
      BY <2>6, Stayed DEF SlowTake
    <3>2. t \in waiting /\ waiting' = waiting \ {t}
      BY <2>6 DEF SlowTake, Goto, At
    <3>3. semaphore_ > 0 /\ semaphore_' = semaphore_ - 1 /\ count_' = count_
      BY <2>6 DEF SlowTake, Slow!Acquire
    <3> QED
      BY <2>0, <3>1, <3>2, <3>3 DEF Abstract!Acquire
  <2>7. CASE UNCHANGED vars
    BY <2>7 DEF vars, At, Abstract!vars
  <2> QED
    BY <2>1, <2>2, <2>3, <2>4, <2>5, <2>6, <2>7 DEF Next, Abstract!Next
<1> QED
  BY <1>1, <1>2, BooksBalance, PTL DEF Spec

------------------------------------------------------------------------------
\* Every variable keeps to its range; a thread asleep is inside a wait.
LEMMA PlainTypes == Plain!Spec => []Plain!TypeOK
<1> USE DEF Plain!TypeOK, Plain!Labels, Plain!Deadlines
<1>1. Plain!Init => Plain!TypeOK
  BY DEF Plain!Init
<1>2. Plain!TypeOK /\ [Plain!Next]_(Plain!vars) => Plain!TypeOK'
  <2> SUFFICES ASSUME Plain!TypeOK, [Plain!Next]_(Plain!vars) PROVE Plain!TypeOK'
    OBVIOUS
  <2> USE DEF Plain!Goto
  <2>1. ASSUME NEW t \in Threads, Plain!Post(t) PROVE Plain!TypeOK'
    BY <2>1 DEF Plain!Post
  <2>2. ASSUME NEW t \in Threads, Plain!SignalOne(t) PROVE Plain!TypeOK'
    BY <2>2 DEF Plain!SignalOne, Plain!NotifyOne
  <2>3. ASSUME NEW t \in Threads, NEW n \in 0 .. MaxCount, Plain!PostMany(t, n)
        PROVE Plain!TypeOK'
    BY <2>3 DEF Plain!PostMany
  <2>4. ASSUME NEW t \in Threads, Plain!SignalAll(t) PROVE Plain!TypeOK'
    BY <2>4 DEF Plain!SignalAll, Plain!NotifyAll
  <2>5. ASSUME NEW t \in Threads, Plain!Wait(t) \/ Plain!WaitUntil(t)
        PROVE  Plain!TypeOK'
    BY <2>5 DEF Plain!Wait, Plain!WaitUntil
  <2>6. ASSUME NEW t \in Threads, Plain!Take(t) \/ Plain!GiveUp(t)
        PROVE  Plain!TypeOK'
    BY <2>6 DEF Plain!Take, Plain!GiveUp, Plain!Awake
  <2>7. ASSUME NEW t \in Threads, Plain!Sleep(t) PROVE Plain!TypeOK'
    BY <2>7 DEF Plain!Sleep, Plain!Awake, Plain!Block
  <2>8. ASSUME NEW t \in Threads, Plain!DeadlinePasses(t) \/ Plain!Wakeup(t)
        PROVE  Plain!TypeOK'
    BY <2>8 DEF Plain!DeadlinePasses, Plain!Wakeup, Plain!Unblock
  <2>9. CASE UNCHANGED Plain!vars
    BY <2>9 DEF Plain!vars
  <2> QED
    BY <2>1, <2>2, <2>3, <2>4, <2>5, <2>6, <2>7, <2>8, <2>9 DEF Plain!Next
<1> QED
  BY <1>1, <1>2, PTL DEF Plain!Spec

------------------------------------------------------------------------------
(* How a step changes the set of stirring threads.                         *)

\* Semaphore counts as this module does.
LEMMA SameCardinality == \A S : Plain!Cardinality(S) = Cardinality(S)
BY DEF Plain!Cardinality, Cardinality

\* The stirring threads can be counted, in this state and the next one.
LEMMA StirringFinite ==
    /\ IsFiniteSet(Plain!Stirring) /\ Cardinality(Plain!Stirring) \in Nat
    /\ IsFiniteSet(Plain!Stirring') /\ Cardinality(Plain!Stirring)' \in Nat
<1>1. Plain!Stirring \in SUBSET Threads /\ Plain!Stirring' \in SUBSET Threads
  BY DEF Plain!Stirring
<1> QED
  BY <1>1, FS_Subset, FS_CardinalityType

\* If nobody stops stirring, the number of stirring threads does not fall.
LEMMA StirringGrows ==
    ASSUME Plain!Stirring \subseteq Plain!Stirring'
    PROVE  Cardinality(Plain!Stirring) <= Cardinality(Plain!Stirring)'
BY StirringFinite, FS_Subset

\* A thread that stirs and hands its task to a sleeper leaves their number
\* as it was.
LEMMA StirringHandedOver ==
    ASSUME NEW t \in Plain!Stirring, NEW w, w \notin Plain!Stirring,
           Plain!Stirring' = (Plain!Stirring \ {t}) \cup {w}
    PROVE  Cardinality(Plain!Stirring)' = Cardinality(Plain!Stirring)
<1>1. IsFiniteSet(Plain!Stirring \ {t})
      /\ Cardinality(Plain!Stirring \ {t}) = Cardinality(Plain!Stirring) - 1
  BY StirringFinite, FS_RemoveElement
<1>2. Cardinality((Plain!Stirring \ {t}) \cup {w})
        = Cardinality(Plain!Stirring \ {t}) + 1
  BY <1>1, FS_AddElement
<1> QED
  BY <1>1, <1>2, StirringFinite

------------------------------------------------------------------------------
\* While somebody sleeps, every token has a thread under way that takes it or
\* wakes a sleeper for it.  The invariant is inductive given the types: a post
\* adds a token and a stirring thread, a signal passes the stirring on to the
\* thread it wakes, a thread goes to sleep only when the counter is 0.
LEMMA PlainStrandsNone == Plain!Spec => []Plain!NoLostWakeup
<1>1. Plain!Init => Plain!NoLostWakeup
  BY DEF Plain!Init, Plain!NoLostWakeup
<1>2. Plain!TypeOK /\ Plain!NoLostWakeup /\ [Plain!Next]_(Plain!vars)
      => Plain!NoLostWakeup'
  <2> SUFFICES ASSUME Plain!TypeOK, Plain!NoLostWakeup,
                      [Plain!Next]_(Plain!vars)
               PROVE  Plain!NoLostWakeup'
    OBVIOUS
  <2> USE StirringFinite, SameCardinality 
         DEF Plain!Goto, Plain!NoLostWakeup, Plain!TypeOK, Plain!Labels
  <2>1. ASSUME NEW t \in Threads, Plain!Post(t) PROVE Plain!NoLostWakeup'
    <3>1. Plain!Stirring' = Plain!Stirring \cup {t} /\ t \notin Plain!Stirring
      BY <2>1 DEF Plain!Post, Plain!Stirring, Plain!Awake
    <3>2. Cardinality(Plain!Stirring)' = Cardinality(Plain!Stirring) + 1
      BY <3>1, FS_AddElement
    <3> QED
      BY <2>1, <3>2 DEF Plain!Post
  <2>2. ASSUME NEW t \in Threads, Plain!SignalOne(t) PROVE Plain!NoLostWakeup'
    <3>1. CASE s_sleepers = {}
      BY <2>2, <3>1 DEF Plain!SignalOne, Plain!NotifyOne
    <3>2. CASE s_sleepers # {}
      <4>1. PICK w \in s_sleepers : s_sleepers' = s_sleepers \ {w}
        BY <2>2, <3>2 DEF Plain!SignalOne, Plain!NotifyOne
      <4>2. w \in Threads /\ s_pc[w] = "waiting" /\ s_pc[t] = "notify_one"
        BY <2>2, <4>1 DEF Plain!SignalOne
      <4>3. t \in Plain!Stirring /\ w \notin Plain!Stirring
        BY <4>2 DEF Plain!Stirring, Plain!Awake
      <4>4. Plain!Stirring' = (Plain!Stirring \ {t}) \cup {w}
        BY <2>2, <4>1, <4>2 DEF Plain!SignalOne, Plain!Stirring, Plain!Awake
      <4>5. Cardinality(Plain!Stirring)' = Cardinality(Plain!Stirring)
        BY <4>3, <4>4, StirringHandedOver
      <4> QED
        BY <2>2, <3>2, <4>2, <4>5 DEF Plain!SignalOne
    <3> QED
      BY <3>1, <3>2
  <2>3. ASSUME NEW t \in Threads, NEW n \in 0 .. MaxCount, Plain!PostMany(t, n)
        PROVE Plain!NoLostWakeup'
    BY <2>3 DEF Plain!PostMany
  <2>4. ASSUME NEW t \in Threads, Plain!SignalAll(t) PROVE Plain!NoLostWakeup'
    BY <2>4 DEF Plain!SignalAll, Plain!NotifyAll
  <2>5. ASSUME NEW t \in Threads,
               \/ Plain!Wait(t) \/ Plain!WaitUntil(t)
               \/ Plain!Wakeup(t) \/ Plain!DeadlinePasses(t)
        PROVE Plain!NoLostWakeup'
    <3>1. Plain!Stirring \subseteq Plain!Stirring'
      BY <2>5 DEF Plain!Wait, Plain!WaitUntil, Plain!Wakeup, Plain!DeadlinePasses,
         Plain!Unblock,
                  Plain!Stirring, Plain!Awake
    <3>2. Cardinality(Plain!Stirring) <= Cardinality(Plain!Stirring)'
      BY <3>1, StirringGrows
    <3> QED
      BY <2>5, <3>2 DEF Plain!Wait, Plain!WaitUntil, Plain!Wakeup, Plain!DeadlinePasses,
         Plain!Unblock
  <2>6. ASSUME NEW t \in Threads, Plain!Take(t) PROVE Plain!NoLostWakeup'
    <3>1. Plain!Stirring' = Plain!Stirring \ {t} /\ t \in Plain!Stirring
      BY <2>6 DEF Plain!Take, Plain!Stirring, Plain!Awake
    <3>2. Cardinality(Plain!Stirring)' = Cardinality(Plain!Stirring) - 1
      BY <3>1, FS_RemoveElement
    <3> QED
      BY <2>6, <3>2 DEF Plain!Take
  <2>7. ASSUME NEW t \in Threads, Plain!Sleep(t) \/ Plain!GiveUp(t)
        PROVE  Plain!NoLostWakeup'
    <3>1. s_count' = 0
      BY <2>7 DEF Plain!Sleep, Plain!GiveUp
    <3> QED
      BY <3>1
  <2>8. CASE UNCHANGED Plain!vars
    <3>1. Plain!Stirring' = Plain!Stirring
      BY <2>8 DEF Plain!vars, Plain!Stirring, Plain!Awake
    <3> QED
      BY <2>8, <3>1 DEF Plain!vars
  <2> QED
    BY <2>1, <2>2, <2>3, <2>4, <2>5, <2>6, <2>7, <2>8
       DEF Plain!Next
<1> QED
  BY <1>1, <1>2, PlainTypes, PTL DEF Plain!Spec

------------------------------------------------------------------------------
\* Every behaviour of sync::semaphore is one of CountingSemaphore, its fairness
\* apart: the calls and the steps of the monitor map to Release, Arrive,
\* Acquire, GiveUp or to nothing.
THEOREM PlainStepsImplementSemaphore ==
    Plain!Spec => /\ Plain!Abstract!Init
                  /\ [][Plain!Abstract!Next]_(Plain!Abstract!vars)
<1>1. Plain!Init => Plain!Abstract!Init
  BY DEF Plain!Init, Plain!Abstract!Init
<1>2. Plain!TypeOK /\ [Plain!Next]_(Plain!vars)
      => [Plain!Abstract!Next]_(Plain!Abstract!vars)
  <2> SUFFICES ASSUME Plain!TypeOK, [Plain!Next]_(Plain!vars)
               PROVE  Plain!Abstract!Next \/ UNCHANGED Plain!Abstract!vars
    OBVIOUS
  <2> USE DEF Plain!Goto, Plain!TypeOK, Plain!Labels, Plain!Abstract!vars
  <2>1. ASSUME NEW t \in Threads, Plain!Post(t) PROVE Plain!Abstract!Release(1)
    BY <2>1 DEF Plain!Post, Plain!Abstract!Release
  <2>2. ASSUME NEW t \in Threads, NEW n \in 0 .. MaxCount, Plain!PostMany(t, n)
        PROVE  Plain!Abstract!Release(n)
    BY <2>2 DEF Plain!PostMany, Plain!Abstract!Release
  <2>3. ASSUME NEW t \in Threads, Plain!Wait(t) \/ Plain!WaitUntil(t)
        PROVE  Plain!Abstract!Arrive(t)
    BY <2>3 DEF Plain!Wait, Plain!WaitUntil, Plain!Abstract!Arrive
  <2>4. ASSUME NEW t \in Threads, Plain!Take(t) PROVE Plain!Abstract!Acquire(t)
    BY <2>4 DEF Plain!Take, Plain!Awake, Plain!Abstract!Acquire
  <2>5. ASSUME NEW t \in Threads, Plain!GiveUp(t) PROVE Plain!Abstract!GiveUp(t)
    BY <2>5 DEF Plain!GiveUp, Plain!Awake, Plain!Abstract!GiveUp
  <2>6. ASSUME NEW t \in Threads,
               \/ Plain!SignalOne(t) \/ Plain!SignalAll(t) \/ Plain!Sleep(t)
               \/ Plain!DeadlinePasses(t) \/ Plain!Wakeup(t)
        PROVE  UNCHANGED Plain!Abstract!vars
    BY <2>6 DEF Plain!SignalOne, Plain!SignalAll, Plain!Sleep,
         Plain!DeadlinePasses, Plain!Wakeup
  <2>7. CASE UNCHANGED Plain!vars
    BY <2>7 DEF Plain!vars
  <2>8. ASSUME NEW t \in Threads, Plain!Post(t) PROVE Plain!Abstract!Next
    <3>1. 1 \in 0 .. MaxCount
      BY <2>8 DEF Plain!Post
    <3> QED
      BY <2>1, <2>8, <3>1 DEF Plain!Abstract!Next
  <2> QED
    BY <2>2, <2>3, <2>4, <2>5, <2>6, <2>7, <2>8
       DEF Plain!Next, Plain!Abstract!Next
<1> QED
  BY <1>1, <1>2, PlainTypes, PTL DEF Plain!Spec

------------------------------------------------------------------------------
\* Each semaphore takes its own steps or stays as it is, so that a behaviour
\* of the two is a behaviour of each.
LEMMA EachSpec == AllSpec => Spec /\ Plain!Spec
<1>1. AllInit => Init /\ Plain!Init
  BY DEF AllInit
<1>2. [AllNext]_<<semaphore, vars, s_vars>>
        => [Next]_vars /\ [Plain!Next]_(Plain!vars)
  BY DEF AllNext, s_vars, vars, Plain!vars
<1> QED
  BY <1>1, <1>2, PTL DEF AllSpec, Spec, Plain!Spec

\* The variables of both semaphores keep to their ranges: no counter of
\* fast_semaphore falls below the threads there are or holds more tokens than
\* threads, and a thread asleep at semaphore is inside a wait.
THEOREM TypeCorrect == AllSpec => []TypesOK
<1>1. TypeOK /\ Plain!TypeOK => TypesOK
  BY DEF TypesOK
<1> QED
  BY <1>1, EachSpec, FastTypes, PlainTypes, PTL

\* However posts, timed waits and spurious wakeups interleave, no token of
\* semaphore is left beside threads that sleep with nobody about to see to it.
THEOREM NoTokenStranded == AllSpec => []NoLostWakeup
<1>1. Plain!NoLostWakeup => NoLostWakeup
  BY DEF NoLostWakeup
<1> QED
  BY <1>1, EachSpec, PlainStrandsNone, PTL
==============================================================================
