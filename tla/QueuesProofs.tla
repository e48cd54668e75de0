----------------------------- MODULE QueuesProofs -----------------------------
(***************************************************************************)
(* What is proved of the three queues of sync/queue.hpp for any finite set *)
(* of threads, any items and any capacity: no item of the unbounded queue  *)
(* is stranded beside sleepers, the ring of blocking_queue is sound, the   *)
(* counter of lock_free_queue stays in range, and every step of the two    *)
(* blocking queues, and of lock_free_queue while its callers take turns,   *)
(* is a step of Fifo.                                                      *)
(***************************************************************************)
EXTENDS MCQueues, FiniteSetTheorems, SequenceTheorems, TLAPS

USE ThreadsAssumption, CapacityAssumption, NoItemAssumption

\* Each queue takes its own steps or stays as it is.
LEMMA EachSteps ==
    ASSUME [Next]_vars
    PROVE  /\ [Simple!Next]_(Simple!vars) /\ [Blocking!Next]_(Blocking!vars)
           /\ [LockFree!Next]_(LockFree!vars)
BY DEF Next, vars, s_vars, b_vars, l_vars, Simple!vars, Blocking!vars,
       LockFree!vars

\* The cardinality of a set of threads, and how it changes with one of them.
LEMMA Counting ==
    ASSUME NEW T \in SUBSET Threads
    PROVE  /\ IsFiniteSet(T)
           /\ Cardinality(T) \in Nat
           /\ Cardinality(T) = 0 <=> T = {}
           /\ \A x \in Threads \ T : Cardinality(T \cup {x}) = Cardinality(T) + 1
           /\ \A x \in T : Cardinality(T \ {x}) = Cardinality(T) - 1
<1>1. IsFiniteSet(T)
  BY FS_Subset
<1> QED
  BY <1>1, FS_Subset, FS_CardinalityType, FS_EmptySet, FS_AddElement,
     FS_RemoveElement

\* A set of threads into which one comes, or which one leaves.
LEMMA Comes ==
    ASSUME NEW T \in SUBSET Threads, NEW x \in Threads, x \notin T, NEW U,
           U = T \cup {x}
    PROVE  Cardinality(U) = Cardinality(T) + 1
BY Counting

\* An element that leaves.
LEMMA Goes ==
    ASSUME NEW T \in SUBSET Threads, NEW x \in Threads, x \in T, NEW U,
           U = T \ {x}
    PROVE  Cardinality(U) = Cardinality(T) - 1
BY Counting

\* The instances count as this module does.
LEMMA SameCardinality ==
    \A S : /\ Simple!Cardinality(S) = Cardinality(S)
           /\ Blocking!Cardinality(S) = Cardinality(S)
           /\ LockFree!Cardinality(S) = Cardinality(S)
BY DEF Simple!Cardinality, Blocking!Cardinality, LockFree!Cardinality,
       Cardinality

\* An index that has run at most once around the ring.
LEMMA AroundTheRing ==
    /\ \A x \in 0 .. 2 * Capacity - 1 :
        x % Capacity = IF x < Capacity THEN x ELSE x - Capacity
    /\ \A x \in Nat : x % Capacity \in 0 .. Capacity - 1
OBVIOUS

\* The place n after the place p of the ring.
Place(p, n) == (p + n) % Capacity

\* Where such an index is.
Around(x) == IF x < Capacity THEN x ELSE x - Capacity

\* The places of a ring that begins at p: counted on by one, told apart, and
\* counted from the next beginning.
LEMMA RingPlaces ==
    ASSUME NEW p \in 0 .. Capacity - 1
    PROVE  /\ \A n \in 0 .. Capacity : Place(p, n) \in 0 .. Capacity - 1
           /\ Place(p, 0) = p /\ Place(p, Capacity) = p
           /\ \A n \in 0 .. Capacity - 1 :
                Place(Place(p, n), 1) = Place(p, n + 1)
           /\ \A n, m \in 0 .. Capacity - 1 :
                Place(p, n) = Place(p, m) => n = m
           /\ \A n \in 0 .. Capacity - 1 :
                Place(Place(p, 1), n)
                    = IF n = Capacity - 1 THEN p ELSE Place(p, n + 1)
<1>1. \A n \in 0 .. Capacity : p + n \in 0 .. 2 * Capacity - 1
  OBVIOUS
<1>2. \A n \in 0 .. Capacity : (p + n) % Capacity = Around(p + n)
  BY <1>1, AroundTheRing DEF Around
<1>3. \A n \in 0 .. Capacity : Around(p + n) \in 0 .. Capacity - 1
  BY DEF Around
<1>4. \A x \in 0 .. Capacity - 1 : x + 1 \in 0 .. 2 * Capacity - 1
  OBVIOUS
<1>5. \A x \in 0 .. Capacity - 1 : (x + 1) % Capacity = Around(x + 1)
  BY <1>4, AroundTheRing DEF Around
<1>6. \A n \in 0 .. Capacity - 1 :
        (((p + n) % Capacity) + 1) % Capacity = (p + n + 1) % Capacity
  <2> TAKE n \in 0 .. Capacity - 1
  <2>a. n \in 0 .. Capacity /\ n + 1 \in 0 .. Capacity
    OBVIOUS
  <2>b. (p + n) % Capacity = Around(p + n)
    BY <1>2, <2>a
  <2>c. Around(p + n) \in 0 .. Capacity - 1
    BY <1>3, <2>a
  <2>1. (((p + n) % Capacity) + 1) % Capacity = Around(Around(p + n) + 1)
    BY <1>5, <2>b, <2>c
  <2>2. (p + (n + 1)) % Capacity = Around(p + (n + 1))
    BY <1>2, <2>a
  <2>3. Around(Around(p + n) + 1) = Around(p + (n + 1))
    BY DEF Around
  <2> QED
    BY <2>1, <2>2, <2>3
<1>7. \A n, m \in 0 .. Capacity - 1 :
        (p + n) % Capacity = (p + m) % Capacity => n = m
  <2> TAKE n, m \in 0 .. Capacity - 1
  <2>1. Around(p + n) = Around(p + m) => n = m
    BY DEF Around
  <2> QED
    BY <1>2, <2>1
<1>8. \A n \in 0 .. Capacity - 1 :
        (((p + 1) % Capacity) + n) % Capacity
            = IF n = Capacity - 1 THEN p ELSE (p + n + 1) % Capacity
  <2> TAKE n \in 0 .. Capacity - 1
  <2>1. (p + 1) % Capacity = Around(p + 1)
    BY <1>5
  <2>2. Around(p + 1) + n \in 0 .. 2 * Capacity - 1
    BY DEF Around
  <2>3. (Around(p + 1) + n) % Capacity = Around(Around(p + 1) + n)
    BY <2>2, AroundTheRing DEF Around
  <2>a. n + 1 \in 0 .. Capacity
    OBVIOUS
  <2>4. (p + (n + 1)) % Capacity = Around(p + (n + 1))
    BY <1>2, <2>a
  <2>5. Around(Around(p + 1) + n)
            = IF n = Capacity - 1 THEN p ELSE Around(p + (n + 1))
    BY DEF Around
  <2> QED
    BY <2>1, <2>3, <2>4, <2>5
<1>9. Around(p + 0) = p /\ Around(p + Capacity) = p
  BY DEF Around
<1>10. 0 \in 0 .. Capacity /\ Capacity \in 0 .. Capacity
  OBVIOUS
<1>11. (p + 0) % Capacity = p /\ (p + Capacity) % Capacity = p
  BY <1>2, <1>9, <1>10
<1>12. \A n \in 0 .. Capacity : (p + n) % Capacity \in 0 .. Capacity - 1
  BY <1>2, <1>3
<1> QED
  BY <1>6, <1>7, <1>8, <1>11, <1>12 DEF Place

------------------------------------------------------------------------------
(* simple_blocking_queue                                                   *)

\* The threads that will take an item, or wake a sleeper to take it.
Under_way == {t \in Threads : s_pc[t] = "notify_one" \/ Simple!Awake(t)}

SimpleInv == Simple!TypeOK /\ Simple!NoLostWakeup

\* Whatever wakes a thread sends it back to look: an item that is pushed comes
\* with its notification, one that is taken goes with the thread that was
\* under way for it, and a closed queue notifies all.
LEMMA SimpleKept == SimpleInv /\ [Simple!Next]_(Simple!vars) => SimpleInv'
<1> USE DEF SimpleInv, Simple!TypeOK, Simple!Goto
<1> SUFFICES ASSUME SimpleInv, [Simple!Next]_(Simple!vars) PROVE SimpleInv'
  OBVIOUS
<1>0. /\ Under_way \in SUBSET Threads /\ Under_way' \in SUBSET Threads
      /\ Cardinality(Under_way) \in Nat /\ Cardinality(Under_way)' \in Nat
  <2>1. Under_way \in SUBSET Threads /\ Under_way' \in SUBSET Threads
    BY DEF Under_way
  <2> QED
    BY <2>1, Counting
<1>a. Simple!NoLostWakeup <=>
        \/ s_sleepers = {}
        \/ \E t \in Threads : s_pc[t] = "notify_all"
        \/ ~s_done /\ Len(s_queue) <= Cardinality(Under_way)
  BY SameCardinality DEF Simple!NoLostWakeup, Under_way
<1>b. Simple!NoLostWakeup' <=>
        \/ s_sleepers' = {}
        \/ \E t \in Threads : s_pc'[t] = "notify_all"
        \/ ~s_done' /\ Len(s_queue)' <= Cardinality(Under_way)'
  BY SameCardinality DEF Simple!NoLostWakeup, Under_way
<1> USE DEF Simple!Awake
<1>1. ASSUME NEW t \in Threads, NEW item \in Items, Simple!Push(t, item)
      PROVE  SimpleInv'
  <2>1. /\ s_queue' \in Seq(Items) /\ Len(s_queue') = Len(s_queue) + 1
        /\ Len(s_queue') <= Capacity /\ UNCHANGED <<s_done, s_sleepers>>
        /\ s_pc[t] = "idle" /\ s_pc' = [s_pc EXCEPT ![t] = "notify_one"]
    BY <1>1 DEF Simple!Push
  <2>2. Under_way' = Under_way \cup {t} /\ t \notin Under_way
    BY <2>1 DEF Under_way
  <2>3. Cardinality(Under_way)' = Cardinality(Under_way) + 1
    BY <1>0, <2>2, Comes
  <2> QED
    BY <1>0, <1>a, <1>b, <2>1, <2>3
<1>2. ASSUME NEW t \in Threads, Simple!SignalReady(t) PROVE SimpleInv'
  <2>1. /\ UNCHANGED <<s_queue, s_done>>
        /\ s_pc[t] = "notify_one" /\ s_pc' = [s_pc EXCEPT ![t] = "idle"]
    BY <1>2 DEF Simple!SignalReady
  <2>2. CASE s_sleepers = {} /\ s_sleepers' = {}
    BY <1>b, <2>1, <2>2
  <2>3. ASSUME NEW w \in s_sleepers, s_sleepers' = s_sleepers \ {w}
        PROVE  SimpleInv'
    <3>1. /\ w \in Threads /\ s_pc[w] = "popping"
          /\ Under_way' = (Under_way \ {t}) \cup {w}
          /\ t \in Under_way /\ w \notin Under_way
      BY <2>1, <2>3 DEF Under_way
    <3>2. Cardinality(Under_way \ {t}) = Cardinality(Under_way) - 1
      BY <1>0, <3>1, Goes
    <3>3. Cardinality(Under_way)' = Cardinality(Under_way \ {t}) + 1
      BY <1>0, <3>1, Comes
    <3> QED
      BY <1>0, <1>a, <1>b, <2>1, <2>3, <3>1, <3>2, <3>3
  <2> QED
    BY <1>2, <2>2, <2>3 DEF Simple!SignalReady, Simple!NotifyOne
<1>3. ASSUME NEW t \in Threads, Simple!Pop(t) PROVE SimpleInv'
  <2>1. /\ UNCHANGED <<s_queue, s_done, s_sleepers>>
        /\ s_pc[t] = "idle" /\ s_pc' = [s_pc EXCEPT ![t] = "popping"]
    BY <1>3 DEF Simple!Pop
  <2>2. Under_way' = Under_way \cup {t} /\ t \notin Under_way
    BY <2>1 DEF Under_way
  <2>3. Cardinality(Under_way)' = Cardinality(Under_way) + 1
    BY <1>0, <2>2, Comes
  <2> QED
    BY <1>0, <1>a, <1>b, <2>1, <2>3
<1>4. ASSUME NEW t \in Threads, Simple!Sleep(t) PROVE SimpleInv'
  <2>1. Len(s_queue) = 0 /\ ~s_done /\ UNCHANGED <<s_queue, s_done, s_pc>>
        /\ s_sleepers' = s_sleepers \cup {t} /\ s_pc[t] = "popping"
    BY <1>4 DEF Simple!Sleep, Simple!Block
  <2> QED
    BY <1>0, <1>b, <2>1
<1>5. ASSUME NEW t \in Threads, Simple!Take(t) PROVE SimpleInv'
  <2>1. /\ s_queue' \in Seq(Items) /\ Len(s_queue') = Len(s_queue) - 1
        /\ UNCHANGED <<s_done, s_sleepers>> /\ t \notin s_sleepers
        /\ s_pc[t] = "popping" /\ s_pc' = [s_pc EXCEPT ![t] = "idle"]
    BY <1>5 DEF Simple!Take
  <2>2. Under_way' = Under_way \ {t} /\ t \in Under_way
    BY <2>1 DEF Under_way
  <2>3. Cardinality(Under_way)' = Cardinality(Under_way) - 1
    BY <1>0, <2>2, Goes
  <2> QED
    BY <1>0, <1>a, <1>b, <2>1, <2>3
<1>6. ASSUME NEW t \in Threads, Simple!Leave(t) PROVE SimpleInv'
  <2>1. /\ s_done /\ UNCHANGED <<s_queue, s_done, s_sleepers>>
        /\ t \notin s_sleepers
        /\ s_pc[t] = "popping" /\ s_pc' = [s_pc EXCEPT ![t] = "idle"]
    BY <1>6 DEF Simple!Leave
  <2> QED
    BY <1>a, <1>b, <2>1
<1>7. ASSUME NEW t \in Threads, Simple!TryPop(t) PROVE SimpleInv'
  <2>1. /\ s_queue' \in Seq(Items) /\ Len(s_queue') = Len(s_queue) - 1
        /\ UNCHANGED <<s_done, s_sleepers, s_pc>>
    BY <1>7 DEF Simple!TryPop
  <2>2. Under_way' = Under_way
    BY <2>1 DEF Under_way
  <2> QED
    BY <1>0, <1>a, <1>b, <2>1, <2>2
<1>8. ASSUME NEW t \in Threads, Simple!Done(t) \/ Simple!SignalDone(t)
      PROVE  SimpleInv'
  BY <1>8, <1>b DEF Simple!Done, Simple!SignalDone, Simple!NotifyAll
<1>9. ASSUME NEW t \in Threads, Simple!SpuriousWakeup(t) PROVE SimpleInv'
  <2>1. /\ UNCHANGED <<s_queue, s_done, s_pc>> /\ t \in s_sleepers
        /\ s_sleepers' = s_sleepers \ {t} /\ s_pc[t] = "popping"
    BY <1>9 DEF Simple!SpuriousWakeup, Simple!Unblock
  <2>2. Under_way' = Under_way \cup {t} /\ t \notin Under_way
    BY <2>1 DEF Under_way
  <2>3. Cardinality(Under_way)' = Cardinality(Under_way) + 1
    BY <1>0, <2>2, Comes
  <2> QED
    BY <1>0, <1>a, <1>b, <2>1, <2>3
<1>10. CASE UNCHANGED Simple!vars
  <2>1. Under_way' = Under_way
    BY <1>10 DEF Simple!vars, Under_way
  <2> QED
    BY <1>10, <1>a, <1>b, <2>1 DEF Simple!vars
<1> QED
  BY <1>1, <1>2, <1>3, <1>4, <1>5, <1>6, <1>7, <1>8, <1>9, <1>10
     DEF Simple!Next

\* A step of simple_blocking_queue is one of Fifo or none: who sleeps, wakes or
\* notifies changes nothing a caller can see, and a pop leaves without an item
\* only when the queue is closed and empty.
LEMMA SimpleSteps ==
    SimpleInv /\ [Simple!Next]_(Simple!vars)
        => [Simple!Abstract!Next]_(Simple!Abstract!vars)
<1> USE DEF SimpleInv, Simple!TypeOK, Simple!Goto, Simple!Awake
<1> SUFFICES ASSUME SimpleInv, [Simple!Next]_(Simple!vars)
             PROVE  Simple!Abstract!Next \/ UNCHANGED Simple!Abstract!vars
  OBVIOUS
<1> DEFINE popping == {t \in Threads : s_pc[t] = "popping"}
<1>1. ASSUME NEW t \in Threads, NEW item \in Items, Simple!Push(t, item)
      PROVE  Simple!Abstract!Insert(t, item)
  BY <1>1 DEF Simple!Push, Simple!Abstract!Insert
<1>2. ASSUME NEW t \in Threads,
             Simple!SignalReady(t) \/ Simple!SignalDone(t) \/ Simple!Sleep(t)
               \/ Simple!SpuriousWakeup(t)
      PROVE  UNCHANGED Simple!Abstract!vars
  BY <1>2 DEF Simple!SignalReady, Simple!SignalDone, Simple!Sleep,
              Simple!SpuriousWakeup, Simple!Abstract!vars
<1>3. ASSUME NEW t \in Threads, Simple!Pop(t)
      PROVE  Simple!Abstract!StartPop(t)
  <2>1. popping' = popping \cup {t}
    BY <1>3 DEF Simple!Pop
  <2> QED
    BY <1>3, <2>1 DEF Simple!Pop, Simple!Abstract!StartPop
<1>4. ASSUME NEW t \in Threads, Simple!Take(t) \/ Simple!TryPop(t)
      PROVE  Simple!Abstract!Remove(t)
  <2>1. popping' = popping \ {t}
    BY <1>4 DEF Simple!Take, Simple!TryPop
  <2> QED
    BY <1>4, <2>1 DEF Simple!Take, Simple!TryPop, Simple!Abstract!Remove
<1>5. ASSUME NEW t \in Threads, Simple!Leave(t)
      PROVE  Simple!Abstract!LeaveEmptyHanded(t)
  <2>1. t \in popping /\ popping' = popping \ {t}
    BY <1>5 DEF Simple!Leave
  <2> QED
    BY <1>5, <2>1 DEF Simple!Leave, Simple!Abstract!LeaveEmptyHanded
<1>6. ASSUME NEW t \in Threads, Simple!Done(t) PROVE Simple!Abstract!Close
  <2>1. popping' = popping
    BY <1>6 DEF Simple!Done
  <2> QED
    BY <1>6, <2>1 DEF Simple!Done, Simple!Abstract!Close
<1>7. CASE UNCHANGED Simple!vars
  BY <1>7 DEF Simple!vars, Simple!Abstract!vars
<1> QED
  BY <1>1, <1>2, <1>3, <1>4, <1>5, <1>6, <1>7
     DEF Simple!Next, Simple!Abstract!Next

------------------------------------------------------------------------------
(* blocking_queue                                                          *)

BAt(label) == {t \in Threads : b_pc[t] = label}

\* The slots from the oldest element on, as many as are counted and no others,
\* hold living elements, and the next one comes behind them.
BlockingRing ==
    /\ \A n \in 0 .. Capacity - 1 :
        b_data[Place(b_pop, n)] # NoItem <=> n < b_count
    /\ b_push = Place(b_pop, b_count)

\* Every slot is accounted for by a token of the open ones, by a push that has
\* taken one, by a living element or by a pop that has yet to give one back;
\* every living element by a token of the full ones, by a push that has yet
\* to post it or by a pop that has taken one.
BlockingBooks ==
    /\ b_open + Cardinality(BAt("construct")) + b_count
          + Cardinality(BAt("post_open")) = Capacity
    /\ b_full + Cardinality(BAt("post_full")) + Cardinality(BAt("destroy"))
          = b_count

BlockingInv == Blocking!TypeOK /\ BlockingRing /\ BlockingBooks

\* The threads at each place can be counted, in this state and the next one.
LEMMA BAtCounts ==
    \A label : /\ BAt(label) \in SUBSET Threads /\ BAt(label)' \in SUBSET Threads
               /\ Cardinality(BAt(label)) \in Nat
               /\ Cardinality(BAt(label))' \in Nat
<1>1. \A label : BAt(label) \in SUBSET Threads /\ BAt(label)' \in SUBSET Threads
  BY DEF BAt
<1> QED
  BY <1>1, Counting

\* A thread that goes on changes the numbers of threads at two places.
LEMMA BMoves ==
    ASSUME b_pc \in [Threads -> Blocking!Labels],
           NEW t \in Threads, NEW from, NEW to \in Blocking!Labels, from # to,
           b_pc[t] = from, b_pc' = [b_pc EXCEPT ![t] = to]
    PROVE  /\ Cardinality(BAt(from))' = Cardinality(BAt(from)) - 1
           /\ Cardinality(BAt(to))' = Cardinality(BAt(to)) + 1
<1>1. BAt(from)' = BAt(from) \ {t} /\ t \in BAt(from)
  BY DEF BAt
<1>2. BAt(to)' = BAt(to) \cup {t} /\ t \notin BAt(to)
  BY DEF BAt
<1> QED
  BY <1>1, <1>2, BAtCounts, Comes, Goes

\* A new ring is empty and has all its tokens.
LEMMA BlockingStarts == Blocking!Init => BlockingInv
<1> SUFFICES ASSUME Blocking!Init PROVE BlockingInv
  OBVIOUS
<1>1. \A label : label # "idle" => BAt(label) = {}
  BY DEF BAt, Blocking!Init
<1>2. \A label : label # "idle" => Cardinality(BAt(label)) = 0
  BY <1>1, FS_EmptySet
<1>3. 0 \in 0 .. Capacity - 1 /\ \A n \in 0 .. Capacity - 1 : n \in 0 .. Capacity
  OBVIOUS
<1>4. /\ Place(0, 0) = 0
      /\ \A n \in 0 .. Capacity - 1 : Place(0, n) \in 0 .. Capacity - 1
  BY <1>3, RingPlaces
<1>5. BlockingRing
  BY <1>3, <1>4 DEF BlockingRing, Blocking!Init, Blocking!Slots
<1> QED
  BY <1>2, <1>5
     DEF Blocking!Init, BlockingInv, BlockingBooks, Blocking!TypeOK,
         Blocking!Labels, Blocking!Slots

\* An element that is constructed comes behind the living ones, one that is
\* destroyed was the first of them, and the tokens see to it that there is room,
\* and that there are elements.
LEMMA BlockingKept ==
    BlockingInv /\ [Blocking!Next]_(Blocking!vars) => BlockingInv'
<1> USE DEF BlockingInv, Blocking!TypeOK, Blocking!Goto, Blocking!Slots
<1> SUFFICES ASSUME BlockingInv, [Blocking!Next]_(Blocking!vars)
             PROVE  BlockingInv'
  OBVIOUS
<1>0. UNCHANGED Blocking!ring => BlockingRing'
  BY DEF BlockingRing, Blocking!ring
<1>a. /\ Cardinality(BAt("construct")) \in Nat
      /\ Cardinality(BAt("construct"))' \in Nat
      /\ Cardinality(BAt("post_open")) \in Nat
      /\ Cardinality(BAt("post_open"))' \in Nat
      /\ Cardinality(BAt("post_full")) \in Nat
      /\ Cardinality(BAt("post_full"))' \in Nat
      /\ Cardinality(BAt("destroy")) \in Nat
      /\ Cardinality(BAt("destroy"))' \in Nat
  BY BAtCounts
<1>1. ASSUME NEW t \in Threads, Blocking!Arrive(t) PROVE BlockingInv'
  <2>1. PICK to \in {"push", "pop"} :
          b_pc[t] = "idle" /\ b_pc' = [b_pc EXCEPT ![t] = to]
    BY <1>1 DEF Blocking!Arrive
  <2>2. b_pc' \in [Threads -> Blocking!Labels]
    BY <2>1 DEF Blocking!Labels
  <2>3. \A label : label \notin {"idle", "push", "pop"} =>
          BAt(label)' = BAt(label)
    BY <2>1 DEF BAt
  <2>4. BlockingBooks'
    BY <1>1, <2>3 DEF Blocking!Arrive, Blocking!ring, BlockingBooks
  <2> QED
    BY <1>0, <1>1, <2>2, <2>4 DEF Blocking!Arrive, Blocking!ring
<1>2. ASSUME NEW t \in Threads, Blocking!TakeOpen(t) PROVE BlockingInv'
  <2>1. PICK from \in {"push", "idle"} :
          b_pc[t] = from /\ b_pc' = [b_pc EXCEPT ![t] = "construct"]
    BY <1>2 DEF Blocking!TakeOpen
  <2>2. b_pc' \in [Threads -> Blocking!Labels]
    BY <2>1 DEF Blocking!Labels
  <2>3. /\ Cardinality(BAt("construct"))' = Cardinality(BAt("construct")) + 1
        /\ Cardinality(BAt("post_open"))' = Cardinality(BAt("post_open"))
        /\ Cardinality(BAt("post_full"))' = Cardinality(BAt("post_full"))
        /\ Cardinality(BAt("destroy"))' = Cardinality(BAt("destroy"))
    <3>1. /\ Cardinality(BAt("construct"))' = Cardinality(BAt("construct")) + 1
      BY <2>1, BMoves DEF Blocking!Labels
    <3>2. /\ BAt("post_open")' = BAt("post_open")
          /\ BAt("post_full")' = BAt("post_full")
          /\ BAt("destroy")' = BAt("destroy")
      BY <2>1 DEF BAt
    <3> QED
      BY <3>1, <3>2
  <2>4. /\ b_open' = b_open - 1 /\ b_open > 0
        /\ UNCHANGED <<b_full, Blocking!ring>>
    BY <1>2 DEF Blocking!TakeOpen
  <2>5. BlockingBooks'
    BY <1>a, <2>3, <2>4, SMTT(30) DEF BlockingBooks, Blocking!ring
  <2> QED
    BY <1>0, <2>2, <2>4, <2>5 DEF Blocking!ring
<1>3. ASSUME NEW t \in Threads, NEW item \in Items,
             Blocking!Construct(t, item)
      PROVE  BlockingInv'
  <2>1. b_pc[t] = "construct" /\ b_pc' = [b_pc EXCEPT ![t] = "post_full"]
    BY <1>3 DEF Blocking!Construct
  <2>2. b_pc' \in [Threads -> Blocking!Labels]
    BY <2>1 DEF Blocking!Labels
  <2>3. /\ Cardinality(BAt("construct"))' = Cardinality(BAt("construct")) - 1
        /\ Cardinality(BAt("post_full"))' = Cardinality(BAt("post_full")) + 1
        /\ Cardinality(BAt("post_open"))' = Cardinality(BAt("post_open"))
        /\ Cardinality(BAt("destroy"))' = Cardinality(BAt("destroy"))
    <3>1. /\ Cardinality(BAt("construct"))' = Cardinality(BAt("construct")) - 1
          /\ Cardinality(BAt("post_full"))' = Cardinality(BAt("post_full")) + 1
      BY <2>1, BMoves DEF Blocking!Labels
    <3>2. /\ BAt("post_open")' = BAt("post_open")
          /\ BAt("destroy")' = BAt("destroy")
      BY <2>1 DEF BAt
    <3> QED
      BY <3>1, <3>2
  <2>4. /\ b_data' = [b_data EXCEPT ![b_push] = item]
        /\ b_push' = Place(b_push, 1) /\ b_count' = b_count + 1
        /\ UNCHANGED <<b_open, b_full, b_pop>>
    BY <1>3 DEF Blocking!Construct, Place
  <2>5. BlockingBooks' /\ b_count < Capacity
    <3>1. b_count' = b_count + 1 /\ b_open' = b_open /\ b_full' = b_full
      BY <2>4
    <3>2. b_count < Capacity
      BY <1>a, <2>3, SMTT(30) DEF BlockingBooks
    <3>3. b_open \in Nat /\ b_full \in Nat /\ b_count \in Nat /\ BlockingBooks
      OBVIOUS
    <3> HIDE DEF BlockingInv, Blocking!TypeOK
    <3> QED
      BY <1>a, <2>3, <3>1, <3>2, <3>3 DEF BlockingBooks
  <2>6. /\ b_count \in 0 .. Capacity - 1 /\ 1 \in 0 .. Capacity
        /\ \A n \in 0 .. Capacity - 1 : n \in 0 .. Capacity
    BY <2>5
  <2>7. BlockingRing'
    <3>1. \A n \in 0 .. Capacity - 1 :
            /\ Place(b_pop, n) \in 0 .. Capacity - 1
            /\ Place(b_pop, n) = b_push <=> n = b_count
      <4>1. /\ \A n \in 0 .. Capacity : Place(b_pop, n) \in 0 .. Capacity - 1
            /\ \A n, m \in 0 .. Capacity - 1 :
                Place(b_pop, n) = Place(b_pop, m) => n = m
        BY RingPlaces
      <4> QED
        BY <2>6, <4>1 DEF BlockingRing
    <3>2. \A n \in 0 .. Capacity - 1 :
            b_data'[Place(b_pop, n)]
                = IF n = b_count THEN item ELSE b_data[Place(b_pop, n)]
      BY <2>4, <3>1
    <3>3. \A n \in 0 .. Capacity - 1 :
            b_data'[Place(b_pop, n)] # NoItem <=> n < b_count + 1
      BY <3>2 DEF BlockingRing
    <3>4. b_push' = Place(b_pop, b_count + 1)
      BY <2>4, <2>6, RingPlaces DEF BlockingRing
    <3> QED
      BY <2>4, <3>3, <3>4 DEF BlockingRing
  <2>8. Place(b_push, 1) \in 0 .. Capacity - 1
    BY <2>6, RingPlaces
  <2> QED
    BY <2>2, <2>4, <2>5, <2>7, <2>8
<1>4. ASSUME NEW t \in Threads, Blocking!PostFull(t) PROVE BlockingInv'
  <2>1. b_pc[t] = "post_full" /\ b_pc' = [b_pc EXCEPT ![t] = "idle"]
    BY <1>4 DEF Blocking!PostFull
  <2>2. b_pc' \in [Threads -> Blocking!Labels]
    BY <2>1 DEF Blocking!Labels
  <2>3. /\ Cardinality(BAt("post_full"))' = Cardinality(BAt("post_full")) - 1
        /\ Cardinality(BAt("construct"))' = Cardinality(BAt("construct"))
        /\ Cardinality(BAt("post_open"))' = Cardinality(BAt("post_open"))
        /\ Cardinality(BAt("destroy"))' = Cardinality(BAt("destroy"))
    <3>1. /\ Cardinality(BAt("post_full"))' = Cardinality(BAt("post_full")) - 1
      BY <2>1, BMoves DEF Blocking!Labels
    <3>2. /\ BAt("construct")' = BAt("construct")
          /\ BAt("post_open")' = BAt("post_open")
          /\ BAt("destroy")' = BAt("destroy")
      BY <2>1 DEF BAt
    <3> QED
      BY <3>1, <3>2
  <2>4. b_full' = b_full + 1 /\ UNCHANGED <<b_open, Blocking!ring>>
    BY <1>4 DEF Blocking!PostFull
  <2>5. BlockingBooks' /\ b_full' <= Capacity
    BY <1>a, <2>3, <2>4, SMTT(30) DEF BlockingBooks, Blocking!ring
  <2> QED
    BY <1>0, <2>2, <2>4, <2>5 DEF Blocking!ring
<1>5. ASSUME NEW t \in Threads, Blocking!TakeFull(t) PROVE BlockingInv'
  <2>1. PICK from \in {"pop", "idle"} :
          b_pc[t] = from /\ b_pc' = [b_pc EXCEPT ![t] = "destroy"]
    BY <1>5 DEF Blocking!TakeFull
  <2>2. b_pc' \in [Threads -> Blocking!Labels]
    BY <2>1 DEF Blocking!Labels
  <2>3. /\ Cardinality(BAt("destroy"))' = Cardinality(BAt("destroy")) + 1
        /\ Cardinality(BAt("construct"))' = Cardinality(BAt("construct"))
        /\ Cardinality(BAt("post_open"))' = Cardinality(BAt("post_open"))
        /\ Cardinality(BAt("post_full"))' = Cardinality(BAt("post_full"))
    <3>1. /\ Cardinality(BAt("destroy"))' = Cardinality(BAt("destroy")) + 1
      BY <2>1, BMoves DEF Blocking!Labels
    <3>2. /\ BAt("construct")' = BAt("construct")
          /\ BAt("post_open")' = BAt("post_open")
          /\ BAt("post_full")' = BAt("post_full")
      BY <2>1 DEF BAt
    <3> QED
      BY <3>1, <3>2
  <2>4. /\ b_full' = b_full - 1 /\ b_full > 0
        /\ UNCHANGED <<b_open, Blocking!ring>>
    BY <1>5 DEF Blocking!TakeFull
  <2>5. BlockingBooks'
    BY <1>a, <2>3, <2>4, SMTT(30) DEF BlockingBooks, Blocking!ring
  <2> QED
    BY <1>0, <2>2, <2>4, <2>5 DEF Blocking!ring
<1>6. ASSUME NEW t \in Threads, Blocking!Destroy(t) PROVE BlockingInv'
  <2>1. b_pc[t] = "destroy" /\ b_pc' = [b_pc EXCEPT ![t] = "post_open"]
    BY <1>6 DEF Blocking!Destroy
  <2>2. b_pc' \in [Threads -> Blocking!Labels]
    BY <2>1 DEF Blocking!Labels
  <2>3. /\ Cardinality(BAt("destroy"))' = Cardinality(BAt("destroy")) - 1
        /\ Cardinality(BAt("post_open"))' = Cardinality(BAt("post_open")) + 1
        /\ Cardinality(BAt("construct"))' = Cardinality(BAt("construct"))
        /\ Cardinality(BAt("post_full"))' = Cardinality(BAt("post_full"))
    <3>1. /\ Cardinality(BAt("destroy"))' = Cardinality(BAt("destroy")) - 1
          /\ Cardinality(BAt("post_open"))' = Cardinality(BAt("post_open")) + 1
      BY <2>1, BMoves DEF Blocking!Labels
    <3>2. /\ BAt("construct")' = BAt("construct")
          /\ BAt("post_full")' = BAt("post_full")
      BY <2>1 DEF BAt
    <3> QED
      BY <3>1, <3>2
  <2>4. /\ b_data' = [b_data EXCEPT ![b_pop] = NoItem]
        /\ b_pop' = Place(b_pop, 1) /\ b_count' = b_count - 1
        /\ UNCHANGED <<b_open, b_full, b_push>>
    BY <1>6 DEF Blocking!Destroy, Place
  <2>5. BlockingBooks' /\ b_count > 0
    <3>1. b_count' = b_count - 1 /\ b_open' = b_open /\ b_full' = b_full
      BY <2>4
    <3>2. b_count > 0
      BY <1>a, <2>3 DEF BlockingBooks
    <3>3. b_open \in Nat /\ b_full \in Nat /\ b_count \in Nat /\ BlockingBooks
      OBVIOUS
    <3> HIDE DEF BlockingInv, Blocking!TypeOK
    <3> QED
      BY <1>a, <2>3, <3>1, <3>2, <3>3 DEF BlockingBooks
  <2>6. /\ b_count - 1 \in 0 .. Capacity - 1 /\ 1 \in 0 .. Capacity
        /\ \A n \in 0 .. Capacity - 1 : n \in 0 .. Capacity
        /\ 0 \in 0 .. Capacity - 1 /\ (b_count - 1) + 1 = b_count
    BY <2>5
  <2>7. BlockingRing'
    <3>1. \A n \in 0 .. Capacity - 1 :
            Place(Place(b_pop, 1), n)
                = IF n = Capacity - 1 THEN b_pop ELSE Place(b_pop, n + 1)
      BY RingPlaces
    <3>2. \A n \in 1 .. Capacity - 1 :
            Place(b_pop, n) \in 0 .. Capacity - 1 /\ Place(b_pop, n) # b_pop
      <4>1. /\ \A n \in 0 .. Capacity : Place(b_pop, n) \in 0 .. Capacity - 1
            /\ \A n, m \in 0 .. Capacity - 1 :
                Place(b_pop, n) = Place(b_pop, m) => n = m
            /\ Place(b_pop, 0) = b_pop
        BY RingPlaces
      <4> QED
        BY <2>6, <4>1
    <3>3. \A n \in 0 .. Capacity - 1 :
            b_data'[Place(Place(b_pop, 1), n)]
                = IF n = Capacity - 1 THEN NoItem ELSE b_data[Place(b_pop, n + 1)]
      BY <2>4, <3>1, <3>2
    <3>4. \A n \in 0 .. Capacity - 1 :
            b_data'[Place(Place(b_pop, 1), n)] # NoItem <=> n < b_count - 1
      BY <3>3 DEF BlockingRing
    <3>5. b_push = Place(Place(b_pop, 1), b_count - 1)
      <4>1. CASE b_count = Capacity
        BY <2>6, <3>1, <4>1, RingPlaces DEF BlockingRing
      <4>2. CASE b_count # Capacity
        BY <2>6, <3>1, <4>2 DEF BlockingRing
      <4> QED
        BY <4>1, <4>2
    <3> QED
      BY <2>4, <3>4, <3>5 DEF BlockingRing
  <2>8. Place(b_pop, 1) \in 0 .. Capacity - 1
    BY <2>6, RingPlaces
  <2> QED
    BY <2>2, <2>4, <2>5, <2>7, <2>8
<1>7. ASSUME NEW t \in Threads, Blocking!PostOpen(t) PROVE BlockingInv'
  <2>1. b_pc[t] = "post_open" /\ b_pc' = [b_pc EXCEPT ![t] = "idle"]
    BY <1>7 DEF Blocking!PostOpen
  <2>2. b_pc' \in [Threads -> Blocking!Labels]
    BY <2>1 DEF Blocking!Labels
  <2>3. /\ Cardinality(BAt("post_open"))' = Cardinality(BAt("post_open")) - 1
        /\ Cardinality(BAt("construct"))' = Cardinality(BAt("construct"))
        /\ Cardinality(BAt("post_full"))' = Cardinality(BAt("post_full"))
        /\ Cardinality(BAt("destroy"))' = Cardinality(BAt("destroy"))
    <3>1. /\ Cardinality(BAt("post_open"))' = Cardinality(BAt("post_open")) - 1
      BY <2>1, BMoves DEF Blocking!Labels
    <3>2. /\ BAt("construct")' = BAt("construct")
          /\ BAt("post_full")' = BAt("post_full")
          /\ BAt("destroy")' = BAt("destroy")
      BY <2>1 DEF BAt
    <3> QED
      BY <3>1, <3>2
  <2>4. b_open' = b_open + 1 /\ UNCHANGED <<b_full, Blocking!ring>>
    BY <1>7 DEF Blocking!PostOpen
  <2>5. BlockingBooks' /\ b_open' <= Capacity
    BY <1>a, <2>3, <2>4, SMTT(30) DEF BlockingBooks, Blocking!ring
  <2> QED
    BY <1>0, <2>2, <2>4, <2>5 DEF Blocking!ring
<1>8. CASE UNCHANGED Blocking!vars
  BY <1>8 DEF Blocking!vars, BlockingRing, BlockingBooks, BAt
<1> QED
  BY <1>1, <1>2, <1>3, <1>4, <1>5, <1>6, <1>7, <1>8 DEF Blocking!Next

\* The ring that the destructor trusts.
LEMMA BlockingRingSound == BlockingInv => Blocking!RingSound
BY DEF BlockingInv, BlockingRing, Blocking!RingSound, Blocking!Slots, Place

\* The living elements, oldest first, as Blocking!Abstract sees them.
Content == [n \in 1 .. b_count |-> b_data[(b_pop + n - 1) % Capacity]]

\* The content is a sequence, place by place what the ring holds.
ContentSound ==
    /\ Content \in Seq(Items \cup {NoItem}) /\ Len(Content) = b_count
    /\ \A n \in 1 .. b_count : Content[n] = b_data[Place(b_pop, n - 1)]

\* It is as long as the ring has living slots, however often that went round.
LEMMA ContentIsSeq == BlockingInv => ContentSound
<1> SUFFICES ASSUME BlockingInv PROVE ContentSound
  OBVIOUS
<1> USE DEF BlockingInv, Blocking!TypeOK, Blocking!Slots
<1>1. \A n \in 1 .. b_count : n - 1 \in 0 .. Capacity
  OBVIOUS
<1>2. \A n \in 1 .. b_count : Place(b_pop, n - 1) \in 0 .. Capacity - 1
  BY <1>1, RingPlaces
<1>3. \A n \in 1 .. b_count : (b_pop + n - 1) % Capacity = Place(b_pop, n - 1)
  <2> TAKE n \in 1 .. b_count
  <2>1. b_pop + n - 1 = b_pop + (n - 1)
    OBVIOUS
  <2> QED
    BY <2>1 DEF Place
<1>4. \A n \in 1 .. b_count : Content[n] = b_data[Place(b_pop, n - 1)]
  BY <1>3 DEF Content
<1>5. Content \in [1 .. b_count -> Items \cup {NoItem}]
  BY <1>2, <1>3 DEF Content
<1>6. b_count \in Nat
  OBVIOUS
<1>7. Content \in Seq(Items \cup {NoItem})
  BY <1>5, <1>6, SeqDef
<1>8. Len(Content) = b_count
  BY <1>5, <1>6, <1>7, LenProperties
<1> QED
  BY <1>4, <1>7, <1>8 DEF ContentSound

\* The same in the next state.
LEMMA NextContentIsSeq == BlockingInv' => ContentSound'
BY ContentIsSeq, PTL

\* A step of blocking_queue is one of Fifo or none: the section that constructs
\* an element inserts it behind the others, the one that destroys an element
\* removes the oldest, and the tokens change nothing a caller can see.
LEMMA BlockingSteps ==
    BlockingInv /\ BlockingInv' /\ [Blocking!Next]_(Blocking!vars)
        => [Blocking!Abstract!Next]_(Blocking!Abstract!vars)
<1> SUFFICES ASSUME BlockingInv, BlockingInv', [Blocking!Next]_(Blocking!vars)
             PROVE  Blocking!Abstract!Next \/ UNCHANGED Blocking!Abstract!vars
  OBVIOUS
<1> DEFINE pushing == {t \in Threads : b_pc[t] \in {"push", "construct"}}
           popping == {t \in Threads : b_pc[t] \in {"pop", "destroy"}}
<1>a. b_pc \in [Threads -> Blocking!Labels]
  BY DEF BlockingInv, Blocking!TypeOK
<1>b. UNCHANGED Blocking!ring => UNCHANGED Content
  BY DEF Blocking!ring, Content
<1>1. ASSUME NEW t \in Threads, Blocking!Arrive(t)
      PROVE  Blocking!Abstract!StartPush(t) \/ Blocking!Abstract!StartPop(t)
  <2>1. UNCHANGED Content
    BY <1>1, <1>b DEF Blocking!Arrive
  <2>2. CASE Blocking!Goto(t, "idle", "push")
    <3>1. pushing' = pushing \cup {t} /\ popping' = popping
      BY <1>a, <2>2 DEF Blocking!Goto
    <3> QED
      BY <2>1, <3>1 DEF Blocking!Abstract!StartPush, Content
  <2>3. CASE Blocking!Goto(t, "idle", "pop")
    <3>1. pushing' = pushing /\ popping' = popping \cup {t}
      BY <1>a, <2>3 DEF Blocking!Goto
    <3> QED
      BY <2>1, <3>1 DEF Blocking!Abstract!StartPop, Content
  <2> QED
    BY <1>1, <2>2, <2>3 DEF Blocking!Arrive
<1>2. ASSUME NEW t \in Threads, Blocking!TakeOpen(t)
      PROVE  Blocking!Abstract!StartPush(t)
  <2>1. UNCHANGED Content
    BY <1>2, <1>b DEF Blocking!TakeOpen
  <2>2. pushing' = pushing \cup {t} /\ popping' = popping
    BY <1>a, <1>2 DEF Blocking!TakeOpen, Blocking!Goto
  <2> QED
    BY <2>1, <2>2 DEF Blocking!Abstract!StartPush, Content
<1>3. ASSUME NEW t \in Threads, NEW item \in Items,
             Blocking!Construct(t, item)
      PROVE  Blocking!Abstract!Insert(t, item)
  <2>1. pushing' = pushing \ {t} /\ popping' = popping
    BY <1>a, <1>3 DEF Blocking!Construct, Blocking!Goto
  <2>2. b_count' = b_count + 1 /\ b_pop' = b_pop
        /\ b_data' = [b_data EXCEPT ![b_push] = item]
    BY <1>3 DEF Blocking!Construct
  <2>3. b_count \in 0 .. Capacity - 1
    BY <2>2 DEF BlockingInv, Blocking!TypeOK
  <2>4. Content' = Append(Content, item)
    <3>1. /\ Append(Content, item) \in Seq(Items \cup {NoItem})
          /\ Len(Append(Content, item)) = b_count + 1
          /\ \A n \in 1 .. b_count + 1 : Append(Content, item)[n]
                = IF n = b_count + 1 THEN item ELSE Content[n]
      BY ContentIsSeq, AppendProperties DEF ContentSound
    <3>2. \A n \in 1 .. b_count + 1 :
            b_data'[Place(b_pop, n - 1)]
                = IF n = b_count + 1 THEN item ELSE b_data[Place(b_pop, n - 1)]
      <4>1. b_pop \in 0 .. Capacity - 1 /\ b_push = Place(b_pop, b_count)
            /\ b_data \in [0 .. Capacity - 1 -> Items \cup {NoItem}]
        BY DEF BlockingInv, BlockingRing, Blocking!TypeOK, Blocking!Slots
      <4>2. /\ \A n \in 0 .. Capacity : Place(b_pop, n) \in 0 .. Capacity - 1
            /\ \A n, m \in 0 .. Capacity - 1 :
                Place(b_pop, n) = Place(b_pop, m) => n = m
        BY <4>1, RingPlaces
      <4>3. \A n \in 1 .. b_count + 1 :
              n - 1 \in 0 .. Capacity - 1 /\ n - 1 \in 0 .. Capacity
        BY <2>3
      <4> QED
        BY <2>2, <2>3, <4>1, <4>2, <4>3, SMTT(30)
    <3>3. \A n \in 1 .. b_count + 1 : Content'[n] = Append(Content, item)[n]
      BY <2>2, <2>3, <3>1, <3>2, ContentIsSeq, NextContentIsSeq DEF ContentSound
    <3> QED
      BY <2>2, <3>1, <3>3, NextContentIsSeq, SeqEqual DEF ContentSound
  <2> QED
    BY <2>1, <2>3, <2>4, ContentIsSeq, SMTT(30)
       DEF ContentSound, Blocking!Abstract!Insert, Content
<1>4. ASSUME NEW t \in Threads, Blocking!TakeFull(t)
      PROVE  Blocking!Abstract!StartPop(t)
  <2>1. UNCHANGED Content
    BY <1>4, <1>b DEF Blocking!TakeFull
  <2>2. pushing' = pushing /\ popping' = popping \cup {t}
    BY <1>a, <1>4 DEF Blocking!TakeFull, Blocking!Goto
  <2> QED
    BY <2>1, <2>2 DEF Blocking!Abstract!StartPop, Content
<1>5. ASSUME NEW t \in Threads, Blocking!Destroy(t)
      PROVE  Blocking!Abstract!Remove(t)
  <2>1. pushing' = pushing /\ popping' = popping \ {t}
    BY <1>a, <1>5 DEF Blocking!Destroy, Blocking!Goto
  <2>2. b_count' = b_count - 1 /\ b_pop' = Place(b_pop, 1)
        /\ b_data' = [b_data EXCEPT ![b_pop] = NoItem]
    BY <1>5 DEF Blocking!Destroy, Place
  <2>3. b_count \in 1 .. Capacity
    BY <2>2 DEF BlockingInv, Blocking!TypeOK
  <2>4. Content # <<>>
    BY <2>3, ContentIsSeq DEF ContentSound
  <2>5. Content' = Tail(Content)
    <3>1. /\ Tail(Content) \in Seq(Items \cup {NoItem})
          /\ Len(Tail(Content)) = b_count - 1
          /\ \A n \in 1 .. b_count - 1 : Tail(Content)[n] = Content[n + 1]
      BY <2>4, ContentIsSeq, HeadTailProperties DEF ContentSound
    <3>2. \A n \in 1 .. b_count - 1 :
            b_data'[Place(Place(b_pop, 1), n - 1)] = b_data[Place(b_pop, n)]
      <4>1. b_pop \in 0 .. Capacity - 1
            /\ b_data \in [0 .. Capacity - 1 -> Items \cup {NoItem}]
        BY DEF BlockingInv, Blocking!TypeOK, Blocking!Slots
      <4>2. /\ \A n \in 0 .. Capacity : Place(b_pop, n) \in 0 .. Capacity - 1
            /\ \A n, m \in 0 .. Capacity - 1 :
                Place(b_pop, n) = Place(b_pop, m) => n = m
            /\ Place(b_pop, 0) = b_pop
            /\ \A n \in 0 .. Capacity - 1 :
                Place(Place(b_pop, 1), n)
                    = IF n = Capacity - 1 THEN b_pop ELSE Place(b_pop, n + 1)
        BY <4>1, RingPlaces
      <4>3. \A n \in 1 .. b_count - 1 :
              /\ n - 1 \in 0 .. Capacity - 1 /\ n - 1 # Capacity - 1
              /\ (n - 1) + 1 = n /\ n \in 0 .. Capacity - 1 /\ n # 0
              /\ n \in 0 .. Capacity /\ 0 \in 0 .. Capacity - 1
        BY <2>3
      <4>4. \A n \in 1 .. b_count - 1 :
              /\ Place(Place(b_pop, 1), n - 1) = Place(b_pop, n)
              /\ Place(b_pop, n) # b_pop
              /\ Place(b_pop, n) \in 0 .. Capacity - 1
        BY <4>2, <4>3
      <4> QED
        BY <2>2, <4>1, <4>4
    <3>3. \A n \in 1 .. b_count - 1 :
            Content'[n] = Tail(Content)[n]
      <4>1. \A n \in 1 .. b_count - 1 :
              n + 1 \in 1 .. b_count /\ (n + 1) - 1 = n
        BY <2>3
      <4> QED
        BY <2>2, <3>1, <3>2, <4>1, ContentIsSeq, NextContentIsSeq DEF ContentSound
    <3> QED
      BY <2>2, <3>1, <3>3, NextContentIsSeq, SeqEqual DEF ContentSound
  <2> QED
    BY <2>1, <2>4, <2>5 DEF Blocking!Abstract!Remove, Content
<1>6. ASSUME NEW t \in Threads, Blocking!PostFull(t) \/ Blocking!PostOpen(t)
      PROVE  UNCHANGED Blocking!Abstract!vars
  <2>1. UNCHANGED Content
    BY <1>6, <1>b DEF Blocking!PostFull, Blocking!PostOpen
  <2>2. pushing' = pushing /\ popping' = popping
    BY <1>a, <1>6 DEF Blocking!PostFull, Blocking!PostOpen, Blocking!Goto
  <2> QED
    BY <2>1, <2>2 DEF Blocking!Abstract!vars, Content
<1>7. CASE UNCHANGED Blocking!vars
  BY <1>7 DEF Blocking!vars, Blocking!Abstract!vars
<1> QED
  BY <1>1, <1>2, <1>3, <1>4, <1>5, <1>6, <1>7
     DEF Blocking!Next, Blocking!Abstract!Next

------------------------------------------------------------------------------
(* lock_free_queue                                                         *)

\* The calls of an end of the queue that hold a token of their own end, and
\* those that counted and still owe one to the other end.
Holding(s) == {t \in Threads : l_side[t] = s
                               /\ l_pc[t] \in {"claim", "access", "count"}}
Owing(s) == {t \in Threads : l_side[t] = s
                             /\ l_pc[t] \in {"load", "reload", "swap", "post"}}

\* A slot is open, or promised to a push, or counted, or left by a pop that
\* posts it yet; what is counted is full, promised to a pop, or posted yet by
\* the push that counted it.
LockFreeBooks ==
    /\ l_tokens["push"] + Cardinality(Holding("push")) + l_count
        + Cardinality(Owing("pop")) = Capacity
    /\ l_tokens["pop"] + Cardinality(Holding("pop"))
        + Cardinality(Owing("push")) = l_count

LockFreeInv == LockFree!TypeOK /\ LockFreeBooks

\* A new queue has all its slots open.
LEMMA LockFreeStarts == LockFree!Init => LockFreeInv
<1> SUFFICES ASSUME LockFree!Init PROVE LockFreeInv
  OBVIOUS
<1>1. LockFree!TypeOK
  BY DEF LockFree!Init, LockFree!TypeOK, LockFree!Sides, LockFree!Slots,
         LockFree!Labels
<1>2. \A s \in LockFree!Sides : Holding(s) = {} /\ Owing(s) = {}
  BY DEF LockFree!Init, Holding, Owing
<1>3. l_tokens["push"] = Capacity /\ l_tokens["pop"] = 0 /\ l_count = 0
  BY DEF LockFree!Init, LockFree!Sides
<1>4. Cardinality({}) = 0
  BY FS_EmptySet
<1> QED
  BY <1>1, <1>2, <1>3, <1>4 DEF LockFreeInv, LockFreeBooks, LockFree!Sides

\* The books after a step that leaves tokens and counter alone, and no call
\* changes sides of the count.
LEMMA LockFreeQuiet ==
    ASSUME LockFreeBooks, UNCHANGED <<l_tokens, l_count>>,
           \A s \in LockFree!Sides : /\ Holding(s)' = Holding(s)
                                     /\ Owing(s)' = Owing(s)
    PROVE  LockFreeBooks'
BY DEF LockFreeBooks, LockFree!Sides

\* A token is taken for the slot that a call claims, a call counts once and
\* then posts once, at the other end: the counter of lock_free_queue is what
\* the tokens say, although each changes on its own and under no lock.
LEMMA LockFreeKept ==
    LockFreeInv /\ [LockFree!Next]_(LockFree!vars) => LockFreeInv'
<1> USE DEF LockFreeInv, LockFree!TypeOK, LockFree!Sides
<1> SUFFICES ASSUME LockFreeInv, [LockFree!Next]_(LockFree!vars)
             PROVE  LockFreeInv'
  OBVIOUS
<1>0. \A s \in LockFree!Sides :
        /\ Holding(s) \in SUBSET Threads /\ Owing(s) \in SUBSET Threads
        /\ Cardinality(Holding(s)) \in Nat /\ Cardinality(Owing(s)) \in Nat
        /\ Holding(s)' \in SUBSET Threads /\ Owing(s)' \in SUBSET Threads
        /\ Cardinality(Holding(s)') \in Nat /\ Cardinality(Owing(s)') \in Nat
  <2>1. \A s \in LockFree!Sides :
        /\ Holding(s) \in SUBSET Threads /\ Owing(s) \in SUBSET Threads
        /\ Holding(s)' \in SUBSET Threads /\ Owing(s)' \in SUBSET Threads
    BY DEF Holding, Owing
  <2> QED
    BY <2>1, Counting
<1>a. \A t \in Threads, from, to \in LockFree!Labels :
        LockFree!Goto(t, from, to) =>
            /\ l_pc[t] = from /\ l_pc' = [l_pc EXCEPT ![t] = to]
            /\ l_pc' \in [Threads -> LockFree!Labels]
  BY DEF LockFree!Goto
<1>b. /\ l_tokens["push"] \in 0 .. Capacity /\ l_tokens["pop"] \in 0 .. Capacity
      /\ l_count \in Nat /\ LockFreeBooks
  OBVIOUS
<1>1. ASSUME NEW t \in Threads, NEW s \in LockFree!Sides,
             LockFree!Arrive(t, s)
      PROVE  LockFreeInv'
  <2>1. /\ l_pc[t] = "idle" /\ l_pc' = [l_pc EXCEPT ![t] = "wait"]
        /\ l_pc' \in [Threads -> LockFree!Labels]
        /\ l_side' = [l_side EXCEPT ![t] = s]
        /\ UNCHANGED <<l_tokens, l_index, l_data, l_count, l_claimed,
                       l_expected, l_desired>>
    BY <1>1, <1>a DEF LockFree!Arrive, LockFree!Labels, LockFree!ring
  <2>2. \A r \in LockFree!Sides : Holding(r)' = Holding(r) /\ Owing(r)' = Owing(r)
    BY <2>1 DEF Holding, Owing
  <2> QED
    BY <2>1, <2>2, LockFreeQuiet
<1>2. ASSUME NEW t \in Threads, NEW s \in LockFree!Sides,
             LockFree!TakeToken(t, s)
      PROVE  LockFreeInv'
  <2>1. /\ l_pc[t] \in {"wait", "idle"} /\ l_pc' = [l_pc EXCEPT ![t] = "claim"]
        /\ l_pc' \in [Threads -> LockFree!Labels]
        /\ l_side' = [l_side EXCEPT ![t] = s]
        /\ l_tokens[s] > 0 /\ l_tokens' = [l_tokens EXCEPT ![s] = @ - 1]
        /\ UNCHANGED <<l_index, l_data, l_count, l_claimed, l_expected, l_desired>>
    BY <1>2, <1>a DEF LockFree!TakeToken, LockFree!Labels, LockFree!ring
  <2>2. /\ Holding(s)' = Holding(s) \cup {t} /\ t \notin Holding(s)
        /\ \A r \in LockFree!Sides \ {s} : Holding(r)' = Holding(r)
        /\ \A r \in LockFree!Sides : Owing(r)' = Owing(r)
    BY <2>1 DEF Holding, Owing
  <2>3. Cardinality(Holding(s)') = Cardinality(Holding(s)) + 1
    BY <1>0, <2>2, Comes
  <2>4. LockFreeBooks'
    <3>1. CASE s = "push"
      <4>1. /\ l_tokens'["push"] = l_tokens["push"] - 1
            /\ l_tokens'["pop"] = l_tokens["pop"] /\ l_count' = l_count
            /\ Cardinality(Holding("push")') = Cardinality(Holding("push")) + 1
            /\ Holding("pop")' = Holding("pop")
            /\ Owing("push")' = Owing("push") /\ Owing("pop")' = Owing("pop")
        BY <2>1, <2>2, <2>3, <3>1
      <4> HIDE DEF LockFreeInv, LockFree!TypeOK
      <4> QED
        BY <1>0, <1>b, <4>1 DEF LockFreeBooks
    <3>2. CASE s = "pop"
      <4>1. /\ l_tokens'["pop"] = l_tokens["pop"] - 1
            /\ l_tokens'["push"] = l_tokens["push"] /\ l_count' = l_count
            /\ Cardinality(Holding("pop")') = Cardinality(Holding("pop")) + 1
            /\ Holding("push")' = Holding("push")
            /\ Owing("push")' = Owing("push") /\ Owing("pop")' = Owing("pop")
        BY <2>1, <2>2, <2>3, <3>2
      <4> HIDE DEF LockFreeInv, LockFree!TypeOK
      <4> QED
        BY <1>0, <1>b, <4>1 DEF LockFreeBooks
    <3> QED
      BY <3>1, <3>2
  <2> QED
    BY <2>1, <2>4
<1>3. ASSUME NEW t \in Threads,
             \/ LockFree!Claim(t) \/ LockFree!Destroy(t)
             \/ LockFree!LoadExpected(t) \/ LockFree!LoadDesired(t)
             \/ LockFree!Swap(t) \/ LockFree!SwapFails(t)
             \/ \E item \in Items : LockFree!Construct(t, item)
      PROVE  LockFreeInv'
  <2>1. UNCHANGED <<l_tokens, l_count, l_side>>
    BY <1>3 DEF LockFree!Claim, LockFree!Construct, LockFree!Destroy,
         LockFree!LoadExpected, LockFree!LoadDesired, LockFree!Swap,
         LockFree!SwapFails, LockFree!ring, LockFree!locals
  <2>2. PICK from, to \in LockFree!Labels :
          /\ LockFree!Goto(t, from, to)
          /\ \/ {from, to} \subseteq {"claim", "access", "count"}
             \/ {from, to} \subseteq {"load", "reload", "swap", "post"}
    BY <1>3 DEF LockFree!Claim, LockFree!Construct, LockFree!Destroy,
         LockFree!LoadExpected, LockFree!LoadDesired, LockFree!Swap,
         LockFree!SwapFails, LockFree!Labels
  <2>3. /\ l_pc[t] = from /\ l_pc' = [l_pc EXCEPT ![t] = to]
        /\ l_pc' \in [Threads -> LockFree!Labels]
    BY <2>2, <1>a
  <2>4. \A r \in LockFree!Sides : Holding(r)' = Holding(r) /\ Owing(r)' = Owing(r)
    BY <2>1, <2>2, <2>3 DEF Holding, Owing
  <2>5. LockFreeBooks'
    BY <2>1, <2>4, LockFreeQuiet
  <2>6. /\ l_index' \in [LockFree!Sides -> Nat]
        /\ l_claimed' \in [Threads -> Nat]
        /\ l_expected' \in [Threads -> Nat]
        /\ l_desired' \in [Threads -> LockFree!Slots]
        /\ l_data' \in [LockFree!Slots -> Items \cup {NoItem}]
    <3>1. \A n \in LockFree!Slots : n \in Nat
      BY DEF LockFree!Slots
    <3>2. CASE LockFree!Claim(t)
      BY <3>2 DEF LockFree!Claim
    <3>3. CASE \/ LockFree!Destroy(t)
               \/ \E item \in Items : LockFree!Construct(t, item)
      BY <3>3 DEF LockFree!Construct, LockFree!Destroy, LockFree!locals
    <3>4. CASE LockFree!LoadExpected(t)
      BY <3>4 DEF LockFree!LoadExpected, LockFree!ring
    <3>5. CASE LockFree!LoadDesired(t)
      BY <3>5, AroundTheRing
         DEF LockFree!LoadDesired, LockFree!ring, LockFree!Slots
    <3>6. CASE LockFree!Swap(t)
      <4>1. 0 \in LockFree!Slots
        BY DEF LockFree!Slots
      <4> QED
        BY <3>1, <3>6, <4>1 DEF LockFree!Swap
    <3>7. CASE LockFree!SwapFails(t)
      BY <3>7 DEF LockFree!SwapFails, LockFree!ring, LockFree!locals
    <3> QED
      BY <1>3, <3>2, <3>3, <3>4, <3>5, <3>6, <3>7
  <2> QED
    BY <2>1, <2>3, <2>5, <2>6
<1>4. ASSUME NEW t \in Threads, LockFree!Count(t) PROVE LockFreeInv'
  <2>1. /\ l_pc[t] = "count" /\ l_pc' = [l_pc EXCEPT ![t] = "load"]
        /\ l_pc' \in [Threads -> LockFree!Labels]
        /\ l_count' = IF l_side[t] = "push" THEN l_count + 1 ELSE l_count - 1
        /\ l_claimed' = [l_claimed EXCEPT ![t] = 0]
        /\ UNCHANGED <<l_tokens, l_index, l_data, l_side, l_expected, l_desired>>
    BY <1>4, <1>a DEF LockFree!Count, LockFree!Labels
  <2> DEFINE s == l_side[t]
  <2>2. /\ Holding(s)' = Holding(s) \ {t} /\ t \in Holding(s)
        /\ Owing(s)' = Owing(s) \cup {t} /\ t \notin Owing(s)
        /\ \A r \in LockFree!Sides \ {s} :
            Holding(r)' = Holding(r) /\ Owing(r)' = Owing(r)
    BY <2>1 DEF Holding, Owing
  <2>3. /\ Cardinality(Holding(s)') = Cardinality(Holding(s)) - 1
        /\ Cardinality(Owing(s)') = Cardinality(Owing(s)) + 1
    BY <1>0, <2>2, Comes, Goes
  <2>4. LockFreeBooks' /\ l_count' \in Nat
    <3>1. CASE s = "push"
      <4>1. /\ l_tokens' = l_tokens /\ l_count' = l_count + 1
            /\ Cardinality(Holding("push")') = Cardinality(Holding("push")) - 1
            /\ Cardinality(Owing("push")') = Cardinality(Owing("push")) + 1
            /\ Holding("pop")' = Holding("pop") /\ Owing("pop")' = Owing("pop")
        BY <2>1, <2>2, <2>3, <3>1
      <4> HIDE DEF LockFreeInv, LockFree!TypeOK
      <4> QED
        BY <1>0, <1>b, <4>1 DEF LockFreeBooks
    <3>2. CASE s = "pop"
      <4>1. /\ l_tokens' = l_tokens /\ l_count' = l_count - 1
            /\ Cardinality(Holding("pop")') = Cardinality(Holding("pop")) - 1
            /\ Cardinality(Owing("pop")') = Cardinality(Owing("pop")) + 1
            /\ Holding("push")' = Holding("push")
            /\ Owing("push")' = Owing("push")
        BY <2>1, <2>2, <2>3, <3>2
      <4> HIDE DEF LockFreeInv, LockFree!TypeOK
      <4> QED
        BY <1>0, <1>b, <4>1 DEF LockFreeBooks
    <3> QED
      BY <3>1, <3>2
  <2> QED
    BY <2>1, <2>4
<1>5. ASSUME NEW t \in Threads, LockFree!Post(t) PROVE LockFreeInv'
  <2>0. PICK s \in LockFree!Sides : s = l_side[t]
    OBVIOUS
  <2>1. /\ l_pc[t] = "post" /\ l_pc' = [l_pc EXCEPT ![t] = "idle"]
        /\ l_pc' \in [Threads -> LockFree!Labels]
        /\ l_side' = [l_side EXCEPT ![t] = "push"]
        /\ l_tokens' = [l_tokens EXCEPT ![LockFree!Other(s)] = @ + 1]
        /\ UNCHANGED <<l_index, l_data, l_count, l_claimed, l_expected, l_desired>>
    BY <1>5, <1>a, <2>0 DEF LockFree!Post, LockFree!Labels, LockFree!ring
  <2>2. /\ Owing(s)' = Owing(s) \ {t} /\ t \in Owing(s)
        /\ \A r \in LockFree!Sides : Holding(r)' = Holding(r)
        /\ \A r \in LockFree!Sides \ {s} : Owing(r)' = Owing(r)
    <3>1. /\ Owing(s)' = Owing(s) \ {t} /\ t \in Owing(s)
      BY <2>0, <2>1 DEF Owing
    <3>2. \A r \in LockFree!Sides : Holding(r)' = Holding(r)
      BY <2>0, <2>1 DEF Holding
    <3>3. \A r \in LockFree!Sides \ {s} : Owing(r)' = Owing(r)
      BY <2>0, <2>1 DEF Owing
    <3> QED
      BY <3>1, <3>2, <3>3
  <2>3. Cardinality(Owing(s)') = Cardinality(Owing(s)) - 1
    BY <1>0, <2>2, Goes
  <2>4. LockFreeBooks' /\ l_tokens' \in [LockFree!Sides -> 0 .. Capacity]
    <3>1. CASE s = "push"
      <4>1. /\ l_tokens'["push"] = l_tokens["push"]
            /\ l_tokens'["pop"] = l_tokens["pop"] + 1
        BY <2>1, <3>1 DEF LockFree!Other
      <4>2. LockFreeBooks'
        <5>1. /\ l_count' = l_count
              /\ Cardinality(Owing("push")') = Cardinality(Owing("push")) - 1
              /\ Owing("pop")' = Owing("pop")
              /\ Holding("push")' = Holding("push")
              /\ Holding("pop")' = Holding("pop")
          BY <2>1, <2>2, <2>3, <3>1
        <5>2. /\ Cardinality(Holding("push")) \in Nat
              /\ Cardinality(Holding("pop")) \in Nat
              /\ Cardinality(Owing("push")) \in Nat
              /\ Cardinality(Owing("pop")) \in Nat
          BY <1>0
        <5> HIDE DEF LockFreeInv, LockFree!TypeOK, LockFree!Sides
        <5> QED
          BY <1>b, <4>1, <5>1, <5>2 DEF LockFreeBooks
      <4>3. l_tokens["pop"] + 1 \in 0 .. Capacity
        BY <1>0, <2>1, <4>1, <4>2 DEF LockFreeBooks
      <4> QED
        BY <2>1, <3>1, <4>2, <4>3 DEF LockFree!Other
    <3>2. CASE s = "pop"
      <4>1. /\ l_tokens'["pop"] = l_tokens["pop"]
            /\ l_tokens'["push"] = l_tokens["push"] + 1
        BY <2>1, <3>2 DEF LockFree!Other
      <4>2. LockFreeBooks'
        <5>1. /\ l_count' = l_count
              /\ Cardinality(Owing("pop")') = Cardinality(Owing("pop")) - 1
              /\ Owing("push")' = Owing("push")
              /\ Holding("push")' = Holding("push")
              /\ Holding("pop")' = Holding("pop")
          BY <2>1, <2>2, <2>3, <3>2
        <5>2. /\ Cardinality(Holding("push")) \in Nat
              /\ Cardinality(Holding("pop")) \in Nat
              /\ Cardinality(Owing("push")) \in Nat
              /\ Cardinality(Owing("pop")) \in Nat
          BY <1>0
        <5> HIDE DEF LockFreeInv, LockFree!TypeOK, LockFree!Sides
        <5> QED
          BY <1>b, <4>1, <5>1, <5>2 DEF LockFreeBooks
      <4>3. l_tokens["push"] + 1 \in 0 .. Capacity
        BY <1>0, <2>1, <4>1, <4>2 DEF LockFreeBooks
      <4> QED
        BY <2>1, <3>2, <4>2, <4>3 DEF LockFree!Other
    <3> QED
      BY <3>1, <3>2
  <2> QED
    BY <2>1, <2>4
<1>6. CASE UNCHANGED LockFree!vars
  BY <1>6 DEF LockFree!vars, LockFreeBooks, Holding, Owing
<1> QED
  BY <1>1, <1>2, <1>3, <1>4, <1>5, <1>6 DEF LockFree!Next, LockFree!Step

\* What size(), empty() and full() may report.
LEMMA LockFreeCount == LockFreeInv => LockFree!CountInRange
<1>1. \A s \in LockFree!Sides : /\ Cardinality(Holding(s)) \in Nat
                                /\ Cardinality(Owing(s)) \in Nat
  <2>1. \A s \in LockFree!Sides :
          Holding(s) \in SUBSET Threads /\ Owing(s) \in SUBSET Threads
    BY DEF Holding, Owing
  <2> QED
    BY <2>1, Counting
<1> QED
  BY <1>1 DEF LockFreeInv, LockFreeBooks, LockFree!TypeOK, LockFree!Sides,
       LockFree!CountInRange

------------------------------------------------------------------------------
(* lock_free_queue with callers that take turns                            *)

\* A call that has an index and has not brought it back into the ring.
Beyond == {"access", "count", "load", "reload", "swap"}

\* One push and one pop at a time are past their wait.
OneInside == \A t, u \in Threads :
    /\ l_pc[t] \in LockFree!InsideLabels /\ l_pc[u] \in LockFree!InsideLabels
    /\ l_side[t] = l_side[u]
    => t = u

\* So the index a call claimed is the one before the present, a compare-and-swap
\* finds what it expects, and the index leaves the ring by one place at most,
\* while a call is about to bring it back.
Indexed ==
    /\ \A t \in Threads :
        /\ l_pc[t] = "access" => l_claimed[t] = l_index[l_side[t]] - 1
        /\ l_pc[t] \in Beyond => l_index[l_side[t]] # 0
        /\ l_pc[t] \in {"reload", "swap"} => l_expected[t] = l_index[l_side[t]]
        /\ l_pc[t] = "swap" => l_desired[t] = Around(l_index[l_side[t]])
    /\ \A s \in LockFree!Sides :
        /\ l_index[s] \in 0 .. Capacity
        /\ l_index[s] = Capacity =>
            \E t \in Threads : l_side[t] = s /\ l_pc[t] \in Beyond

\* The place an end of the queue works on next, or now.
Accessing(s) == \E t \in Threads : l_side[t] = s /\ l_pc[t] = "access"
Front(s) == IF Accessing(s) THEN l_index[s] - 1 ELSE Around(l_index[s])

\* The living slots, and what the counter lags behind them.
Alive == {x \in LockFree!Slots : l_data[x] # NoItem}
Uncounted(s) ==
    IF \E t \in Threads : l_side[t] = s /\ l_pc[t] = "count" THEN 1 ELSE 0

\* The living slots are those from where pops work to where pushes do.
LockFreeRing ==
    /\ Cardinality(Alive) = l_count + Uncounted("push") - Uncounted("pop")
    /\ Front("push") = Place(Front("pop"), Cardinality(Alive))
    /\ \A n \in 0 .. Capacity - 1 :
        l_data[Place(Front("pop"), n)] # NoItem <=> n < Cardinality(Alive)

Turns == OneInside /\ Indexed /\ LockFreeRing
TurnsInv == l_serialised => Turns

\* A thread inside a call goes on; another goes past neither end of the ring.
Steps(t, to) == l_pc' = [l_pc EXCEPT ![t] = to] /\ UNCHANGED l_side
StaysOut(t) ==
    /\ l_pc[t] \notin Beyond /\ l_pc'[t] \notin Beyond
    /\ \A u \in Threads \ {t} : l_pc'[u] = l_pc[u] /\ l_side'[u] = l_side[u]
    /\ UNCHANGED <<l_index, l_data, l_count, l_claimed, l_expected, l_desired>>

\* A thread alone at its end goes on, and the other end does not notice.
StepsAlone(t, to) ==
    /\ OneInside' /\ l_side' = l_side /\ l_pc'[t] = to
    /\ \A u \in Threads \ {t} :
        /\ l_pc'[u] = l_pc[u]
        /\ l_pc[u] \in LockFree!InsideLabels => l_side[u] # l_side[t]
    /\ Accessing(l_side[t]) <=> l_pc[t] = "access"
    /\ Accessing(l_side[t])' <=> to = "access"
    /\ Uncounted(l_side[t]) = IF l_pc[t] = "count" THEN 1 ELSE 0
    /\ Uncounted(l_side[t])' = IF to = "count" THEN 1 ELSE 0
    /\ \A r \in LockFree!Sides \ {l_side[t]} :
        /\ Accessing(r)' <=> Accessing(r)
        /\ Uncounted(r)' = Uncounted(r)

\* The thread that goes on is the only one inside at its end, before and after.
LEMMA OnlyOne ==
    ASSUME LockFree!TypeOK, OneInside, NEW t \in Threads,
           NEW to \in LockFree!Labels, l_pc[t] \in LockFree!InsideLabels, Steps(t, to)
    PROVE  StepsAlone(t, to)
<1>1. /\ l_pc' \in [Threads -> LockFree!Labels] /\ l_pc'[t] = to /\ l_side' = l_side
      /\ \A u \in Threads \ {t} : l_pc'[u] = l_pc[u]
  BY DEF LockFree!TypeOK, Steps
<1>2. \A u \in Threads \ {t} :
        l_pc[u] \in LockFree!InsideLabels => l_side[u] # l_side[t]
  BY DEF OneInside
<1>3. "access" \in LockFree!InsideLabels /\ "count" \in LockFree!InsideLabels
  BY DEF LockFree!InsideLabels, LockFree!Labels
<1>4. OneInside'
  BY <1>1, <1>2 DEF OneInside
<1>5. /\ Accessing(l_side[t]) <=> l_pc[t] = "access"
      /\ Accessing(l_side[t])' <=> to = "access"
  BY <1>1, <1>2, <1>3 DEF Accessing
<1>6. /\ Uncounted(l_side[t]) = IF l_pc[t] = "count" THEN 1 ELSE 0
      /\ Uncounted(l_side[t])' = IF to = "count" THEN 1 ELSE 0
  BY <1>1, <1>2, <1>3 DEF Uncounted
<1>7. ASSUME NEW r \in LockFree!Sides \ {l_side[t]}
      PROVE  Accessing(r)' <=> Accessing(r)
  BY <1>1, <1>7 DEF Accessing
<1>8. ASSUME NEW r \in LockFree!Sides \ {l_side[t]}
      PROVE  Uncounted(r)' = Uncounted(r)
  BY <1>1, <1>8 DEF Uncounted
<1> QED
  BY <1>1, <1>2, <1>4, <1>5, <1>6, <1>7, <1>8 DEF StepsAlone

\* The ends of the ring as numbers.
LEMMA Ends ==
    ASSUME Indexed, NEW s \in LockFree!Sides
    PROVE  /\ l_index[s] \in 0 .. Capacity /\ Front(s) \in 0 .. Capacity - 1
           /\ Accessing(s) => l_index[s] # 0
           /\ (\A t \in Threads : l_side[t] = s => l_pc[t] \notin Beyond)
                => l_index[s] # Capacity
<1>1. Accessing(s) => l_index[s] # 0
  BY DEF Indexed, Accessing, Beyond
<1> QED
  BY <1>1 DEF Indexed, Front, Around

\* What changes neither slots nor ends.
LEMMA RingQuiet ==
    ASSUME LockFreeRing, UNCHANGED <<l_data, l_count>>,
           Front("push")' = Front("push"), Front("pop")' = Front("pop"),
           Uncounted("push")' = Uncounted("push"), Uncounted("pop")' = Uncounted("pop")
    PROVE  LockFreeRing'
<1>1. Alive' = Alive
  BY DEF Alive
<1> QED
  BY <1>1 DEF LockFreeRing

\* A call that waits, begins or ends.
LEMMA TurnsQuiet ==
    ASSUME Indexed, LockFreeRing, NEW t \in Threads, StaysOut(t)
    PROVE  Indexed' /\ LockFreeRing' /\ Front("pop")' = Front("pop")
<1>1. Indexed'
  BY DEF Indexed, StaysOut, Beyond
<1>2. ASSUME NEW s \in LockFree!Sides
      PROVE  Accessing(s)' <=> Accessing(s)
  BY <1>2 DEF Accessing, StaysOut, Beyond
<1>3. ASSUME NEW s \in LockFree!Sides
      PROVE  Uncounted(s)' = Uncounted(s)
  BY <1>3 DEF Uncounted, StaysOut, Beyond
<1>4. ASSUME NEW s \in LockFree!Sides
      PROVE  Front(s)' = Front(s)
  BY <1>2, <1>4 DEF Front, StaysOut
<1>5. "push" \in LockFree!Sides /\ "pop" \in LockFree!Sides
  BY DEF LockFree!Sides
<1> QED
  BY <1>1, <1>3, <1>4, <1>5, RingQuiet DEF StaysOut

\* A call that has a slot to construct in, or an element to destroy.
LEMMA RoomToWork ==
    ASSUME LockFreeInv, Turns, NEW t \in Threads, l_pc[t] = "access"
    PROVE  /\ Cardinality(Alive) \in 0 .. Capacity
           /\ l_side[t] = "push" => Cardinality(Alive) < Capacity
           /\ l_side[t] = "pop" => Cardinality(Alive) > 0
<1>1. \A s \in LockFree!Sides :
        /\ Holding(s) \in SUBSET Threads /\ Owing(s) \in SUBSET Threads
  BY DEF Holding, Owing
<1>2. /\ Cardinality(Holding("push")) \in Nat /\ Cardinality(Holding("pop")) \in Nat
      /\ Cardinality(Owing("push")) \in Nat /\ Cardinality(Owing("pop")) \in Nat
      /\ Holding("push") # {} => Cardinality(Holding("push")) # 0
      /\ Holding("pop") # {} => Cardinality(Holding("pop")) # 0
  BY <1>1, Counting DEF LockFree!Sides
<1>3. t \in Holding(l_side[t])
  BY DEF Holding
<1>4. \A u \in Threads : l_side[u] = l_side[t] => l_pc[u] # "count"
  BY DEF Turns, OneInside, LockFree!InsideLabels, LockFree!Labels
<1>5. Uncounted(l_side[t]) = 0
  BY <1>4 DEF Uncounted
<1>6. Uncounted("push") \in {0, 1} /\ Uncounted("pop") \in {0, 1}
  BY DEF Uncounted
<1>7. ASSUME Uncounted("push") = 1 PROVE Holding("push") # {}
  BY <1>7 DEF Uncounted, Holding
<1>8. ASSUME Uncounted("pop") = 1 PROVE Holding("pop") # {}
  BY <1>8 DEF Uncounted, Holding
<1>9. /\ l_tokens["push"] \in Nat /\ l_tokens["pop"] \in Nat /\ l_count \in Nat
      /\ l_tokens["push"] + Cardinality(Holding("push")) + l_count
            + Cardinality(Owing("pop")) = Capacity
      /\ l_tokens["pop"] + Cardinality(Holding("pop"))
            + Cardinality(Owing("push")) = l_count
      /\ Cardinality(Alive) = l_count + Uncounted("push") - Uncounted("pop")
  BY DEF LockFreeInv, LockFree!TypeOK, LockFree!Sides, LockFreeBooks, Turns, LockFreeRing
<1>10. Cardinality(Alive) \in 0 .. Capacity
  BY <1>2, <1>6, <1>7, <1>8, <1>9
<1>11. ASSUME l_side[t] = "push" PROVE Cardinality(Alive) < Capacity
  <2>1. Cardinality(Holding("push")) # 0 /\ Uncounted("push") = 0
    BY <1>2, <1>3, <1>5, <1>11
  <2>2. l_count < Capacity
    BY <1>2, <1>9, <2>1
  <2> QED
    BY <1>6, <1>9, <2>1, <2>2
<1>12. ASSUME l_side[t] = "pop" PROVE Cardinality(Alive) > 0
  <2>1. Cardinality(Holding("pop")) # 0 /\ Uncounted("pop") = 0
    BY <1>2, <1>3, <1>5, <1>12
  <2>2. l_count > 0
    BY <1>2, <1>9, <2>1
  <2> QED
    BY <1>6, <1>9, <2>1, <2>2
<1> QED
  BY <1>10, <1>11, <1>12

\* The living slots are finitely many; one is constructed, one destroyed.
LEMMA AliveCounts ==
    ASSUME NEW x \in LockFree!Slots
    PROVE  /\ x \notin Alive /\ Alive' = Alive \cup {x}
                => Cardinality(Alive') = Cardinality(Alive) + 1
           /\ x \in Alive /\ Alive' = Alive \ {x}
                => Cardinality(Alive') = Cardinality(Alive) - 1
<1>1. IsFiniteSet(LockFree!Slots)
  BY FS_Interval DEF LockFree!Slots
<1>2. IsFiniteSet(Alive)
  BY <1>1, FS_Subset DEF Alive
<1> QED
  BY <1>2, FS_AddElement, FS_RemoveElement

\* The push constructs behind the living elements.
LEMMA ConstructKept ==
    ASSUME LockFreeInv, Turns, NEW t \in Threads, NEW item \in Items,
           LockFree!Construct(t, item)
    PROVE  /\ Turns'
           /\ Front("pop")' = Front("pop") /\ Front("pop") \in 0 .. Capacity - 1
           /\ Cardinality(Alive) \in 0 .. Capacity - 1
           /\ Cardinality(Alive)' = Cardinality(Alive) + 1
           /\ l_data' = [l_data EXCEPT ![Place(Front("pop"), Cardinality(Alive))] = item]
<1> DEFINE F == Front("pop")
           k == Cardinality(Alive)
<1>0. /\ LockFree!TypeOK /\ OneInside /\ Indexed /\ LockFreeRing
      /\ l_data \in [LockFree!Slots -> Items \cup {NoItem}]
  BY DEF LockFreeInv, LockFree!TypeOK, Turns
<1>1. /\ l_pc[t] = "access" /\ l_side[t] = "push" /\ Steps(t, "count")
      /\ l_data' = [l_data EXCEPT ![l_claimed[t] % Capacity] = item]
      /\ UNCHANGED <<l_index, l_count, l_claimed, l_expected, l_desired>>
  BY DEF LockFree!Construct, LockFree!Goto, LockFree!locals, Steps
<1>2. /\ "access" \in LockFree!InsideLabels /\ "count" \in LockFree!Labels
      /\ "push" \in LockFree!Sides /\ "pop" \in LockFree!Sides \ {"push"}
  BY DEF LockFree!InsideLabels, LockFree!Labels, LockFree!Sides
<1>3. /\ OneInside' /\ l_side' = l_side /\ l_pc'[t] = "count"
      /\ \A u \in Threads \ {t} :
            /\ l_pc'[u] = l_pc[u]
            /\ l_pc[u] \in LockFree!InsideLabels => l_side[u] # "push"
      /\ Accessing("push") /\ ~Accessing("push")'
      /\ Uncounted("push") = 0 /\ Uncounted("push")' = 1
      /\ Accessing("pop")' <=> Accessing("pop")
      /\ Uncounted("pop")' = Uncounted("pop")
  <2>1. StepsAlone(t, "count")
    BY <1>0, <1>1, <1>2, OnlyOne
  <2> QED
    BY <1>1, <1>2, <2>1 DEF StepsAlone
<1>4. /\ Front("push") \in 0 .. Capacity - 1 /\ F \in 0 .. Capacity - 1
      /\ Front("push") = l_index["push"] - 1 /\ l_index["push"] \in 0 .. Capacity
      /\ l_claimed[t] = Front("push")
      /\ Front("push")' = Around(l_index["push"]) /\ F' = F
  BY <1>0, <1>1, <1>2, <1>3, Ends DEF Front, Indexed
<1>5. k \in 0 .. Capacity - 1
  BY <1>1, RoomToWork
<1>6. Indexed'
  BY <1>0, <1>1, <1>3 DEF Indexed, Beyond
<1>7. /\ \A n \in 0 .. Capacity : Place(F, n) \in LockFree!Slots
      /\ Place(Place(F, k), 1) = Place(F, k + 1)
      /\ \A n \in 0 .. Capacity - 1 : Place(F, n) = Place(F, k) => n = k
  <2>1. F \in 0 .. Capacity - 1
    BY <1>4
  <2> HIDE DEF F, k
  <2>2. /\ \A n \in 0 .. Capacity : Place(F, n) \in 0 .. Capacity - 1
        /\ \A n \in 0 .. Capacity - 1 : Place(Place(F, n), 1) = Place(F, n + 1)
        /\ \A n, m \in 0 .. Capacity - 1 : Place(F, n) = Place(F, m) => n = m
    BY <2>1, RingPlaces
  <2> QED
    BY <1>5, <2>2 DEF LockFree!Slots
<1>8. /\ Front("push") = Place(F, k)
      /\ \A n \in 0 .. Capacity - 1 : l_data[Place(F, n)] # NoItem <=> n < k
      /\ k = l_count + Uncounted("push") - Uncounted("pop")
  BY <1>0 DEF LockFreeRing
<1>9. l_claimed[t] % Capacity = Place(F, k)
  BY <1>4, <1>8, AroundTheRing
<1>10. Place(F, k) \in LockFree!Slots /\ l_data[Place(F, k)] = NoItem
  BY <1>5, <1>7, <1>8
<1>11. l_data' = [l_data EXCEPT ![Place(F, k)] = item]
  BY <1>1, <1>9
<1> HIDE DEF F, k
<1>12. Alive' = Alive \cup {Place(F, k)} /\ Place(F, k) \notin Alive
  BY <1>0, <1>10, <1>11 DEF Alive
<1>13. Cardinality(Alive') = k + 1
  BY <1>10, <1>12, AliveCounts DEF k
<1>14. Front("push")' = Place(F, k + 1)
  <2>1. (Front("push") + 1) % Capacity = Around(l_index["push"])
    BY <1>4, AroundTheRing DEF Around
  <2> QED
    BY <1>4, <1>7, <1>8, <2>1 DEF Place
<1>15. ASSUME NEW n \in 0 .. Capacity - 1
       PROVE  l_data'[Place(F, n)] # NoItem <=> n < k + 1
  <2>1. Place(F, n) \in LockFree!Slots
    BY <1>7
  <2>2. CASE n = k
    BY <1>0, <1>5, <1>10, <1>11, <2>2
  <2>3. CASE n # k
    <3>1. Place(F, n) # Place(F, k)
      BY <1>7, <2>3
    <3>2. l_data'[Place(F, n)] = l_data[Place(F, n)]
      BY <1>0, <1>11, <2>1, <3>1
    <3>3. n < k <=> n < k + 1
      BY <1>5, <2>3
    <3> QED
      BY <1>8, <3>2, <3>3
  <2> QED
    BY <2>2, <2>3
<1>16. k + 1 = l_count' + Uncounted("push")' - Uncounted("pop")'
  <2>1. l_count \in Nat /\ Uncounted("pop") \in {0, 1}
    BY <1>0 DEF LockFree!TypeOK, Uncounted
  <2>2. k = l_count + Uncounted("push") - Uncounted("pop")
    BY <1>8
  <2> QED
    BY <1>1, <1>3, <2>1, <2>2
<1>17. LockFreeRing'
  BY <1>4, <1>13, <1>14, <1>15, <1>16 DEF LockFreeRing, F
<1> QED
  BY <1>3, <1>4, <1>5, <1>6, <1>11, <1>13, <1>17 DEF Turns, F, k

\* The pop destroys the first of them.
LEMMA DestroyKept ==
    ASSUME LockFreeInv, Turns, NEW t \in Threads, LockFree!Destroy(t)
    PROVE  /\ Turns'
           /\ Front("pop") \in 0 .. Capacity - 1
           /\ Front("pop")' = Place(Front("pop"), 1)
           /\ Cardinality(Alive) \in 1 .. Capacity
           /\ Cardinality(Alive)' = Cardinality(Alive) - 1
           /\ l_data' = [l_data EXCEPT ![Front("pop")] = NoItem]
<1> DEFINE F == Front("pop")
           k == Cardinality(Alive)
           G == Place(F, 1)
<1>0. /\ LockFree!TypeOK /\ OneInside /\ Indexed /\ LockFreeRing
      /\ l_data \in [LockFree!Slots -> Items \cup {NoItem}]
  BY DEF LockFreeInv, LockFree!TypeOK, Turns
<1>1. /\ l_pc[t] = "access" /\ l_side[t] = "pop" /\ Steps(t, "count")
      /\ l_data' = [l_data EXCEPT ![l_claimed[t] % Capacity] = NoItem]
      /\ UNCHANGED <<l_index, l_count, l_claimed, l_expected, l_desired>>
  BY DEF LockFree!Destroy, LockFree!Goto, LockFree!locals, Steps
<1>2. /\ "access" \in LockFree!InsideLabels /\ "count" \in LockFree!Labels
      /\ "pop" \in LockFree!Sides /\ "push" \in LockFree!Sides \ {"pop"}
  BY DEF LockFree!InsideLabels, LockFree!Labels, LockFree!Sides
<1>3. /\ OneInside' /\ l_side' = l_side /\ l_pc'[t] = "count"
      /\ \A u \in Threads \ {t} :
            /\ l_pc'[u] = l_pc[u]
            /\ l_pc[u] \in LockFree!InsideLabels => l_side[u] # "pop"
      /\ Accessing("pop") /\ ~Accessing("pop")'
      /\ Uncounted("pop") = 0 /\ Uncounted("pop")' = 1
      /\ Accessing("push")' <=> Accessing("push")
      /\ Uncounted("push")' = Uncounted("push")
  <2>1. StepsAlone(t, "count")
    BY <1>0, <1>1, <1>2, OnlyOne
  <2> QED
    BY <1>1, <1>2, <2>1 DEF StepsAlone
<1>4. /\ F \in 0 .. Capacity - 1
      /\ F = l_index["pop"] - 1 /\ l_index["pop"] \in 0 .. Capacity
      /\ l_claimed[t] = F
      /\ F' = Around(l_index["pop"]) /\ Front("push")' = Front("push")
  BY <1>0, <1>1, <1>2, <1>3, Ends DEF Front, Indexed
<1>5. k \in 1 .. Capacity
  BY <1>1, RoomToWork
<1>6. Indexed'
  BY <1>0, <1>1, <1>3 DEF Indexed, Beyond
<1>7. F' = G
  <2>1. (F + 1) % Capacity = Around(l_index["pop"])
    BY <1>4, AroundTheRing DEF Around
  <2> QED
    BY <1>4, <2>1 DEF Place
<1>8. /\ Front("push") = Place(F, k)
      /\ \A n \in 0 .. Capacity - 1 : l_data[Place(F, n)] # NoItem <=> n < k
      /\ k = l_count + Uncounted("push") - Uncounted("pop")
  BY <1>0 DEF LockFreeRing
<1>9. l_data' = [l_data EXCEPT ![F] = NoItem]
  <2>1. l_claimed[t] % Capacity = F
    BY <1>4, AroundTheRing
  <2> QED
    BY <1>1, <2>1
<1>10. /\ \A n \in 0 .. Capacity : Place(F, n) \in LockFree!Slots
       /\ Place(F, 0) = F /\ Place(F, Capacity) = F
       /\ \A n \in 0 .. Capacity - 1 : Place(F, n) = Place(F, 0) => n = 0
       /\ \A n \in 0 .. Capacity - 1 :
            Place(G, n) = IF n = Capacity - 1 THEN F ELSE Place(F, n + 1)
  <2> HIDE DEF F
  <2>1. 0 \in 0 .. Capacity - 1
    OBVIOUS
  <2>2. \A n, m \in 0 .. Capacity - 1 : Place(F, n) = Place(F, m) => n = m
    BY <1>4, RingPlaces
  <2>3. /\ \A n \in 0 .. Capacity : Place(F, n) \in LockFree!Slots
        /\ Place(F, 0) = F /\ Place(F, Capacity) = F
    BY <1>4, RingPlaces DEF LockFree!Slots
  <2>4. \A n \in 0 .. Capacity - 1 :
            Place(G, n) = IF n = Capacity - 1 THEN F ELSE Place(F, n + 1)
    BY <1>4, RingPlaces
  <2> QED
    BY <2>1, <2>2, <2>3, <2>4
<1> HIDE DEF F, k, G
<1>11. F \in LockFree!Slots /\ l_data[F] # NoItem
  <2>1. 0 \in 0 .. Capacity - 1 /\ 0 < k /\ 0 \in 0 .. Capacity
    BY <1>5
  <2>2. l_data[Place(F, 0)] # NoItem
    BY <1>8, <2>1
  <2> QED
    BY <1>10, <2>1, <2>2
<1>12. Alive' = Alive \ {F} /\ F \in Alive
  BY <1>0, <1>9, <1>11 DEF Alive
<1>13. Cardinality(Alive') = k - 1
  BY <1>11, <1>12, AliveCounts DEF k
<1>14. Front("push")' = Place(G, k - 1)
  <2>1. k - 1 \in 0 .. Capacity - 1 /\ (k - 1) + 1 = k
        /\ (k - 1 = Capacity - 1 => k = Capacity)
    BY <1>5
  <2> QED
    BY <1>4, <1>8, <1>10, <2>1
<1>15. ASSUME NEW n \in 0 .. Capacity - 1
       PROVE  l_data'[Place(G, n)] # NoItem <=> n < k - 1
  <2>1. CASE n = Capacity - 1
    <3>1. l_data'[F] = NoItem /\ Place(G, n) = F
      BY <1>0, <1>9, <1>10, <1>11, <2>1
    <3> QED
      BY <1>5, <2>1, <3>1
  <2>2. CASE n # Capacity - 1
    <3>1. n + 1 \in 0 .. Capacity - 1 /\ n + 1 # 0 /\ n + 1 \in 0 .. Capacity
          /\ (n + 1 < k <=> n < k - 1)
      BY <1>5, <2>2
    <3>2. Place(G, n) = Place(F, n + 1) /\ Place(F, n + 1) # F
          /\ Place(F, n + 1) \in LockFree!Slots
      BY <1>10, <2>2, <3>1
    <3>3. l_data'[Place(F, n + 1)] = l_data[Place(F, n + 1)]
      BY <1>0, <1>9, <3>2
    <3>4. l_data[Place(F, n + 1)] # NoItem <=> n + 1 < k
      BY <1>8, <3>1
    <3> QED
      BY <3>1, <3>2, <3>3, <3>4
  <2> QED
    BY <2>1, <2>2
<1>16. k - 1 = l_count' + Uncounted("push")' - Uncounted("pop")'
  <2>1. l_count \in Nat /\ Uncounted("push") \in {0, 1}
    BY <1>0 DEF LockFree!TypeOK, Uncounted
  <2>2. k = l_count + Uncounted("push") - Uncounted("pop")
    BY <1>8
  <2> QED
    BY <1>1, <1>3, <2>1, <2>2
<1>17. LockFreeRing'
  BY <1>7, <1>13, <1>14, <1>15, <1>16 DEF LockFreeRing, F, G
<1> QED
  BY <1>3, <1>4, <1>5, <1>6, <1>7, <1>9, <1>13, <1>17 DEF Turns, F, G, k

\* What a step does that leaves the elements and where pops work as they are.
Keeps == Turns' /\ l_data' = l_data /\ Front("pop")' = Front("pop")

\* A step inside that moves an index at most.
LEMMA MovesKept ==
    ASSUME LockFreeInv, Turns, NEW t \in Threads, NEW to \in LockFree!Labels,
           l_pc[t] \in LockFree!InsideLabels, Steps(t, to),
           l_pc[t] # "count", to # "count", UNCHANGED <<l_data, l_count>>,
           Indexed', Front(l_side[t])' = Front(l_side[t]),
           \A s \in LockFree!Sides \ {l_side[t]} : l_index'[s] = l_index[s]
    PROVE  Keeps
<1>1. LockFree!TypeOK /\ OneInside /\ LockFreeRing
  BY DEF LockFreeInv, Turns
<1>2. /\ OneInside' /\ Uncounted(l_side[t])' = Uncounted(l_side[t])
      /\ \A r \in LockFree!Sides \ {l_side[t]} :
            /\ Accessing(r)' <=> Accessing(r)
            /\ Uncounted(r)' = Uncounted(r)
  BY <1>1, OnlyOne DEF StepsAlone
<1>3. \A r \in LockFree!Sides : /\ Front(r)' = Front(r)
                                 /\ Uncounted(r)' = Uncounted(r)
  <2> SUFFICES ASSUME NEW r \in LockFree!Sides
               PROVE  Front(r)' = Front(r) /\ Uncounted(r)' = Uncounted(r)
    OBVIOUS
  <2>1. CASE r = l_side[t]
    <3>1. l_side'[t] = l_side[t]
      BY DEF Steps
    <3> QED
      BY <1>2, <2>1, <3>1
  <2>2. CASE r # l_side[t]
    BY <1>2, <2>2 DEF Front
  <2> QED
    BY <2>1, <2>2
<1>4. "push" \in LockFree!Sides /\ "pop" \in LockFree!Sides
  BY DEF LockFree!Sides
<1>5. /\ Front("push")' = Front("push") /\ Front("pop")' = Front("pop")
      /\ Uncounted("push")' = Uncounted("push") /\ Uncounted("pop")' = Uncounted("pop")
  BY <1>3, <1>4
<1>6. LockFreeRing'
  BY <1>1, <1>5, RingQuiet
<1> QED
  BY <1>2, <1>5, <1>6 DEF Keeps, Turns

\* A call claims an index.
LEMMA ClaimKept ==
    ASSUME LockFreeInv, Turns, NEW t \in Threads, LockFree!Claim(t)
    PROVE  Keeps
<1> DEFINE s == l_side[t]
<1>0. /\ LockFree!TypeOK /\ OneInside /\ Indexed /\ s \in LockFree!Sides
      /\ l_index \in [LockFree!Sides -> Nat] /\ l_claimed \in [Threads -> Nat]
  BY DEF LockFreeInv, LockFree!TypeOK, Turns
<1>1. /\ l_pc[t] = "claim" /\ Steps(t, "access")
      /\ l_claimed' = [l_claimed EXCEPT ![t] = l_index[s]]
      /\ l_index' = [l_index EXCEPT ![s] = @ + 1]
      /\ UNCHANGED <<l_data, l_count, l_expected, l_desired>>
  BY DEF LockFree!Claim, LockFree!Goto, Steps
<1>2. /\ "claim" \in LockFree!InsideLabels /\ "access" \in LockFree!Labels
      /\ Beyond \subseteq LockFree!InsideLabels
  BY DEF LockFree!InsideLabels, LockFree!Labels, Beyond
<1>3. /\ l_side' = l_side /\ l_pc'[t] = "access"
      /\ \A u \in Threads \ {t} :
            /\ l_pc'[u] = l_pc[u]
            /\ l_pc[u] \in LockFree!InsideLabels => l_side[u] # s
      /\ ~Accessing(s) /\ Accessing(s)' /\ s' = s
  <2>1. l_pc[t] \in LockFree!InsideLabels /\ l_pc[t] # "access"
    BY <1>1, <1>2
  <2>2. /\ \A u \in Threads \ {t} :
            /\ l_pc'[u] = l_pc[u]
            /\ l_pc[u] \in LockFree!InsideLabels => l_side[u] # s
        /\ ~Accessing(s) /\ Accessing(s)'
    BY <1>0, <1>1, <1>2, <2>1, OnlyOne DEF StepsAlone
  <2> QED
    BY <1>0, <1>1, <2>2 DEF LockFree!TypeOK, Steps
<1>4. l_index[s] \in 0 .. Capacity - 1
  <2>1. \A u \in Threads : l_side[u] = s => l_pc[u] \notin Beyond
    BY <1>1, <1>2, <1>3 DEF Beyond
  <2> QED
    BY <1>0, <2>1, Ends
<1> HIDE DEF s
<1>5. /\ l_index'[s] = l_index[s] + 1 /\ l_claimed'[t] = l_index[s]
      /\ \A r \in LockFree!Sides \ {s} : l_index'[r] = l_index[r]
      /\ \A u \in Threads \ {t} : l_claimed'[u] = l_claimed[u]
  BY <1>0, <1>1
<1>6. Front(s)' = Front(s)
  <2>1. Front(s)' = l_index[s] + 1 - 1 /\ Front(s) = l_index[s]
    BY <1>3, <1>4, <1>5 DEF Front, Around
  <2> QED
    BY <1>4, <2>1
<1>7. Indexed'
  <2>1. l_side'[t] = s /\ l_pc'[t] \in Beyond /\ l_pc'[t] \notin {"reload", "swap"}
    BY <1>3 DEF s, Beyond
  <2>2. ASSUME NEW u \in Threads \ {t}, l_pc'[u] \in Beyond
        PROVE  l_side[u] \in LockFree!Sides \ {s}
    BY <1>0, <1>2, <1>3, <2>2 DEF LockFree!TypeOK
  <2>3. ASSUME NEW u \in Threads \ {t}
        PROVE  /\ l_pc'[u] = "access" => l_claimed'[u] = l_index'[l_side'[u]] - 1
               /\ l_pc'[u] \in Beyond => l_index'[l_side'[u]] # 0
               /\ l_pc'[u] \in {"reload", "swap"} => l_expected'[u] = l_index'[l_side'[u]]
               /\ l_pc'[u] = "swap" => l_desired'[u] = Around(l_index'[l_side'[u]])
    BY <1>0, <1>1, <1>3, <1>5, <2>2 DEF Indexed, Beyond
  <2>4. /\ l_claimed'[t] = l_index'[l_side'[t]] - 1 /\ l_index'[l_side'[t]] # 0
        /\ l_pc'[t] # "swap"
    BY <1>3, <1>4, <1>5, <2>1
  <2>5. ASSUME NEW r \in LockFree!Sides
        PROVE  /\ l_index'[r] \in 0 .. Capacity
               /\ l_index'[r] = Capacity =>
                    \E u \in Threads : l_side'[u] = r /\ l_pc'[u] \in Beyond
    <3>1. CASE r = s
      BY <1>4, <1>5, <2>1, <3>1
    <3>2. CASE r # s
      <4>1. /\ l_index'[r] = l_index[r] /\ l_index[r] \in 0 .. Capacity
            /\ l_index[r] = Capacity =>
                 \E u \in Threads : l_side[u] = r /\ l_pc[u] \in Beyond
        BY <1>0, <1>5, <3>2 DEF Indexed
      <4> QED
        BY <1>1, <1>3, <4>1 DEF Beyond
    <3> QED
      BY <3>1, <3>2
  <2> QED
    BY <2>1, <2>3, <2>4, <2>5 DEF Indexed
<1> QED
  BY <1>1, <1>2, <1>5, <1>6, <1>7, MovesKept DEF s

\* A call looks at its index, twice, and brings it back into the ring; as it is
\* the only one, it finds the index as it left it, and does not fail.
LEMMA LoadsKept ==
    ASSUME LockFreeInv, Turns, NEW t \in Threads,
           LockFree!LoadExpected(t) \/ LockFree!LoadDesired(t)
    PROVE  Keeps
<1> DEFINE s == l_side[t]
<1>0. /\ LockFree!TypeOK /\ OneInside /\ Indexed /\ s \in LockFree!Sides
      /\ l_expected \in [Threads -> Nat] /\ l_desired \in [Threads -> LockFree!Slots]
  BY DEF LockFreeInv, LockFree!TypeOK, Turns
<1>1. PICK to \in LockFree!Labels :
        /\ l_pc[t] \in {"load", "reload"} /\ to \in {"reload", "swap"} /\ Steps(t, to)
        /\ UNCHANGED <<l_index, l_data, l_count, l_claimed>>
        /\ l_pc[t] = "load" => /\ to = "reload" /\ UNCHANGED l_desired
                               /\ l_expected' = [l_expected EXCEPT ![t] = l_index[s]]
        /\ l_pc[t] = "reload" => /\ to = "swap" /\ UNCHANGED l_expected
                                 /\ l_desired' = [l_desired EXCEPT
                                                    ![t] = l_index[s] % Capacity]
  BY DEF LockFree!LoadExpected, LockFree!LoadDesired, LockFree!Goto, Steps,
         LockFree!Labels, LockFree!ring
<1>2. l_pc[t] \in LockFree!InsideLabels /\ l_pc[t] \in Beyond
  BY <1>1 DEF LockFree!InsideLabels, LockFree!Labels, Beyond
<1>3. /\ l_side' = l_side /\ l_pc'[t] = to
      /\ \A u \in Threads \ {t} : l_pc'[u] = l_pc[u]
      /\ ~Accessing(s) /\ ~Accessing(s)'
  <2>1. StepsAlone(t, to)
    BY <1>0, <1>1, <1>2, OnlyOne
  <2> QED
    BY <1>1, <2>1 DEF StepsAlone
<1>4. l_index[s] % Capacity = Around(l_index[s]) /\ l_index[s] # 0
  BY <1>0, <1>2, AroundTheRing DEF Indexed, Around
<1>5. /\ l_pc[t] = "load" => l_expected'[t] = l_index[s]
      /\ l_pc[t] = "reload" => /\ l_expected'[t] = l_index[s]
                               /\ l_desired'[t] = Around(l_index[s])
      /\ \A u \in Threads \ {t} : /\ l_expected'[u] = l_expected[u]
                                  /\ l_desired'[u] = l_desired[u]
  BY <1>0, <1>1, <1>4 DEF Indexed
<1>6. Indexed'
  BY <1>0, <1>1, <1>2, <1>3, <1>4, <1>5 DEF Indexed, Beyond
<1>7. Front(s)' = Front(s)
  BY <1>1, <1>3 DEF Front
<1> QED
  BY <1>1, <1>2, <1>6, <1>7, MovesKept

\* The compare-and-swap finds what it expects and brings the index back.
LEMMA SwapKept ==
    ASSUME LockFreeInv, Turns, NEW t \in Threads,
           LockFree!Swap(t) \/ LockFree!SwapFails(t)
    PROVE  Keeps
<1> DEFINE s == l_side[t]
<1>0. /\ LockFree!TypeOK /\ OneInside /\ Indexed /\ s \in LockFree!Sides
      /\ l_index \in [LockFree!Sides -> Nat] /\ l_expected \in [Threads -> Nat]
      /\ l_desired \in [Threads -> LockFree!Slots]
  BY DEF LockFreeInv, LockFree!TypeOK, Turns
<1>1. l_pc[t] = "swap"
  BY DEF LockFree!Swap, LockFree!SwapFails, LockFree!Goto
<1>2. l_expected[t] = l_index[s] /\ l_desired[t] = Around(l_index[s])
  BY <1>0, <1>1 DEF Indexed
<1>3. /\ Steps(t, "post")
      /\ l_index' = [l_index EXCEPT ![s] = Around(l_index[s])]
      /\ l_expected' = [l_expected EXCEPT ![t] = 0]
      /\ l_desired' = [l_desired EXCEPT ![t] = 0]
      /\ UNCHANGED <<l_data, l_count, l_claimed>>
  BY <1>2 DEF LockFree!Swap, LockFree!SwapFails, LockFree!Goto, Steps
<1>4. /\ "swap" \in LockFree!InsideLabels /\ "post" \in LockFree!Labels
      /\ Beyond \subseteq LockFree!InsideLabels
  BY DEF LockFree!InsideLabels, LockFree!Labels, Beyond
<1>5. /\ l_side' = l_side /\ l_pc'[t] = "post"
      /\ \A u \in Threads \ {t} :
            /\ l_pc'[u] = l_pc[u]
            /\ l_pc[u] \in LockFree!InsideLabels => l_side[u] # s
      /\ ~Accessing(s) /\ ~Accessing(s)' /\ s' = s
  <2>1. StepsAlone(t, "post")
    BY <1>0, <1>1, <1>3, <1>4, OnlyOne
  <2> QED
    BY <1>1, <2>1 DEF StepsAlone
<1>6. l_index[s] \in 0 .. Capacity
  BY <1>0 DEF Indexed
<1> HIDE DEF s
<1>7. /\ l_index'[s] = Around(l_index[s])
      /\ \A r \in LockFree!Sides \ {s} : l_index'[r] = l_index[r]
      /\ \A u \in Threads \ {t} : /\ l_expected'[u] = l_expected[u]
                                  /\ l_desired'[u] = l_desired[u]
  BY <1>0, <1>3
<1>8. Around(l_index[s]) \in 0 .. Capacity - 1
      /\ Around(Around(l_index[s])) = Around(l_index[s])
  BY <1>6 DEF Around
<1>9. Front(s)' = Front(s)
  BY <1>5, <1>7, <1>8 DEF Front
<1>10. Indexed'
  <2>1. l_pc'[t] \notin Beyond
    BY <1>5 DEF Beyond
  <2>2. ASSUME NEW u \in Threads \ {t}, l_pc'[u] \in Beyond
        PROVE  l_side[u] \in LockFree!Sides \ {s}
    BY <1>0, <1>4, <1>5, <2>2 DEF LockFree!TypeOK
  <2>3. ASSUME NEW u \in Threads
        PROVE  /\ l_pc'[u] = "access" => l_claimed'[u] = l_index'[l_side'[u]] - 1
               /\ l_pc'[u] \in Beyond => l_index'[l_side'[u]] # 0
               /\ l_pc'[u] \in {"reload", "swap"} => l_expected'[u] = l_index'[l_side'[u]]
               /\ l_pc'[u] = "swap" => l_desired'[u] = Around(l_index'[l_side'[u]])
    BY <1>0, <1>3, <1>5, <1>7, <2>1, <2>2 DEF Indexed, Beyond
  <2>4. ASSUME NEW r \in LockFree!Sides
        PROVE  /\ l_index'[r] \in 0 .. Capacity
               /\ l_index'[r] = Capacity =>
                    \E u \in Threads : l_side'[u] = r /\ l_pc'[u] \in Beyond
    <3>1. CASE r = s
      BY <1>7, <1>8, <3>1
    <3>2. CASE r # s
      <4>1. /\ l_index'[r] = l_index[r] /\ l_index[r] \in 0 .. Capacity
            /\ l_index[r] = Capacity =>
                 \E u \in Threads : l_side[u] = r /\ l_pc[u] \in Beyond
        BY <1>0, <1>7, <3>2 DEF Indexed
      <4>2. l_side[t] = s
        BY DEF s
      <4> QED
        BY <1>5, <3>2, <4>1, <4>2
    <3> QED
      BY <3>1, <3>2
  <2> QED
    BY <2>3, <2>4 DEF Indexed
<1> QED
  BY <1>1, <1>3, <1>4, <1>7, <1>9, <1>10, MovesKept DEF s

\* A call counts what it did to the slots.
LEMMA CountKept ==
    ASSUME LockFreeInv, Turns, NEW t \in Threads, LockFree!Count(t)
    PROVE  Keeps
<1> DEFINE s == l_side[t]
<1>0. /\ LockFree!TypeOK /\ OneInside /\ Indexed /\ LockFreeRing
      /\ s \in LockFree!Sides /\ l_claimed \in [Threads -> Nat] /\ l_count \in Nat
  BY DEF LockFreeInv, LockFree!TypeOK, Turns
<1>1. /\ l_pc[t] = "count" /\ Steps(t, "load")
      /\ l_count' = IF s = "push" THEN l_count + 1 ELSE l_count - 1
      /\ l_claimed' = [l_claimed EXCEPT ![t] = 0]
      /\ UNCHANGED <<l_index, l_data, l_expected, l_desired>>
  BY DEF LockFree!Count, LockFree!Goto, Steps
<1>2. "count" \in LockFree!InsideLabels /\ "load" \in LockFree!Labels
  BY DEF LockFree!InsideLabels, LockFree!Labels
<1>3. /\ OneInside' /\ l_side' = l_side /\ l_pc'[t] = "load"
      /\ \A u \in Threads \ {t} : l_pc'[u] = l_pc[u]
      /\ ~Accessing(s) /\ ~Accessing(s)'
      /\ Uncounted(s) = 1 /\ Uncounted(s)' = 0
      /\ \A r \in LockFree!Sides \ {s} : /\ Accessing(r)' <=> Accessing(r)
                                         /\ Uncounted(r)' = Uncounted(r)
  <2>1. StepsAlone(t, "load")
    BY <1>0, <1>1, <1>2, OnlyOne
  <2> QED
    BY <1>1, <2>1 DEF StepsAlone
<1>4. Indexed'
  BY <1>0, <1>1, <1>3 DEF Indexed, Beyond
<1>5. \A r \in LockFree!Sides : Front(r)' = Front(r)
  BY <1>1, <1>3 DEF Front
<1>6. "push" \in LockFree!Sides /\ "pop" \in LockFree!Sides
      /\ (s = "push" \/ s = "pop") /\ "push" # "pop"
  BY <1>0 DEF LockFree!Sides
<1>7. Alive' = Alive
  BY <1>1 DEF Alive
<1>8. Cardinality(Alive) = l_count' + Uncounted("push")' - Uncounted("pop")'
  <2>1. Cardinality(Alive) = l_count + Uncounted("push") - Uncounted("pop")
    BY <1>0 DEF LockFreeRing
  <2>2. \A r \in LockFree!Sides : Uncounted(r) \in {0, 1}
    BY DEF Uncounted
  <2>3. CASE s = "push"
    <3>1. /\ l_count' = l_count + 1 /\ Uncounted("push") = 1 /\ Uncounted("push")' = 0
          /\ Uncounted("pop")' = Uncounted("pop") /\ Uncounted("pop") \in {0, 1}
      BY <1>1, <1>3, <1>6, <2>2, <2>3
    <3> QED
      BY <1>0, <2>1, <3>1
  <2>4. CASE s = "pop"
    <3>1. /\ l_count' = l_count - 1 /\ Uncounted("pop") = 1 /\ Uncounted("pop")' = 0
          /\ Uncounted("push")' = Uncounted("push") /\ Uncounted("push") \in {0, 1}
      BY <1>1, <1>3, <1>6, <2>2, <2>4
    <3> QED
      BY <1>0, <2>1, <3>1
  <2> QED
    BY <1>6, <2>3, <2>4
<1>9. LockFreeRing'
  BY <1>0, <1>1, <1>5, <1>6, <1>7, <1>8 DEF LockFreeRing
<1> QED
  BY <1>1, <1>3, <1>4, <1>5, <1>6, <1>9 DEF Keeps, Turns

\* A call begins, takes its turn, or ends.
LEMMA OutsideKept ==
    ASSUME LockFreeInv, Turns, l_serialised, NEW t \in Threads,
           NEW s \in LockFree!Sides,
           LockFree!Arrive(t, s) \/ LockFree!TakeToken(t, s) \/ LockFree!Post(t)
    PROVE  Keeps
<1>0. /\ OneInside /\ Indexed /\ LockFreeRing
      /\ l_pc \in [Threads -> LockFree!Labels] /\ l_side \in [Threads -> LockFree!Sides]
  BY DEF LockFreeInv, LockFree!TypeOK, Turns
<1>1. StaysOut(t)
  <2>1. CASE LockFree!Arrive(t, s)
    BY <1>0, <2>1 DEF LockFree!Arrive, LockFree!Goto, LockFree!ring, StaysOut, Beyond
  <2>2. CASE LockFree!TakeToken(t, s)
    BY <1>0, <2>2 DEF LockFree!TakeToken, LockFree!Goto, LockFree!ring, StaysOut, Beyond
  <2>3. CASE LockFree!Post(t)
    BY <1>0, <2>3 DEF LockFree!Post, LockFree!Goto, LockFree!ring, StaysOut, Beyond
  <2> QED
    BY <2>1, <2>2, <2>3
<1>2. OneInside'
  <2>1. CASE LockFree!Arrive(t, s) \/ LockFree!Post(t)
    <3>1. l_pc'[t] \notin LockFree!InsideLabels
      BY <1>0, <2>1 DEF LockFree!Arrive, LockFree!Post, LockFree!Goto,
                        LockFree!InsideLabels
    <3> QED
      BY <1>0, <1>1, <3>1 DEF StaysOut, OneInside
  <2>2. CASE LockFree!TakeToken(t, s)
    <3>1. l_side'[t] = s /\ LockFree!Inside(s) = {}
      BY <1>0, <2>2 DEF LockFree!TakeToken
    <3>2. \A u \in Threads : l_pc[u] \in LockFree!InsideLabels => l_side[u] # s
      BY <3>1 DEF LockFree!Inside
    <3> QED
      BY <1>0, <1>1, <3>1, <3>2 DEF StaysOut, OneInside
  <2> QED
    BY <2>1, <2>2
<1>3. Indexed' /\ LockFreeRing' /\ Front("pop")' = Front("pop")
  BY <1>0, <1>1, TurnsQuiet
<1> QED
  BY <1>1, <1>2, <1>3 DEF Keeps, Turns, StaysOut

\* No step changes what the callers do.
LEMMA SerialisedStays ==
    [LockFree!Next]_(LockFree!vars) => l_serialised' = l_serialised
BY DEF LockFree!Next, LockFree!Step, LockFree!vars, LockFree!locals,
       LockFree!Arrive, LockFree!TakeToken, LockFree!Claim, LockFree!Construct,
       LockFree!Destroy, LockFree!Count, LockFree!LoadExpected,
       LockFree!LoadDesired, LockFree!Swap, LockFree!SwapFails, LockFree!Post

\* A push constructs its element, or a pop destroys one.
Works(t) ==
    LockFree!Destroy(t) \/ \E item \in Items : LockFree!Construct(t, item)

\* Every other step leaves the elements as they are.
LEMMA RestKept ==
    ASSUME LockFreeInv, Turns, l_serialised, [LockFree!Next]_(LockFree!vars),
           \A t \in Threads : ~Works(t)
    PROVE  Keeps
<1>1. CASE UNCHANGED LockFree!vars
  <2>1. UNCHANGED <<l_index, l_data, l_count, l_pc, l_side, l_claimed, l_expected,
                    l_desired>>
    BY <1>1 DEF LockFree!vars
  <2>2. OneInside' /\ Indexed'
    BY <2>1 DEF Turns, OneInside, Indexed
  <2>3. LockFreeRing' /\ Front("pop")' = Front("pop")
    BY <2>1 DEF Turns, LockFreeRing, Alive, Front, Accessing, Uncounted
  <2> QED
    BY <2>1, <2>2, <2>3 DEF Keeps, Turns
<1>2. CASE LockFree!Next
  <2>1. PICK t \in Threads :
          LockFree!Step(t) \/ \E s \in LockFree!Sides :
                                LockFree!Arrive(t, s) \/ LockFree!TakeToken(t, s)
    BY <1>2 DEF LockFree!Next
  <2>2. CASE \/ LockFree!Post(t)
             \/ \E s \in LockFree!Sides :
                    LockFree!Arrive(t, s) \/ LockFree!TakeToken(t, s)
    <3>1. "push" \in LockFree!Sides
      BY DEF LockFree!Sides
    <3> QED
      BY <2>2, <3>1, OutsideKept
  <2> QED
    BY <2>1, <2>2, ClaimKept, CountKept, LoadsKept, SwapKept DEF LockFree!Step, Works
<1> QED
  BY <1>1, <1>2

\* The ring stays sound while callers take turns.
LEMMA TurnsKept ==
    LockFreeInv /\ TurnsInv /\ [LockFree!Next]_(LockFree!vars) => TurnsInv'
<1> SUFFICES ASSUME LockFreeInv, Turns, l_serialised, [LockFree!Next]_(LockFree!vars)
             PROVE  Turns'
  BY SerialisedStays DEF TurnsInv
<1>1. CASE \A t \in Threads : ~Works(t)
  BY <1>1, RestKept DEF Keeps
<1>2. ASSUME NEW t \in Threads, Works(t) PROVE Turns'
  BY <1>2, ConstructKept, DestroyKept DEF Works
<1> QED
  BY <1>1, <1>2

\* A new queue has no living slot, and both ends work on the first.
LEMMA TurnsStart == LockFree!Init => Turns
<1> SUFFICES ASSUME LockFree!Init PROVE Turns
  OBVIOUS
<1>1. /\ \A s \in LockFree!Sides : l_index[s] = 0
      /\ \A x \in LockFree!Slots : l_data[x] = NoItem
      /\ l_count = 0 /\ \A t \in Threads : l_pc[t] = "idle"
      /\ "push" \in LockFree!Sides /\ "pop" \in LockFree!Sides
  BY DEF LockFree!Init, LockFree!Sides
<1>2. OneInside
  BY <1>1 DEF OneInside, LockFree!InsideLabels
<1>3. Indexed
  BY <1>1 DEF Indexed, Beyond
<1>4. Alive = {}
  BY <1>1 DEF Alive
<1>5. Cardinality(Alive) = 0
  BY <1>4, FS_EmptySet
<1>6. \A s \in LockFree!Sides : Front(s) = 0 /\ Uncounted(s) = 0
  BY <1>1 DEF Front, Accessing, Uncounted, Around
<1>7. Place(0, 0) = 0 /\ \A n \in 0 .. Capacity - 1 : Place(0, n) \in LockFree!Slots
  <2>1. 0 \in 0 .. Capacity - 1
    OBVIOUS
  <2>2. /\ Place(0, 0) = 0
        /\ \A n \in 0 .. Capacity : Place(0, n) \in 0 .. Capacity - 1
    BY <2>1, RingPlaces
  <2> QED
    BY <2>2 DEF LockFree!Slots
<1>8. LockFreeRing
  BY <1>1, <1>5, <1>6, <1>7 DEF LockFreeRing
<1> QED
  BY <1>2, <1>3, <1>8 DEF Turns

\* The elements, oldest first, as LockFree!Abstract sees them.
Elements == [n \in 1 .. LockFree!Living |->
                l_data[(LockFree!First + n - 1) % Capacity]]
ElementsSound ==
    /\ Elements \in Seq(Items \cup {NoItem}) /\ Len(Elements) = Cardinality(Alive)
    /\ \A n \in 1 .. Cardinality(Alive) :
            Elements[n] = l_data[Place(Front("pop"), n - 1)]

\* They are a sequence, place by place what the ring holds from where pops work.
LEMMA ElementsAreSeq == LockFreeInv /\ Turns => ElementsSound
<1> SUFFICES ASSUME LockFreeInv, Turns PROVE ElementsSound
  OBVIOUS
<1> DEFINE F == Front("pop")
           k == Cardinality(Alive)
<1>0. /\ Indexed /\ LockFreeRing /\ "pop" \in LockFree!Sides
      /\ l_data \in [LockFree!Slots -> Items \cup {NoItem}]
  BY DEF LockFreeInv, LockFree!TypeOK, LockFree!Sides, Turns
<1>1. l_index["pop"] \in 0 .. Capacity /\ F \in 0 .. Capacity - 1
  BY <1>0, Ends
<1>2. LockFree!Living = k
  BY SameCardinality DEF LockFree!Living, Alive
<1>3. k \in 0 .. Capacity
  <2>1. IsFiniteSet(LockFree!Slots) /\ Cardinality(LockFree!Slots) = Capacity
    BY FS_Interval DEF LockFree!Slots
  <2>2. Alive \subseteq LockFree!Slots
    BY DEF Alive
  <2> QED
    BY <2>1, <2>2, FS_Subset, FS_CardinalityType
<1>4. \/ LockFree!First = F
      \/ LockFree!First = l_index["pop"] /\ F = Around(l_index["pop"])
  <2>1. CASE \E t \in LockFree!Inside("pop") : l_pc[t] = "access"
    <3> DEFINE u == CHOOSE t \in LockFree!Inside("pop") : l_pc[t] = "access"
    <3>1. u \in LockFree!Inside("pop") /\ l_pc[u] = "access"
      BY <2>1
    <3>2. LockFree!First = l_claimed[u]
      BY <2>1 DEF LockFree!First
    <3> HIDE DEF u
    <3>3. u \in Threads /\ l_side[u] = "pop"
      BY <3>1 DEF LockFree!Inside
    <3>4. l_claimed[u] = l_index["pop"] - 1
      BY <1>0, <3>1, <3>3 DEF Indexed
    <3>5. Accessing("pop")
      BY <3>1, <3>3 DEF Accessing
    <3>6. F = l_index["pop"] - 1
      BY <3>5 DEF Front
    <3> QED
      BY <3>2, <3>4, <3>6
  <2>2. CASE ~\E t \in LockFree!Inside("pop") : l_pc[t] = "access"
    <3>1. LockFree!First = l_index["pop"]
      BY <2>2 DEF LockFree!First
    <3>2. ~Accessing("pop")
      BY <2>2 DEF Accessing, LockFree!Inside, LockFree!InsideLabels, LockFree!Labels
    <3> QED
      BY <3>1, <3>2 DEF Front
  <2> QED
    BY <2>1, <2>2
<1> HIDE DEF F, k
<1>5. ASSUME NEW n \in 1 .. k
      PROVE  /\ (LockFree!First + n - 1) % Capacity = Place(F, n - 1)
             /\ Place(F, n - 1) \in LockFree!Slots
  <2>1. n - 1 \in 0 .. Capacity - 1 /\ n - 1 \in 0 .. Capacity /\ n \in Int
    BY <1>3
  <2>2. CASE LockFree!First = F
    <3>1. F + n - 1 = F + (n - 1)
      BY <1>1, <2>1
    <3> QED
      BY <1>1, <2>1, <2>2, <3>1, RingPlaces DEF Place, LockFree!Slots
  <2>3. CASE LockFree!First # F
    <3>1. LockFree!First = Capacity /\ F = 0
      BY <1>1, <1>4, <2>3 DEF Around
    <3>2. /\ Capacity + n - 1 \in 0 .. 2 * Capacity - 1
          /\ Capacity + n - 1 >= Capacity /\ (Capacity + n - 1) - Capacity = n - 1
          /\ 0 + (n - 1) = n - 1 /\ n - 1 \in 0 .. 2 * Capacity - 1 /\ n - 1 < Capacity
      BY <2>1
    <3>3. (Capacity + n - 1) % Capacity = n - 1 /\ (n - 1) % Capacity = n - 1
      BY <3>2, AroundTheRing
    <3> QED
      BY <2>1, <3>1, <3>2, <3>3 DEF Place, LockFree!Slots
  <2> QED
    BY <2>2, <2>3
<1>6. Elements = [n \in 1 .. k |-> l_data[(LockFree!First + n - 1) % Capacity]]
  BY <1>2 DEF Elements
<1>7. \A n \in 1 .. k : Elements[n] = l_data[Place(F, n - 1)]
  BY <1>5, <1>6
<1>8. Elements \in [1 .. k -> Items \cup {NoItem}]
  BY <1>0, <1>5, <1>6
<1>9. k \in Nat
  BY <1>3
<1>10. Elements \in Seq(Items \cup {NoItem})
  BY <1>8, <1>9, SeqDef
<1>11. Len(Elements) = k
  BY <1>8, <1>9, <1>10, LenProperties
<1> QED
  BY <1>7, <1>10, <1>11 DEF ElementsSound, F, k

\* The same in the next state.
LEMMA NextElementsAreSeq == (LockFreeInv /\ Turns)' => ElementsSound'
BY ElementsAreSeq, PTL

\* What keeps the slots and the end of the pops keeps the elements.
LEMMA ElementsKept ==
    ASSUME LockFreeInv, LockFreeInv', Turns, Keeps
    PROVE  Elements' = Elements
<1>1. ElementsSound /\ ElementsSound'
  BY ElementsAreSeq, NextElementsAreSeq DEF Keeps
<1>2. Alive' = Alive
  BY DEF Alive, Keeps
<1>3. \A n \in 1 .. Cardinality(Alive) : Elements'[n] = Elements[n]
  BY <1>1, <1>2 DEF ElementsSound, Keeps
<1> QED
  BY <1>1, <1>2, <1>3, SeqEqual DEF ElementsSound

\* The push that constructs puts its item behind them.
LEMMA ElementsGrow ==
    ASSUME LockFreeInv, LockFreeInv', Turns, NEW t \in Threads, NEW item \in Items,
           LockFree!Construct(t, item)
    PROVE  Elements' = Append(Elements, item) /\ Len(Elements) < Capacity
<1> DEFINE F == Front("pop")
           k == Cardinality(Alive)
<1>1. /\ Turns' /\ F' = F /\ F \in 0 .. Capacity - 1
      /\ k \in 0 .. Capacity - 1 /\ k' = k + 1
      /\ l_data' = [l_data EXCEPT ![Place(F, k)] = item]
  BY ConstructKept
<1>2. ElementsSound /\ ElementsSound'
  BY <1>1, ElementsAreSeq, NextElementsAreSeq
<1>3. l_data \in [LockFree!Slots -> Items \cup {NoItem}]
  BY DEF LockFreeInv, LockFree!TypeOK
<1>4. /\ Elements \in Seq(Items \cup {NoItem}) /\ Len(Elements) = k
      /\ \A n \in 1 .. k : Elements[n] = l_data[Place(F, n - 1)]
      /\ Elements' \in Seq(Items \cup {NoItem}) /\ Len(Elements') = k'
      /\ \A n \in 1 .. k' : Elements'[n] = l_data'[Place(F', n - 1)]
  BY <1>2 DEF ElementsSound
<1>5. /\ \A n \in 0 .. Capacity : Place(F, n) \in LockFree!Slots
      /\ \A n, m \in 0 .. Capacity - 1 : Place(F, n) = Place(F, m) => n = m
  BY <1>1, RingPlaces DEF LockFree!Slots
<1> HIDE DEF F, k
<1>6. /\ Append(Elements, item) \in Seq(Items \cup {NoItem})
      /\ Len(Append(Elements, item)) = k + 1
      /\ \A n \in 1 .. k + 1 : Append(Elements, item)[n]
            = IF n = k + 1 THEN item ELSE Elements[n]
  BY <1>4, AppendProperties
<1>7. ASSUME NEW n \in 1 .. k + 1
      PROVE  Elements'[n] = Append(Elements, item)[n]
  <2>1. /\ n - 1 \in 0 .. Capacity - 1 /\ n - 1 \in 0 .. Capacity
        /\ k \in 0 .. Capacity - 1 /\ k \in 0 .. Capacity
    BY <1>1
  <2>2. Elements'[n] = l_data'[Place(F, n - 1)] /\ Place(F, n - 1) \in LockFree!Slots
    BY <1>1, <1>4, <1>5, <2>1
  <2>3. CASE n = k + 1
    <3>1. n - 1 = k
      BY <1>1, <2>3
    <3>2. l_data'[Place(F, k)] = item
      BY <1>1, <1>3, <1>5, <2>1
    <3> QED
      BY <1>6, <2>2, <2>3, <3>1, <3>2
  <2>4. CASE n # k + 1
    <3>1. n \in 1 .. k /\ n - 1 # k
      BY <1>1, <2>4
    <3>2. Place(F, n - 1) # Place(F, k)
      BY <1>5, <2>1, <3>1
    <3>3. l_data'[Place(F, n - 1)] = l_data[Place(F, n - 1)]
      BY <1>1, <1>3, <2>2, <3>2
    <3> QED
      BY <1>4, <1>6, <2>2, <2>4, <3>1, <3>3
  <2> QED
    BY <2>3, <2>4
<1>8. Elements' = Append(Elements, item)
  BY <1>1, <1>4, <1>6, <1>7, SeqEqual
<1> QED
  BY <1>1, <1>4, <1>8

\* The pop that destroys takes the oldest.
LEMMA ElementsShrink ==
    ASSUME LockFreeInv, LockFreeInv', Turns, NEW t \in Threads, LockFree!Destroy(t)
    PROVE  Elements # <<>> /\ Elements' = Tail(Elements)
<1> DEFINE F == Front("pop")
           k == Cardinality(Alive)
<1>1. /\ Turns' /\ F \in 0 .. Capacity - 1 /\ F' = Place(F, 1)
      /\ k \in 1 .. Capacity /\ k' = k - 1
      /\ l_data' = [l_data EXCEPT ![F] = NoItem]
  BY DestroyKept
<1>2. ElementsSound /\ ElementsSound'
  BY <1>1, ElementsAreSeq, NextElementsAreSeq
<1>3. l_data \in [LockFree!Slots -> Items \cup {NoItem}]
  BY DEF LockFreeInv, LockFree!TypeOK
<1>4. /\ Elements \in Seq(Items \cup {NoItem}) /\ Len(Elements) = k
      /\ \A n \in 1 .. k : Elements[n] = l_data[Place(F, n - 1)]
      /\ Elements' \in Seq(Items \cup {NoItem}) /\ Len(Elements') = k'
      /\ \A n \in 1 .. k' : Elements'[n] = l_data'[Place(F', n - 1)]
  BY <1>2 DEF ElementsSound
<1> HIDE DEF F, k
<1>5. /\ \A n \in 0 .. Capacity : Place(F, n) \in LockFree!Slots
      /\ Place(F, 0) = F
      /\ \A n, m \in 0 .. Capacity - 1 : Place(F, n) = Place(F, m) => n = m
  BY <1>1, RingPlaces DEF LockFree!Slots
<1>6. \A n \in 0 .. Capacity - 1 :
        Place(Place(F, 1), n) = IF n = Capacity - 1 THEN F ELSE Place(F, n + 1)
  BY <1>1, RingPlaces
<1>7. Elements # <<>>
  BY <1>1, <1>4
<1>8. /\ Tail(Elements) \in Seq(Items \cup {NoItem})
      /\ Len(Tail(Elements)) = k - 1
      /\ \A n \in 1 .. k - 1 : Tail(Elements)[n] = Elements[n + 1]
  BY <1>4, <1>7, HeadTailProperties
<1>9. ASSUME NEW n \in 1 .. k - 1
      PROVE  Elements'[n] = Tail(Elements)[n]
  <2>1. /\ n - 1 \in 0 .. Capacity - 1 /\ n - 1 # Capacity - 1 /\ (n - 1) + 1 = n
        /\ n \in 0 .. Capacity - 1 /\ n \in 0 .. Capacity /\ n # 0
        /\ 0 \in 0 .. Capacity - 1 /\ n + 1 \in 1 .. k /\ (n + 1) - 1 = n
    BY <1>1
  <2>2. Elements'[n] = l_data'[Place(Place(F, 1), n - 1)]
    BY <1>1, <1>4
  <2>3. Place(Place(F, 1), n - 1) = Place(F, n)
    BY <1>6, <2>1
  <2>4. Place(F, n) # F /\ Place(F, n) \in LockFree!Slots
    BY <1>5, <2>1
  <2>5. l_data'[Place(F, n)] = l_data[Place(F, n)]
    BY <1>1, <1>3, <2>4
  <2>6. Elements[n + 1] = l_data[Place(F, n)]
    BY <1>4, <2>1
  <2> QED
    BY <1>8, <2>2, <2>3, <2>5, <2>6
<1>10. Elements' = Tail(Elements)
  BY <1>1, <1>4, <1>8, <1>9, SeqEqual
<1> QED
  BY <1>7, <1>10

\* The abstract state, and how the threads stand to it.
Queued == IF l_serialised THEN Elements ELSE <<>>
Before(s) == {t \in Threads : l_serialised /\ l_side[t] = s
                              /\ l_pc[t] \in {"wait", "claim", "access"}}

\* A step of lock_free_queue is one of Fifo or none while its callers take turns.
LEMMA LockFreeSteps ==
    LockFreeInv /\ LockFreeInv' /\ TurnsInv /\ [LockFree!Next]_(LockFree!vars)
        => [LockFree!Abstract!Next]_(LockFree!Abstract!vars)
<1> SUFFICES ASSUME LockFreeInv, LockFreeInv', TurnsInv,
                    [LockFree!Next]_(LockFree!vars)
             PROVE  LockFree!Abstract!Next \/ UNCHANGED LockFree!Abstract!vars
  OBVIOUS
<1>1. l_serialised' = l_serialised
  BY SerialisedStays
<1>2. CASE ~l_serialised
  BY <1>1, <1>2 DEF LockFree!Abstract!vars
<1>3. CASE l_serialised
  <2>0. Turns
    BY <1>3 DEF TurnsInv
  <2>1. l_pc \in [Threads -> LockFree!Labels] /\ l_side \in [Threads -> LockFree!Sides]
    BY DEF LockFreeInv, LockFree!TypeOK
  <2>2. ASSUME NEW t \in Threads, NEW item \in Items, LockFree!Construct(t, item)
        PROVE  LockFree!Abstract!Insert(t, item)
    <3>1. Before("push")' = Before("push") \ {t} /\ Before("pop")' = Before("pop")
      BY <1>1, <2>1, <2>2 DEF Before, LockFree!Construct, LockFree!Goto, LockFree!locals
    <3>2. Queued' = Append(Queued, item) /\ Len(Queued) < Capacity
      BY <1>1, <1>3, <2>0, <2>2, ElementsGrow DEF Queued
    <3> QED
      BY <3>1, <3>2 DEF LockFree!Abstract!Insert, Before, Queued, Elements
  <2>3. ASSUME NEW t \in Threads, LockFree!Destroy(t)
        PROVE  LockFree!Abstract!Remove(t)
    <3>1. Before("pop")' = Before("pop") \ {t} /\ Before("push")' = Before("push")
      BY <1>1, <2>1, <2>3 DEF Before, LockFree!Destroy, LockFree!Goto, LockFree!locals
    <3>2. Queued # <<>> /\ Queued' = Tail(Queued)
      BY <1>1, <1>3, <2>0, <2>3, ElementsShrink DEF Queued
    <3> QED
      BY <3>1, <3>2 DEF LockFree!Abstract!Remove, Before, Queued, Elements
  <2>4. CASE \A t \in Threads : ~Works(t)
    <3>1. Elements' = Elements
      BY <1>3, <2>0, <2>4, RestKept, ElementsKept
    <3>2. Queued' = Queued
      BY <1>1, <3>1 DEF Queued
    <3>3. ASSUME NEW t \in Threads, NEW s \in LockFree!Sides,
                 LockFree!Arrive(t, s) \/ LockFree!TakeToken(t, s)
          PROVE  LockFree!Abstract!StartPush(t) \/ LockFree!Abstract!StartPop(t)
      <4>1. /\ l_pc'[t] \in {"wait", "claim"} /\ l_side'[t] = s
            /\ l_pc[t] = "idle" \/ (l_side[t] = s /\ l_pc[t] = "wait")
            /\ \A u \in Threads \ {t} : l_pc'[u] = l_pc[u] /\ l_side'[u] = l_side[u]
        <5>1. CASE LockFree!Arrive(t, s)
          BY <2>1, <5>1 DEF LockFree!Arrive, LockFree!Goto
        <5>2. CASE LockFree!TakeToken(t, s)
          BY <2>1, <5>2 DEF LockFree!TakeToken, LockFree!Goto
        <5> QED
          BY <3>3, <5>1, <5>2
      <4>2. CASE s = "push"
        <5>1. /\ Before("push")' = Before("push") \cup {t}
              /\ Before("pop")' = Before("pop")
          BY <1>1, <1>3, <4>1, <4>2 DEF Before
        <5> QED
          BY <3>2, <5>1 DEF LockFree!Abstract!StartPush, Before, Queued, Elements
      <4>3. CASE s = "pop"
        <5>1. /\ Before("pop")' = Before("pop") \cup {t}
              /\ Before("push")' = Before("push")
          BY <1>1, <1>3, <4>1, <4>3 DEF Before
        <5> QED
          BY <3>2, <5>1 DEF LockFree!Abstract!StartPop, Before, Queued, Elements
      <4> QED
        BY <4>2, <4>3 DEF LockFree!Sides
    <3>4. ASSUME NEW t \in Threads, LockFree!Step(t)
          PROVE  UNCHANGED LockFree!Abstract!vars
      <4>1. /\ \A u \in Threads \ {t} : l_pc'[u] = l_pc[u] /\ l_side'[u] = l_side[u]
            /\ \/ l_side' = l_side /\ l_pc[t] = "claim" /\ l_pc'[t] = "access"
               \/ /\ l_pc[t] \notin {"wait", "claim", "access"}
                  /\ l_pc'[t] \notin {"wait", "claim", "access"}
        BY <2>1, <2>4, <3>4
           DEF LockFree!Step, Works, LockFree!Goto, LockFree!locals, LockFree!Claim,
               LockFree!Count, LockFree!LoadExpected, LockFree!LoadDesired,
               LockFree!Swap, LockFree!SwapFails, LockFree!Post
      <4>2. Before("push")' = Before("push") /\ Before("pop")' = Before("pop")
        BY <1>1, <4>1 DEF Before
      <4> QED
        BY <3>2, <4>2 DEF LockFree!Abstract!vars, Before, Queued, Elements
    <3>5. CASE UNCHANGED LockFree!vars
      <4>1. Before("push")' = Before("push") /\ Before("pop")' = Before("pop")
        BY <3>5 DEF LockFree!vars, Before
      <4> QED
        BY <3>2, <4>1 DEF LockFree!Abstract!vars, Before, Queued, Elements
    <3> QED
      BY <3>3, <3>4, <3>5 DEF LockFree!Next, LockFree!Abstract!Next
  <2>5. ASSUME NEW t \in Threads, Works(t)
        PROVE  LockFree!Abstract!Next
    BY <2>2, <2>3, <2>5 DEF Works, LockFree!Abstract!Next
  <2> QED
    BY <2>4, <2>5
<1> QED
  BY <1>2, <1>3

------------------------------------------------------------------------------
\* A queue begins empty with nobody asleep.
LEMMA SimpleStarts == Simple!Init => SimpleInv
<1> SUFFICES ASSUME Simple!Init PROVE SimpleInv
  OBVIOUS
<1>1. s_queue \in Seq(Items) /\ Len(s_queue) = 0 /\ s_sleepers = {}
  BY DEF Simple!Init
<1>2. /\ s_done \in BOOLEAN
      /\ s_pc \in [Threads -> {"idle", "popping", "notify_one", "notify_all"}]
  BY DEF Simple!Init
<1>3. Simple!TypeOK
  BY <1>1, <1>2 DEF Simple!TypeOK
<1>4. Simple!NoLostWakeup
  BY <1>1 DEF Simple!NoLostWakeup
<1> QED
  BY <1>3, <1>4 DEF SimpleInv

\* The composed system keeps the three invariants.
LEMMA QueuesHold == FairSpec => [](SimpleInv /\ BlockingInv /\ LockFreeInv)
<1>1. Init => SimpleInv /\ BlockingInv /\ LockFreeInv
  BY SimpleStarts, BlockingStarts, LockFreeStarts DEF Init
<1>2. SimpleInv /\ BlockingInv /\ LockFreeInv /\ [Next]_vars
        => SimpleInv' /\ BlockingInv' /\ LockFreeInv'
  BY EachSteps, SimpleKept, BlockingKept, LockFreeKept
<1> QED
  BY <1>1, <1>2, PTL DEF FairSpec

\* Types, a ring that the destructor of blocking_queue may trust in whatever
\* order pushes and pops took their tokens and entered their sections, and a
\* counter of lock_free_queue that never leaves 0 .. capacity, although it is
\* changed apart from the slots and under no lock.
THEOREM BooksBalance == FairSpec => []Consistent
<1>1. SimpleInv /\ BlockingInv /\ LockFreeInv => Consistent
  BY BlockingRingSound, LockFreeCount
     DEF Consistent, SimpleInv, BlockingInv, LockFreeInv
<1> QED
  BY <1>1, QueuesHold, PTL

\* push() notifies after it unlocked and pop() may be overtaken by try_pop():
\* no item of simple_blocking_queue is ever stranded beside sleepers nobody is
\* about to wake.
THEOREM ItemsReachSleepers == FairSpec => []NoLostWakeup
<1>1. SimpleInv => NoLostWakeup
  BY DEF SimpleInv, NoLostWakeup
<1> QED
  BY <1>1, QueuesHold, PTL

\* Every step of simple_blocking_queue is a step of Fifo or none.
THEOREM SimpleStepsImplementFifo ==
    FairSpec => /\ Simple!Abstract!Init
                /\ [][Simple!Abstract!Next]_(Simple!Abstract!vars)
<1>1. Init => Simple!Abstract!Init
  BY DEF Init, Simple!Init, Simple!Abstract!Init
<1>2. SimpleInv /\ [Next]_vars
        => [Simple!Abstract!Next]_(Simple!Abstract!vars)
  BY EachSteps, SimpleSteps
<1> QED
  BY <1>1, <1>2, QueuesHold, PTL DEF FairSpec

\* Every step of blocking_queue is a step of Fifo or none, whatever order the
\* threads enter their sections in: the ring behaves as one sequence.
THEOREM BlockingStepsImplementFifo ==
    FairSpec => /\ Blocking!Abstract!Init
                /\ [][Blocking!Abstract!Next]_(Blocking!Abstract!vars)
<1>1. Init => Blocking!Abstract!Init
  <2> SUFFICES ASSUME Init PROVE Blocking!Abstract!Init
    OBVIOUS
  <2>1. Content = <<>>
    BY BlockingStarts, ContentIsSeq, EmptySeq DEF ContentSound, Init, Blocking!Init
  <2> QED
    BY <2>1 DEF Init, Blocking!Init, Blocking!Abstract!Init, Content
<1>2. BlockingInv /\ BlockingInv' /\ [Next]_vars
        => [Blocking!Abstract!Next]_(Blocking!Abstract!vars)
  BY EachSteps, BlockingSteps
<1> QED
  BY <1>1, <1>2, QueuesHold, PTL DEF FairSpec

\* Every step of lock_free_queue is a step of Fifo or none while its callers let
\* one push and one pop at a time past their waits, however the steps of that
\* push and that pop interleave: what the class lacks is only the serialising.
THEOREM LockFreeStepsImplementFifo ==
    FairSpec => /\ LockFree!Abstract!Init
                /\ [][LockFree!Abstract!Next]_(LockFree!Abstract!vars)
<1>1. Init => LockFree!Abstract!Init /\ TurnsInv
  <2> SUFFICES ASSUME Init PROVE LockFree!Abstract!Init /\ TurnsInv
    OBVIOUS
  <2>1. LockFree!Init
    BY DEF Init
  <2>2. LockFreeInv /\ Turns
    BY <2>1, LockFreeStarts, TurnsStart
  <2>3. Alive = {}
    BY <2>1 DEF Alive, LockFree!Init
  <2>4. Elements = <<>>
    BY <2>2, <2>3, ElementsAreSeq, FS_EmptySet, EmptySeq DEF ElementsSound
  <2>5. Queued = <<>>
    BY <2>4 DEF Queued
  <2>6. Before("push") = {} /\ Before("pop") = {}
    BY <2>1 DEF Before, LockFree!Init
  <2> QED
    BY <2>2, <2>5, <2>6
       DEF TurnsInv, LockFree!Abstract!Init, Queued, Before, Elements
<1>2. /\ LockFreeInv /\ LockFreeInv' /\ TurnsInv /\ [Next]_vars
            => [LockFree!Abstract!Next]_(LockFree!Abstract!vars)
      /\ LockFreeInv /\ TurnsInv /\ [Next]_vars => TurnsInv'
  BY EachSteps, LockFreeSteps, TurnsKept
<1> QED
  BY <1>1, <1>2, QueuesHold, PTL DEF FairSpec
==============================================================================
