---------------------------- MODULE BarriersProofs ----------------------------
(***************************************************************************)
(* What is proved of barrier, flex_barrier and latch for any finite set of *)
(* threads, any bounds, any completion function and any count: the books   *)
(* of barrier balance, nobody passes any of the three before its time, and *)
(* a thread is left asleep at barrier only if it was lapped.               *)
(***************************************************************************)
EXTENDS MCBarriers, FiniteSetTheorems, TLAPS

USE ThreadsAssumption, MaxRoundsAssumption, FewerThreadsAssumption,
    ResultsAssumption, MaxLateAssumption, ExpectedAssumption

\* Each component takes its own steps or stays as it is.
LEMMA EachSteps ==
    ASSUME [AllNext]_<<component, b_vars, f_vars, l_vars>>
    PROVE  [Next]_vars /\ [Flex!Next]_(Flex!vars) /\ [Latch!Next]_(Latch!vars)
BY DEF AllNext, b_vars, f_vars, l_vars, vars, Flex!vars, Latch!vars

\* The cardinality of a set of threads, and how it changes with one of them.
LEMMA Counting ==
    ASSUME NEW S, NEW T \in SUBSET S, IsFiniteSet(S)
    PROVE  /\ IsFiniteSet(T)
           /\ Cardinality(T) \in Nat /\ Cardinality(S) \in Nat
           /\ Cardinality(T) <= Cardinality(S)
           /\ Cardinality(T) = 0 <=> T = {}
           /\ \A x \in S \ T : Cardinality(T \cup {x}) = Cardinality(T) + 1
           /\ \A x \in T : Cardinality(T \ {x}) = Cardinality(T) - 1
<1>1. IsFiniteSet(T)
  BY FS_Subset
<1> QED
  BY <1>1, FS_Subset, FS_CardinalityType, FS_EmptySet, FS_AddElement,
     FS_RemoveElement

\* The instances count as this module does.
LEMMA SameCardinality ==
    \A S : /\ Flex!Cardinality(S) = Cardinality(S)
          /\ Latch!Cardinality(S) = Cardinality(S)
BY DEF Flex!Cardinality, Latch!Cardinality, Cardinality

------------------------------------------------------------------------------
(* barrier                                                                 *)

\* The threads that wait in the present round, and those that still take part.
Waiters == {t \in Threads : pc[t] = "waiting" /\ arrived[t] = round}
Participants == {t \in Threads : pc[t] \notin {"dropped", "drop_notify_all"}}

\* The countdown is not over while anybody can still arrive: threads_ is the
\* number of those that have not dropped, and count_ is 0 only with threads_.
BarrierInv ==
    /\ TypeOK
    /\ \A t \in Threads : arrived[t] <= round
    /\ threads_ - count_ = Cardinality(Waiters)
    /\ threads_ = Cardinality(Participants)
    /\ count_ = 0 => threads_ = 0
    /\ StrandedOnlyIfLapped

\* A new barrier balances.
LEMMA BarrierStarts == Init => BarrierInv
<1> SUFFICES ASSUME Init PROVE BarrierInv
  OBVIOUS
<1>1. Waiters = {} /\ Participants = Threads
  BY DEF Init, Waiters, Participants
<1>2. Cardinality(Threads) \in Nat /\ Cardinality(Threads) # 0
  BY FS_CardinalityType, FS_EmptySet
<1>3. Cardinality(Waiters) = 0
  BY <1>1, FS_EmptySet
<1> QED
  BY <1>1, <1>2, <1>3
     DEF Init, BarrierInv, TypeOK, Labels, StrandedOnlyIfLapped

\* An arrival, a drop, a departure or a wakeup keeps the balance; each adds a
\* thread to the waiters of the round, takes one away when it has become one
\* of an earlier round, or touches neither.
LEMMA BarrierKept == BarrierInv /\ [Next]_vars => BarrierInv'
<1> USE DEF BarrierInv, TypeOK, Labels, Goto
<1> SUFFICES ASSUME BarrierInv, [Next]_vars PROVE BarrierInv'
  OBVIOUS
<1>0. /\ Waiters \in SUBSET Threads /\ Participants \in SUBSET Threads
      /\ Waiters' \in SUBSET Threads /\ Participants' \in SUBSET Threads
  BY DEF Waiters, Participants
<1>a. /\ Cardinality(Waiters) \in Nat /\ Cardinality(Participants) \in Nat
      /\ Cardinality(Threads) \in Nat
      /\ Cardinality(Waiters)' \in 0 .. Cardinality(Threads)
      /\ Cardinality(Participants)' \in 0 .. Cardinality(Threads)
  BY <1>0, Counting
<1>b. ASSUME NEW t \in Threads, pc[t] = "idle"
      PROVE  count_ >= 1 /\ threads_ >= 1
  <2>1. t \in Participants
    BY <1>b DEF Participants
  <2>2. Cardinality(Participants) # 0
    BY <1>0, <2>1, Counting
  <2> QED
    BY <1>a, <2>2
<1>c. ASSUME round' = round + 1, arrived' \in [Threads -> -1 .. MaxRounds],
             \A t \in Threads : arrived'[t] <= round
      PROVE  Cardinality(Waiters)' = 0
  <2>1. Waiters' = {}
    BY <1>c DEF Waiters
  <2> QED
    BY <2>1, FS_EmptySet
<1>1. ASSUME NEW t \in Threads, ArriveLast(t) PROVE BarrierInv'
  <2>1. threads_' = threads_ /\ count_' = threads_ /\ round' = round + 1
        /\ sleepers' = sleepers /\ pc[t] = "idle" /\ pc'[t] = "notify_all"
    BY <1>1 DEF ArriveLast
  <2>2. \A u \in Threads : arrived'[u] <= round
    BY <1>1 DEF ArriveLast
  <2>3. TypeOK'
    BY <1>1, <1>a, <1>b DEF ArriveLast
  <2>4. Cardinality(Waiters)' = 0
    BY <2>1, <2>2, <2>3, <1>c
  <2>5. Participants' = Participants
    BY <1>1 DEF ArriveLast, Participants
  <2>6. StrandedOnlyIfLapped'
    BY <2>1 DEF StrandedOnlyIfLapped
  <2> QED
    BY <1>a, <1>b, <2>1, <2>2, <2>3, <2>4, <2>5, <2>6
<1>2. ASSUME NEW t \in Threads, ArriveEarly(t) PROVE BarrierInv'
  <2>1. threads_' = threads_ /\ count_' = count_ - 1 /\ count_' >= 1
        /\ round' = round /\ pc[t] = "idle" /\ count_' # threads_
    BY <1>2, <1>a, <1>b DEF ArriveEarly
  <2>2. /\ pc' = [pc EXCEPT ![t] = "waiting"]
        /\ arrived' = [arrived EXCEPT ![t] = round]
        /\ sleepers' = sleepers \cup {t}
    BY <1>2, <2>1 DEF ArriveEarly, Block
  <2>3. TypeOK' /\ \A u \in Threads : arrived'[u] <= round'
    BY <1>a, <2>1, <2>2
  <2>4. Waiters' = Waiters \cup {t} /\ t \notin Waiters
    BY <2>1, <2>2 DEF Waiters
  <2>5. Cardinality(Waiters)' = Cardinality(Waiters) + 1
    BY <1>0, <2>4, Counting
  <2>6. Participants' = Participants
    BY <2>1, <2>2 DEF Participants
  <2>7. count_' < threads_'
    BY <1>a, <2>1
  <2> QED
    BY <1>a, <2>1, <2>3, <2>5, <2>6, <2>7 DEF StrandedOnlyIfLapped
<1>3. ASSUME NEW t \in Threads, Leave(t) PROVE BarrierInv'
  <2>1. Waiters = {}
    BY <1>0, <1>3, Counting DEF Leave
  <2>2. Waiters' = {} /\ Participants' = Participants
    BY <1>3, <2>1 DEF Leave, Waiters, Participants, Awake
  <2>3. TypeOK'
    BY <1>3 DEF Leave, Awake
  <2>4. StrandedOnlyIfLapped'
    BY <1>3 DEF Leave, Awake, StrandedOnlyIfLapped
  <2> QED
    BY <1>3, <2>1, <2>2, <2>3, <2>4 DEF Leave
<1>4. ASSUME NEW t \in Threads, SleepAgain(t) PROVE BarrierInv'
  <2>1. Waiters' = Waiters /\ Participants' = Participants
    BY <1>4 DEF SleepAgain, Waiters, Participants
  <2>2. TypeOK'
    BY <1>4 DEF SleepAgain, Awake, Block
  <2>3. count_' < threads_'
    BY <1>4, <1>a DEF SleepAgain
  <2> QED
    BY <1>4, <2>1, <2>2, <2>3 DEF SleepAgain, StrandedOnlyIfLapped
<1>5. ASSUME NEW t \in Threads, DropLast(t) PROVE BarrierInv'
  <2>1. threads_' = threads_ - 1 /\ count_' = threads_ - 1
        /\ round' = round + 1 /\ arrived' = arrived /\ sleepers' = sleepers
        /\ pc[t] = "idle" /\ pc' = [pc EXCEPT ![t] = "drop_notify_all"]
    BY <1>5 DEF DropLast
  <2>2. Participants' = Participants \ {t} /\ t \in Participants
    BY <2>1 DEF Participants
  <2>3. Cardinality(Participants)' = Cardinality(Participants) - 1
    BY <1>0, <2>2, Counting
  <2>4. TypeOK'
    BY <1>5, <1>a, <1>b DEF DropLast
  <2>5. Cardinality(Waiters)' = 0
    BY <2>1, <2>4, <1>c
  <2>6. StrandedOnlyIfLapped'
    BY <2>1 DEF StrandedOnlyIfLapped
  <2> QED
    BY <1>a, <2>1, <2>3, <2>4, <2>5, <2>6
<1>6. ASSUME NEW t \in Threads, DropEarly(t) PROVE BarrierInv'
  <2>1. threads_' = threads_ - 1 /\ count_' = count_ - 1 /\ count_' >= 1
        /\ round' = round /\ arrived' = arrived /\ sleepers' = sleepers
        /\ pc[t] = "idle" /\ pc' = [pc EXCEPT ![t] = "dropped"]
    BY <1>6, <1>b DEF DropEarly
  <2>2. Participants' = Participants \ {t} /\ t \in Participants
    BY <2>1 DEF Participants
  <2>3. Cardinality(Participants)' = Cardinality(Participants) - 1
    BY <1>0, <2>2, Counting
  <2>4. Waiters' = Waiters
    BY <2>1 DEF Waiters
  <2>5. TypeOK'
    BY <1>6, <1>a, <1>b DEF DropEarly
  <2>6. StrandedOnlyIfLapped'
    BY <2>1 DEF StrandedOnlyIfLapped
  <2> QED
    BY <1>a, <2>1, <2>3, <2>4, <2>5, <2>6
<1>7. ASSUME NEW t \in Threads, Awaken(t) PROVE BarrierInv'
  <2>1. Waiters' = Waiters /\ Participants' = Participants
    BY <1>7 DEF Awaken, Waiters, Participants
  <2>2. TypeOK' /\ sleepers' = {}
    BY <1>7 DEF Awaken, NotifyAll
  <2> QED
    BY <1>7, <2>1, <2>2 DEF Awaken, StrandedOnlyIfLapped
<1>8. ASSUME NEW t \in Threads, SpuriousWakeup(t) PROVE BarrierInv'
  <2>1. Waiters' = Waiters /\ Participants' = Participants
    BY <1>8 DEF SpuriousWakeup, Waiters, Participants
  <2>2. TypeOK' /\ sleepers' \subseteq sleepers
    BY <1>8 DEF SpuriousWakeup, Unblock
  <2> QED
    BY <1>8, <2>1, <2>2 DEF SpuriousWakeup, StrandedOnlyIfLapped
<1>9. CASE UNCHANGED vars
  BY <1>9 DEF vars, Waiters, Participants, StrandedOnlyIfLapped
<1> QED
  BY <1>1, <1>2, <1>3, <1>4, <1>5, <1>6, <1>7, <1>8, <1>9 DEF Next

\* Who leaves the wait at barrier found the countdown at its start, and then
\* nobody waits in the present round.
LEMMA BarrierHolds ==
    ASSUME BarrierInv, [Next]_vars, NEW t \in Threads,
           pc[t] = "waiting", pc'[t] # "waiting"
    PROVE  arrived[t] < round
<1> USE DEF BarrierInv, TypeOK, Labels, Goto
<1>1. Leave(t)
  <2>1. PICK u \in Threads : ArriveLast(u) \/ ArriveEarly(u) \/ Leave(u)
          \/ SleepAgain(u) \/ DropLast(u) \/ DropEarly(u) \/ Awaken(u)
          \/ SpuriousWakeup(u)
    BY DEF Next, vars
  <2> QED
    BY <2>1 DEF ArriveLast, ArriveEarly, Leave, SleepAgain, DropLast,
                DropEarly, Awaken, SpuriousWakeup
<1>2. Waiters \in SUBSET Threads
  BY DEF Waiters
<1>3. Waiters = {}
  BY <1>1, <1>2, Counting DEF Leave
<1> QED
  BY <1>3 DEF Waiters

------------------------------------------------------------------------------
(* flex_barrier                                                            *)

\* The threads that wait for the completion.
EarlyWaiters == {t \in FewerThreads : f_pc[t] = "waiting" /\ f_arrived[t] = 0}

\* Until the completion function has run, the countdown lacks as many arrivals
\* as threads wait.  Afterwards it only falls, and an arrival that is too late
\* keeps it below the number of participants whatever the function returned.
FlexInv ==
    /\ Flex!TypeOK
    /\ \A t \in FewerThreads : f_arrived[t] <= f_completed
    /\ f_completed = 0 => /\ f_count >= 1
                          /\ f_threads - f_count = Cardinality(EarlyWaiters)
    /\ f_completed = 1 =>
        /\ f_count <= 0 /\ f_threads >= f_count
        /\ \A t \in FewerThreads :
            f_pc[t] = "waiting" /\ f_arrived[t] = 1 => f_threads > f_count

\* A new flex_barrier has its whole countdown before it.
LEMMA FlexStarts == Flex!Init => FlexInv
<1> SUFFICES ASSUME Flex!Init PROVE FlexInv
  OBVIOUS
<1>1. Cardinality(FewerThreads) \in Nat /\ Cardinality(FewerThreads) # 0
  BY FS_CardinalityType, FS_EmptySet
<1>2. EarlyWaiters = {}
  BY DEF EarlyWaiters, Flex!Init
<1>3. Cardinality(EarlyWaiters) = 0
  BY <1>2, FS_EmptySet
<1> QED
  BY <1>1, <1>3, SameCardinality DEF Flex!Init, FlexInv, Flex!TypeOK, Flex!Labels

\* Every step of flex_barrier keeps what holds of its first round.
LEMMA FlexKept == FlexInv /\ [Flex!Next]_(Flex!vars) => FlexInv'
<1> USE DEF FlexInv, Flex!TypeOK, Flex!Labels, Flex!Goto
<1> SUFFICES ASSUME FlexInv, [Flex!Next]_(Flex!vars) PROVE FlexInv'
  OBVIOUS
<1>0. EarlyWaiters \in SUBSET FewerThreads
  BY DEF EarlyWaiters
<1>a. Cardinality(EarlyWaiters) \in Nat /\ Cardinality(FewerThreads) \in Nat
  BY <1>0, Counting
<1>b. /\ Cardinality(EarlyWaiters) = 0 <=> EarlyWaiters = {}
      /\ \A x \in FewerThreads \ EarlyWaiters :
            Cardinality(EarlyWaiters \cup {x}) = Cardinality(EarlyWaiters) + 1
  <2>1. IsFiniteSet(FewerThreads)
    OBVIOUS
  <2> QED
    BY <1>0, <2>1, Counting
<1>1. ASSUME NEW t \in FewerThreads, Flex!ArriveLast(t) \/ Flex!DropLast(t)
      PROVE  FlexInv'
  <2>1. f_completed = 0 /\ f_count = 1
    BY <1>1 DEF Flex!ArriveLast, Flex!DropLast
  <2>2. f_completed' = 1 /\ f_count' = 0
    BY <1>1, <2>1 DEF Flex!ArriveLast, Flex!DropLast, Flex!Complete
  <2>3. f_threads' \in Nat
    <3>1. PICK val \in Results :
            f_threads' = IF val # -1 THEN val ELSE f_threads
      BY <1>1 DEF Flex!ArriveLast, Flex!DropLast, Flex!Complete
    <3>2. f_threads \in Nat
      BY <1>a, <2>1, SameCardinality
    <3> QED
      BY <3>1, <3>2
  <2>4. \A u \in FewerThreads : f_arrived'[u] <= 0
    BY <1>1, <2>1 DEF Flex!ArriveLast, Flex!DropLast
  <2>5. Flex!TypeOK'
    BY <1>1, <1>a, <2>1, <2>2, <2>3, SameCardinality DEF Flex!ArriveLast, Flex!DropLast
  <2> QED
    BY <2>2, <2>3, <2>4, <2>5
<1>2. ASSUME NEW t \in FewerThreads, Flex!ArriveEarly(t) PROVE FlexInv'
  <2>1. /\ f_threads' = f_threads /\ f_count' = f_count - 1
        /\ f_count # 1 /\ f_count > -MaxLate
        /\ f_completed' = f_completed /\ f_pc[t] = "idle"
        /\ f_arrived' = [f_arrived EXCEPT ![t] = f_completed]
    BY <1>2 DEF Flex!ArriveEarly
  <2>2. /\ f_count' # f_threads
        /\ f_pc' = [f_pc EXCEPT ![t] = "waiting"]
        /\ f_sleepers' = f_sleepers \cup {t}
    BY <1>2, <1>a, <2>1 DEF Flex!ArriveEarly, Flex!Block
  <2>3. Flex!TypeOK' /\ \A u \in FewerThreads : f_arrived'[u] <= f_completed'
    BY <1>a, <2>1, <2>2, SameCardinality
  <2>4. CASE f_completed = 0
    <3>1. EarlyWaiters' = EarlyWaiters \cup {t} /\ t \notin EarlyWaiters
      BY <2>1, <2>2, <2>4 DEF EarlyWaiters
    <3>2. Cardinality(EarlyWaiters)' = Cardinality(EarlyWaiters) + 1
      BY <1>b, <3>1
    <3> QED
      BY <1>a, <2>1, <2>3, <2>4, <3>2
  <2>5. CASE f_completed = 1
    BY <2>1, <2>3, <2>5
  <2> QED
    BY <2>4, <2>5
<1>3. ASSUME NEW t \in FewerThreads, Flex!Leave(t) PROVE FlexInv'
  <2>1. UNCHANGED <<f_count, f_threads, f_completed, f_arrived, f_sleepers>>
        /\ f_pc' = [f_pc EXCEPT ![t] = "idle"] /\ t \notin f_sleepers
    BY <1>3 DEF Flex!Leave, Flex!Awake
  <2>2. CASE f_completed = 0
    <3>1. EarlyWaiters = {}
      BY <1>b, <1>3, <2>2 DEF Flex!Leave
    <3>2. EarlyWaiters' = EarlyWaiters
      BY <2>1, <3>1 DEF EarlyWaiters
    <3> QED
      BY <2>1, <2>2, <3>2
  <2>3. CASE f_completed = 1
    BY <2>1, <2>3
  <2> QED
    BY <2>2, <2>3
<1>4. ASSUME NEW t \in FewerThreads,
             Flex!SleepAgain(t) \/ Flex!SpuriousWakeup(t)
      PROVE  FlexInv'
  <2>1. UNCHANGED <<f_count, f_threads, f_completed, f_arrived, f_pc>>
        /\ f_sleepers' \subseteq {u \in FewerThreads : f_pc[u] = "waiting"}
    BY <1>4 DEF Flex!SleepAgain, Flex!SpuriousWakeup, Flex!Awake, Flex!Block,
                Flex!Unblock
  <2>2. EarlyWaiters' = EarlyWaiters
    BY <2>1 DEF EarlyWaiters
  <2> QED
    BY <2>1, <2>2
<1>5. ASSUME NEW t \in FewerThreads, Flex!DropEarly(t) PROVE FlexInv'
  <2>1. /\ f_threads' = f_threads - 1 /\ f_count' = f_count - 1
        /\ f_count # 1 /\ f_count > -MaxLate /\ f_pc[t] = "idle"
        /\ f_pc' = [f_pc EXCEPT ![t] = "dropped"]
        /\ UNCHANGED <<f_completed, f_arrived, f_sleepers>>
    BY <1>5 DEF Flex!DropEarly
  <2>2. EarlyWaiters' = EarlyWaiters
    BY <2>1 DEF EarlyWaiters
  <2>3. Flex!TypeOK'
    BY <1>a, <2>1, SameCardinality
  <2> QED
    BY <1>a, <2>1, <2>2, <2>3
<1>6. ASSUME NEW t \in FewerThreads, Flex!Awaken(t) PROVE FlexInv'
  <2>1. EarlyWaiters' = EarlyWaiters
    BY <1>6 DEF Flex!Awaken, EarlyWaiters
  <2> QED
    BY <1>6, <2>1 DEF Flex!Awaken, Flex!NotifyAll
<1>7. CASE UNCHANGED Flex!vars
  BY <1>7 DEF Flex!vars, EarlyWaiters
<1> QED
  BY <1>1, <1>2, <1>3, <1>4, <1>5, <1>6, <1>7 DEF Flex!Next

\* Who leaves the wait at flex_barrier found the countdown equal to the number
\* of participants, which it is for no thread that still waits rightly.
LEMMA FlexHolds ==
    ASSUME FlexInv, [Flex!Next]_(Flex!vars), NEW t \in FewerThreads,
           f_pc[t] = "waiting", f_pc'[t] # "waiting"
    PROVE  f_arrived[t] < f_completed
<1> USE DEF FlexInv, Flex!TypeOK, Flex!Labels, Flex!Goto
<1>1. Flex!Leave(t)
  <2>1. PICK u \in FewerThreads :
          Flex!ArriveLast(u) \/ Flex!ArriveEarly(u) \/ Flex!Leave(u)
          \/ Flex!SleepAgain(u) \/ Flex!DropLast(u) \/ Flex!DropEarly(u)
          \/ Flex!Awaken(u) \/ Flex!SpuriousWakeup(u)
    BY DEF Flex!Next, Flex!vars
  <2> QED
    BY <2>1 DEF Flex!ArriveLast, Flex!ArriveEarly, Flex!Leave,
                Flex!SleepAgain, Flex!DropLast, Flex!DropEarly, Flex!Awaken,
                Flex!SpuriousWakeup
<1>2. f_count = f_threads
  BY <1>1 DEF Flex!Leave
<1>3. CASE f_completed = 0
  <2>1. EarlyWaiters \in SUBSET FewerThreads
    BY DEF EarlyWaiters
  <2>2. EarlyWaiters = {}
    BY <1>2, <1>3, <2>1, Counting
  <2> QED
    BY <1>3, <2>2 DEF EarlyWaiters
<1>4. CASE f_completed = 1
  BY <1>2, <1>4
<1> QED
  BY <1>3, <1>4

------------------------------------------------------------------------------
(* latch                                                                   *)

\* The count is what is left after those that have counted down, each once,
\* and a thread that is about to notify found nothing left.
LatchInv ==
    /\ Latch!TypeOK
    /\ l_count = Expected - Cardinality(l_counted)
    /\ \A t \in Threads :
        l_pc[t] = "notify_all" => Cardinality(l_counted) >= Expected
    /\ l_passed # {} => Cardinality(l_counted) >= Expected

\* A new latch has counted nobody.
LEMMA LatchStarts == Latch!Init => LatchInv
<1> SUFFICES ASSUME Latch!Init PROVE LatchInv
  OBVIOUS
<1>1. Cardinality(Threads) \in Nat /\ Cardinality(l_counted) = 0
  BY FS_CardinalityType, FS_EmptySet DEF Latch!Init
<1> QED
  BY <1>1, SameCardinality DEF Latch!Init, LatchInv, Latch!TypeOK

\* Every step of the latch keeps its count, and who may have passed.
LEMMA LatchKept == LatchInv /\ [Latch!Next]_(Latch!vars) => LatchInv'
<1> USE DEF LatchInv, Latch!TypeOK, Latch!Goto
<1> SUFFICES ASSUME LatchInv, [Latch!Next]_(Latch!vars) PROVE LatchInv'
  OBVIOUS
<1>0. /\ Cardinality(l_counted) \in Nat /\ Cardinality(Threads) \in Nat
      /\ \A x \in Threads \ l_counted :
            Cardinality(l_counted \cup {x}) = Cardinality(l_counted) + 1
  BY Counting
<1>1. ASSUME NEW t \in Threads,
             Latch!CountDownAndWait(t) \/ Latch!CountDownTooLate(t)
               \/ Latch!CountDown(t)
      PROVE  LatchInv'
  <2>1. /\ l_count' = l_count - 1 /\ t \notin l_counted
        /\ l_counted' = l_counted \cup {t} /\ UNCHANGED <<l_passed, l_sleepers>>
    BY <1>1 DEF Latch!CountDownAndWait, Latch!CountDownTooLate,
                Latch!CountDown
  <2>2. Cardinality(l_counted)' = Cardinality(l_counted) + 1
    BY <1>0, <2>1
  <2>3. l_counted' \in SUBSET Threads
    BY <2>1
  <2>4. Cardinality(l_counted)' <= Cardinality(Threads)
    BY <2>3, Counting
  <2>5. /\ l_pc' \in [Threads ->
                {"idle", "looking", "about_to_sleep", "notify_all"}]
        /\ l_sleepers' \subseteq {u \in Threads : l_pc'[u] = "looking"}
        /\ \A u \in Threads : l_pc'[u] = "notify_all" =>
            l_pc[u] = "notify_all" \/ l_count = 0
    BY <1>1 DEF Latch!CountDownAndWait, Latch!CountDownTooLate,
                Latch!CountDown
  <2> QED
    BY <1>0, <2>1, <2>2, <2>3, <2>4, <2>5, SameCardinality
<1>2. ASSUME NEW t \in Threads,
             Latch!Wait(t) \/ Latch!FindNotReady(t) \/ Latch!Sleep(t)
               \/ Latch!SpuriousWakeup(t)
      PROVE  LatchInv'
  BY <1>2, SameCardinality
     DEF Latch!Wait, Latch!FindNotReady, Latch!Sleep, Latch!SpuriousWakeup,
         Latch!Block, Latch!Unblock
<1>3. ASSUME NEW t \in Threads, Latch!Pass(t) \/ Latch!Awaken(t)
      PROVE  LatchInv'
  <2>1. Cardinality(l_counted) >= Expected
    BY <1>0, <1>3 DEF Latch!Pass, Latch!Awaken
  <2> QED
    BY <1>3, <2>1, SameCardinality
       DEF Latch!Pass, Latch!Awaken, Latch!NotifyAll
<1>4. CASE UNCHANGED Latch!vars
  BY <1>4 DEF Latch!vars
<1> QED
  BY <1>1, <1>2, <1>3, <1>4 DEF Latch!Next

------------------------------------------------------------------------------
Inv == BarrierInv /\ FlexInv /\ LatchInv

\* The strengthening of the properties below is inductive for the three side by
\* side.
THEOREM InvHolds == AllSpec => []Inv
<1>1. AllInit => Inv
  BY BarrierStarts, FlexStarts, LatchStarts DEF AllInit, Inv
<1>2. Inv /\ [AllNext]_<<component, b_vars, f_vars, l_vars>> => Inv'
  BY EachSteps, BarrierKept, FlexKept, LatchKept DEF Inv
<1> QED
  BY <1>1, <1>2, PTL DEF AllSpec

\* The books of barrier balance through arrivals and drops in any order, with
\* as many participants as there are: what its countdown lacks are the
\* threads that wait in the present round, and so, with nobody inside, the
\* assertion of its destructor holds.
THEOREM BooksBalance == AllSpec => []Consistent
<1>1. Inv => Consistent
  BY DEF Inv, BarrierInv, FlexInv, LatchInv, Consistent, WaitersCounted,
         Waiters
<1> QED
  BY <1>1, InvHolds, PTL

\* The missing round number of barrier strands a thread only if another
\* participant was back before it looked.
THEOREM StrandedOnlyWhenLapped == AllSpec => []StrandedOnlyIfLapped
<1>1. Inv => StrandedOnlyIfLapped
  BY DEF Inv, BarrierInv
<1> QED
  BY <1>1, InvHolds, PTL

\* Nobody passes too early, whatever wakes it up: not barrier before its round
\* is complete, not flex_barrier before its completion function has run,
\* whatever that returns, and not latch before all have counted down.
THEOREM NobodyPassesEarly == AllSpec => NobodyEarly
<1>1. Inv /\ [AllNext]_<<component, b_vars, f_vars, l_vars>>
      => [\A t \in Threads :
            pc[t] = "waiting" /\ pc'[t] # "waiting" => arrived[t] < round]_vars
  BY EachSteps, BarrierHolds DEF Inv
<1>2. Inv /\ [AllNext]_<<component, b_vars, f_vars, l_vars>>
      => [\A t \in FewerThreads :
            f_pc[t] = "waiting" /\ f_pc'[t] # "waiting"
                => f_arrived[t] < f_completed]_(Flex!vars)
  BY EachSteps, FlexHolds DEF Inv
<1>3. Inv => Latch!NoEarlyPass
  BY SameCardinality DEF Inv, LatchInv, Latch!NoEarlyPass
<1> QED
  BY <1>1, <1>2, <1>3, InvHolds, PTL
     DEF AllSpec, NobodyEarly, NoEarlyRelease, Flex!NoEarlyRelease
==============================================================================
