-------------------------- MODULE ThreadPoolsProofs --------------------------
(***************************************************************************)
(* What is proved of the thread objects (stdlib/_thread.hpp, thread.hpp)   *)
(* and of the thread pools (sync/thread_pool.hpp), for any objects and     *)
(* threads, any number of workers and posters and any finite set of tasks: *)
(* no thread is lost or joined twice, and a task is never in two places,   *)
(* nor anywhere once it has run.                                           *)
(***************************************************************************)
EXTENDS MCThreadPools, FiniteSetTheorems, SequenceTheorems, TLAPS

USE JthreadsAssumption, NullAssumption, PoolAssumption

\* Each component takes its own steps or stays as it is, so that what a step
\* of each keeps, a step of the whole keeps.
LEMMA EachSteps ==
    ASSUME [AllNext]_<<component, t_vars, p_vars>>
    PROVE  [Next]_vars /\ [Pool!Next]_(Pool!vars)
BY DEF AllNext, t_vars, p_vars, vars, Pool!vars

------------------------------------------------------------------------------
(* Threads                                                                 *)

\* No two objects own one thread.
OneOwner == \A h, g \in Objects : Joinable(h) /\ handle_[g] = handle_[h] => h = g

\* An owned thread has begun and is not joined, and one such is owned.
Begun(i) == os[i] \in {"running", "ended"}
OwnedRuns == \A h \in Objects : Joinable(h) => Begun(handle_[h])
RunsOwned == \A i \in Ids : Begun(i) => \E h \in Objects : handle_[h] = i

\* An object that does not exist owns none, and one whose destructor joins does.
LifeOwns == \A h \in Objects : /\ life[h] = "dead" => ~Joinable(h)
                               /\ life[h] = "stopping" => Joinable(h)

\* A jthread owns the stop source of its thread.
OwnSource == \A h \in Jthreads : Joinable(h) => source_[h] = handle_[h]

Owned == OneOwner /\ OwnedRuns /\ RunsOwned /\ LifeOwns /\ OwnSource
ThreadsInv == TypeOK /\ Owned

\* At first there is no object and no thread has begun.
LEMMA ThreadsStart == Init => ThreadsInv
BY DEF Init, ThreadsInv, TypeOK, OneOwner, Begun, OwnedRuns, RunsOwned, LifeOwns,
       OwnSource, Owned, Joinable

\* Every call leaves a thread with one owner, until it is joined.
LEMMA ThreadsKept == ThreadsInv /\ [Next]_vars => ThreadsInv'
<1> SUFFICES ASSUME ThreadsInv, [Next]_vars PROVE ThreadsInv'
  OBVIOUS
<1> USE DEF ThreadsInv, Owned, Joinable
<1>0. TypeOK /\ OneOwner /\ OwnedRuns /\ RunsOwned /\ LifeOwns /\ OwnSource
  OBVIOUS
<1>1. ASSUME NEW h \in Objects, NEW i \in Ids, Construct(h, i)
      PROVE  ThreadsInv'
  <2>1. /\ life[h] = "dead" /\ os[i] = "unborn"
        /\ life' = [k \in Objects |-> IF k = h THEN "live" ELSE life[k]]
        /\ handle_' = [k \in Objects |-> IF k = h THEN i ELSE handle_[k]]
        /\ source_' = [k \in Objects |-> IF k = h THEN (IF h \in Jthreads THEN i ELSE Null) ELSE source_[k]]
        /\ os' = [k \in Ids |-> IF k = i THEN "running" ELSE os[k]]
        /\ UNCHANGED <<detached, stopped, fatal>>
    BY <1>1, <1>0 DEF Construct, TypeOK
  <2>10. i # Null /\ \A k \in Objects : handle_[k] # i
    BY <2>1, <1>0 DEF OwnedRuns, Begun
  <2>11. \A j \in Ids : Begun(j)' <=> Begun(j) \/ j = i
    BY <2>1, <1>0 DEF Begun, TypeOK
  <2>2. TypeOK'
    BY <2>1, <1>0 DEF TypeOK
  <2>3. OneOwner'
    BY <2>1, <2>2, <2>10, <1>0 DEF OneOwner
  <2>4. OwnedRuns'
    BY <2>1, <2>10, <2>11, <1>0 DEF OwnedRuns, TypeOK
  <2>5. RunsOwned'
    BY <2>1, <2>10, <2>11, <1>0 DEF RunsOwned, LifeOwns, TypeOK
  <2>6. LifeOwns'
    BY <2>1, <2>2, <2>10, <1>0 DEF LifeOwns
  <2>7. OwnSource'
    BY <2>1, <2>2, <2>10, <1>0 DEF OwnSource
  <2> QED
    BY <2>2, <2>3, <2>4, <2>5, <2>6, <2>7
<1>2. ASSUME NEW h \in Objects, ConstructEmpty(h) PROVE ThreadsInv'
  BY <1>2, <1>0 DEF ConstructEmpty, TypeOK, OneOwner, Begun, OwnedRuns, RunsOwned,
     LifeOwns, OwnSource
<1>3. ASSUME NEW h \in Objects, NEW g \in Objects, MoveConstruct(h, g)
      PROVE  ThreadsInv'
  <2>1. /\ h # g /\ (h \in Jthreads <=> g \in Jthreads)
        /\ life[h] = "dead" /\ life[g] = "live"
        /\ life' = [k \in Objects |-> IF k = h THEN "live" ELSE life[k]]
        /\ handle_' = [k \in Objects |-> IF k = g THEN Null ELSE IF k = h THEN handle_[g] ELSE handle_[k]]
        /\ source_' = [k \in Objects |-> IF k = g THEN Null ELSE IF k = h THEN source_[g] ELSE source_[k]]
        /\ UNCHANGED <<os, detached, stopped, fatal>>
    BY <1>3, <1>0 DEF MoveConstruct, SameClass, Transfer, TypeOK
  <2>11. \A j \in Ids : Begun(j)' <=> Begun(j)
    BY <2>1 DEF Begun
  <2>2. TypeOK'
    BY <2>1, <1>0 DEF TypeOK
  <2>3. OneOwner'
    BY <2>1, <2>2, <1>0 DEF OneOwner
  <2>4. OwnedRuns'
    BY <2>1, <2>11, <1>0 DEF OwnedRuns, TypeOK
  <2>5. RunsOwned'
    BY <2>1, <2>11, <1>0 DEF RunsOwned, LifeOwns, TypeOK
  <2>6. LifeOwns'
    BY <2>1, <2>2, <1>0 DEF LifeOwns
  <2>7. OwnSource'
    BY <2>1, <2>2, <1>0 DEF OwnSource
  <2> QED
    BY <2>2, <2>3, <2>4, <2>5, <2>6, <2>7
<1>4. ASSUME NEW h \in Objects, NEW g \in Objects, MoveAssign(h, g)
      PROVE  ThreadsInv'
  <2>1. CASE Joinable(h)
    <3>1. /\ fatal' \in {"owner destroyed", "owner assigned", "detached destroyed"}
          /\ UNCHANGED <<life, handle_, source_, os, detached, stopped>>
      BY <1>4, <2>1 DEF MoveAssign, Abort
    <3> QED
      BY <3>1, <1>0 DEF TypeOK, OneOwner, Begun, OwnedRuns, RunsOwned, LifeOwns,
         OwnSource
  <2>2. CASE ~Joinable(h)
    <3>1. /\ h # g /\ (h \in Jthreads <=> g \in Jthreads)
          /\ life[h] = "live" /\ life[g] = "live"
          /\ handle_' = [k \in Objects |-> IF k = g THEN Null ELSE IF k = h THEN handle_[g] ELSE handle_[k]]
          /\ source_' = [k \in Objects |-> IF k = g THEN Null ELSE IF k = h THEN source_[g] ELSE source_[k]]
          /\ UNCHANGED <<life, os, detached, stopped, fatal>>
      BY <1>4, <2>2, <1>0 DEF MoveAssign, SameClass, Transfer, TypeOK
    <3>11. \A j \in Ids : Begun(j)' <=> Begun(j)
      BY <3>1 DEF Begun
    <3>2. TypeOK'
      BY <3>1, <1>0, <2>2 DEF TypeOK
    <3>3. OneOwner'
      BY <3>1, <3>2, <1>0, <2>2 DEF OneOwner
    <3>4. OwnedRuns'
      BY <3>1, <2>2, <3>11, <1>0 DEF OwnedRuns, TypeOK
    <3>5. RunsOwned'
      BY <3>1, <2>2, <3>11, <1>0 DEF RunsOwned, TypeOK
    <3>6. LifeOwns'
      BY <3>1, <3>2, <1>0, <2>2 DEF LifeOwns
    <3>7. OwnSource'
      BY <3>1, <3>2, <1>0, <2>2 DEF OwnSource
    <3> QED
      BY <3>2, <3>3, <3>4, <3>5, <3>6, <3>7
  <2> QED
    BY <2>1, <2>2
<1>5. ASSUME NEW h \in Objects, NEW g \in Objects, Swap(h, g)
      PROVE  ThreadsInv'
  <2>1. /\ h # g /\ (h \in Jthreads <=> g \in Jthreads)
        /\ life[h] = "live" /\ life[g] = "live"
        /\ handle_' = [k \in Objects |-> IF k = g THEN handle_[h] ELSE IF k = h THEN handle_[g] ELSE handle_[k]]
        /\ source_' = [k \in Objects |-> IF k = g THEN source_[h] ELSE IF k = h THEN source_[g] ELSE source_[k]]
        /\ UNCHANGED <<life, os, detached, stopped, fatal>>
    BY <1>5, <1>0 DEF Swap, SameClass, TypeOK
  <2>11. \A j \in Ids : Begun(j)' <=> Begun(j)
    BY <2>1 DEF Begun
  <2>2. TypeOK'
    BY <2>1, <1>0 DEF TypeOK
  <2>3. OneOwner'
    BY <2>1, <2>2, <1>0 DEF OneOwner
  <2>4. OwnedRuns'
    BY <2>1, <2>11, <1>0 DEF OwnedRuns, TypeOK
  <2>5. RunsOwned'
    BY <2>1, <2>11, <1>0 DEF RunsOwned, TypeOK
  <2>6. LifeOwns'
    BY <2>1, <2>2, <1>0 DEF LifeOwns
  <2>7. OwnSource'
    BY <2>1, <2>2, <1>0 DEF OwnSource
  <2> QED
    BY <2>2, <2>3, <2>4, <2>5, <2>6, <2>7
<1>6. ASSUME NEW h \in Objects, Join(h)
      PROVE  ThreadsInv'
  <2>1. /\ life[h] = "live" /\ Joinable(h)
        /\ handle_' = [k \in Objects |-> IF k = h THEN Null ELSE handle_[k]]
        /\ os' = [k \in Ids |-> IF k = handle_[h] THEN "joined" ELSE os[k]]
        /\ UNCHANGED <<life, source_, detached, stopped, fatal>>
    BY <1>6, <1>0 DEF Join, PosixJoin, TypeOK
  <2>10. /\ handle_[h] \in Ids /\ handle_[h] # Null
         /\ \A k \in Objects : handle_[k] = handle_[h] => k = h
    BY <2>1, <1>0 DEF OneOwner, TypeOK
  <2>11. \A j \in Ids : Begun(j)' <=> Begun(j) /\ j # handle_[h]
    BY <2>1, <1>0 DEF Begun, TypeOK
  <2>2. TypeOK'
    BY <2>1, <1>0 DEF TypeOK
  <2>3. OneOwner'
    BY <2>1, <2>2, <2>10, <1>0 DEF OneOwner
  <2>4. OwnedRuns'
    BY <2>1, <2>10, <2>11, <1>0 DEF OwnedRuns, TypeOK
  <2>5. RunsOwned'
    BY <2>1, <2>10, <2>11, <1>0 DEF RunsOwned, TypeOK
  <2>6. LifeOwns'
    BY <2>1, <2>2, <2>10, <1>0 DEF LifeOwns
  <2>7. OwnSource'
    BY <2>1, <2>2, <2>10, <1>0 DEF OwnSource
  <2> QED
    BY <2>2, <2>3, <2>4, <2>5, <2>6, <2>7
<1>7. ASSUME NEW h \in Objects, Detach(h) PROVE ThreadsInv'
  BY <1>7, <1>0 DEF Detach, TypeOK, OneOwner, Begun, OwnedRuns, RunsOwned, LifeOwns,
     OwnSource
<1>8. ASSUME NEW h \in Objects, RequestStop(h) PROVE ThreadsInv'
  BY <1>8, <1>0 DEF RequestStop, TypeOK, OneOwner, Begun, OwnedRuns, RunsOwned, LifeOwns,
     OwnSource
<1>9. ASSUME NEW h \in Objects, Destroy(h)
      PROVE  ThreadsInv'
  <2>1. CASE Joinable(h)
    <3>1. /\ fatal' \in {"owner destroyed", "owner assigned", "detached destroyed"}
          /\ UNCHANGED <<life, handle_, source_, os, detached, stopped>>
      BY <1>9, <2>1 DEF Destroy, Abort
    <3> QED
      BY <3>1, <1>0 DEF TypeOK, OneOwner, Begun, OwnedRuns, RunsOwned, LifeOwns,
         OwnSource
  <2>2. CASE ~Joinable(h)
    <3>1. /\ life[h] = "live"
          /\ life' = [k \in Objects |-> IF k = h THEN "dead" ELSE life[k]]
          /\ source_' = [k \in Objects |-> IF k = h THEN Null ELSE source_[k]]
          /\ UNCHANGED <<handle_, os, detached, stopped, fatal>>
      BY <1>9, <2>2, <1>0 DEF Destroy, Remove, TypeOK
    <3>2. TypeOK'
      BY <3>1, <1>0, <2>2 DEF TypeOK
    <3>3. OneOwner'
      BY <3>1, <3>2, <1>0, <2>2 DEF OneOwner
    <3>4. OwnedRuns'
      BY <3>1, <3>2, <1>0, <2>2 DEF OwnedRuns, Begun
    <3>5. RunsOwned'
      BY <3>1, <3>2, <1>0, <2>2 DEF RunsOwned, Begun
    <3>6. LifeOwns'
      BY <3>1, <3>2, <1>0, <2>2 DEF LifeOwns
    <3>7. OwnSource'
      BY <3>1, <3>2, <1>0, <2>2 DEF OwnSource
    <3> QED
      BY <3>2, <3>3, <3>4, <3>5, <3>6, <3>7
  <2> QED
    BY <2>1, <2>2
<1>10. ASSUME NEW h \in Objects, StopInDestructor(h) PROVE ThreadsInv'
  <2>1. /\ life' = [k \in Objects |-> IF k = h THEN "stopping" ELSE life[k]]
        /\ Joinable(h) /\ stopped' \subseteq Ids
        /\ UNCHANGED <<handle_, source_, os, detached, fatal>>
    BY <1>10, <1>0 DEF StopInDestructor, TypeOK
  <2>2. TypeOK'
    BY <2>1, <1>0 DEF TypeOK
  <2>3. LifeOwns'
    BY <2>1, <1>0 DEF LifeOwns
  <2>4. OneOwner' /\ OwnedRuns' /\ RunsOwned' /\ OwnSource'
    BY <2>1, <1>0 DEF OneOwner, Begun, OwnedRuns, RunsOwned, OwnSource
  <2> QED
    BY <2>2, <2>3, <2>4
<1>11. ASSUME NEW h \in Objects, JoinInDestructor(h)
      PROVE  ThreadsInv'
  <2>1. CASE handle_[h] \in detached
    <3>1. /\ fatal' \in {"owner destroyed", "owner assigned", "detached destroyed"}
          /\ UNCHANGED <<life, handle_, source_, os, detached, stopped>>
      BY <1>11, <2>1 DEF JoinInDestructor, Abort
    <3> QED
      BY <3>1, <1>0 DEF TypeOK, OneOwner, Begun, OwnedRuns, RunsOwned, LifeOwns,
         OwnSource
  <2>2. CASE handle_[h] \notin detached
    <3>1. /\ life[h] = "stopping"
          /\ life' = [k \in Objects |-> IF k = h THEN "dead" ELSE life[k]]
          /\ source_' = [k \in Objects |-> IF k = h THEN Null ELSE source_[k]]
          /\ handle_' = [k \in Objects |-> IF k = h THEN Null ELSE handle_[k]]
          /\ os' = [k \in Ids |-> IF k = handle_[h] THEN "joined" ELSE os[k]]
          /\ UNCHANGED <<detached, stopped, fatal>>
      BY <1>11, <2>2, <1>0 DEF JoinInDestructor, PosixJoin, Remove, TypeOK
    <3>10. /\ handle_[h] \in Ids /\ handle_[h] # Null
           /\ \A k \in Objects : handle_[k] = handle_[h] => k = h
      BY <3>1, <1>0 DEF OneOwner, LifeOwns, TypeOK
    <3>11. \A j \in Ids : Begun(j)' <=> Begun(j) /\ j # handle_[h]
      BY <3>1, <1>0 DEF Begun, TypeOK
    <3>2. TypeOK'
      BY <3>1, <1>0, <2>2 DEF TypeOK
    <3>3. OneOwner'
      BY <3>1, <3>2, <3>10, <1>0, <2>2 DEF OneOwner
    <3>4. OwnedRuns'
      BY <3>1, <3>10, <3>11, <1>0 DEF OwnedRuns, TypeOK
    <3>5. RunsOwned'
      BY <3>1, <3>10, <3>11, <1>0 DEF RunsOwned, TypeOK
    <3>6. LifeOwns'
      BY <3>1, <3>2, <3>10, <1>0, <2>2 DEF LifeOwns
    <3>7. OwnSource'
      BY <3>1, <3>2, <3>10, <1>0, <2>2 DEF OwnSource
    <3> QED
      BY <3>2, <3>3, <3>4, <3>5, <3>6, <3>7
  <2> QED
    BY <2>1, <2>2
<1>12. ASSUME NEW i \in Ids, End(i)
      PROVE  ThreadsInv'
  <2>1. /\ os[i] = "running"
        /\ os' = [k \in Ids |-> IF k = i THEN "ended" ELSE os[k]]
        /\ UNCHANGED <<life, handle_, source_, detached, stopped, fatal>>
    BY <1>12, <1>0 DEF End, TypeOK
  <2>11. \A j \in Ids : Begun(j)' <=> Begun(j)
    BY <2>1, <1>0 DEF Begun, TypeOK
  <2>2. TypeOK'
    BY <2>1, <1>0 DEF TypeOK
  <2>3. OneOwner'
    BY <2>1, <2>2, <1>0 DEF OneOwner
  <2>4. OwnedRuns'
    BY <2>1, <2>11, <1>0 DEF OwnedRuns, TypeOK
  <2>5. RunsOwned'
    BY <2>1, <2>11, <1>0 DEF RunsOwned, TypeOK
  <2>6. LifeOwns'
    BY <2>1, <2>2, <1>0 DEF LifeOwns
  <2>7. OwnSource'
    BY <2>1, <2>2, <1>0 DEF OwnSource
  <2> QED
    BY <2>2, <2>3, <2>4, <2>5, <2>6, <2>7
<1>13. CASE UNCHANGED vars
  BY <1>13, <1>0 DEF vars, TypeOK, OneOwner, Begun, OwnedRuns, RunsOwned, LifeOwns,
     OwnSource
<1> QED
  BY <1>1, <1>2, <1>3, <1>4, <1>5, <1>6, <1>7, <1>8, <1>9, <1>10, <1>11,
     <1>12, <1>13 DEF Next

\* The owners of a thread, counted.
LEMMA OwnersCounted == ThreadsInv => ThreadsAccounted
<1> SUFFICES ASSUME ThreadsInv PROVE ThreadsAccounted
  OBVIOUS
<1>0. TypeOK /\ OneOwner /\ OwnedRuns /\ RunsOwned /\ OwnSource
  BY DEF ThreadsInv, Owned
<1> USE <1>0 DEF OneOwner, OwnedRuns, RunsOwned, OwnSource, Joinable, Begun
<1>1. ASSUME NEW i \in Ids, os[i] \in {"unborn", "joined"}
      PROVE  {h \in Objects : handle_[h] = i} = {}
  BY <1>1
<1>2. ASSUME NEW i \in Ids, os[i] \in {"running", "ended"}
      PROVE  Cardinality({h \in Objects : handle_[h] = i}) = 1
  <2>1. PICK h \in Objects : handle_[h] = i
    BY <1>2
  <2>2. {g \in Objects : handle_[g] = i} = {h}
    BY <2>1
  <2> QED
    BY <2>2, FS_Singleton
<1> QED
  BY <1>1, <1>2 DEF ThreadsAccounted

------------------------------------------------------------------------------
(* The pools                                                               *)

Workers == Pool!Workers

\* Some queue holds task k.
InQueue(k) == \E w \in Workers : \E n \in 1 .. Len(p_queues[w]) : p_queues[w][n] = k

\* No two places of the queues hold one task, no two workers run one, and no
\* two posters are about to push one.
PlacesApart ==
    \A v, w \in Workers : \A m \in 1 .. Len(p_queues[v]), n \in 1 .. Len(p_queues[w]) :
        p_queues[v][m] = p_queues[w][n] => v = w /\ m = n
WorkersApart ==
    \A v, w \in Workers : p_working[v] # Null /\ p_working[v] = p_working[w] => v = w
PostersApart ==
    \A p, q \in Posters : p_posting[p] # Null /\ p_posting[p] = p_posting[q] => p = q

\* A task is in a queue, or at a worker, or at a poster, or it has run.
QueuedOnly ==
    \A k \in Tasks : InQueue(k) =>
        /\ k \notin p_done
        /\ \A w \in Workers : p_working[w] # k
        /\ \A p \in Posters : p_posting[p] # k
WorkedOnly ==
    \A w \in Workers : p_working[w] # Null =>
        /\ p_working[w] \notin p_done
        /\ \A p \in Posters : p_posting[p] # p_working[w]
PostedOnly == \A p \in Posters : p_posting[p] # Null => p_posting[p] \notin p_done

Apart == WorkersApart /\ PostersApart /\ QueuedOnly /\ WorkedOnly /\ PostedOnly
PoolInv == Pool!TypeOK /\ PlacesApart /\ Apart

\* The Cardinality that the instance sees is that of FiniteSets.
LEMMA SameCardinality == \A S : Pool!Cardinality(S) = Cardinality(S)
BY DEF Pool!Cardinality, Cardinality, Pool!IsFiniteSet, IsFiniteSet

\* A set without two elements has none or one.
LEMMA AtMostOne ==
    ASSUME NEW S, \A x, y \in S : x = y
    PROVE  /\ Cardinality(S) \in {0, 1}
           /\ Cardinality(S) = 0 <=> S = {}
<1>1. CASE S = {}
  BY <1>1, FS_EmptySet
<1>2. CASE S # {}
  <2>1. PICK x : x \in S
    BY <1>2
  <2>2. S = {x}
    BY <2>1
  <2>3. Cardinality(S) = 1
    BY <2>2, FS_Singleton
  <2> QED
    BY <1>2, <2>3
<1> QED
  BY <1>1, <1>2

\* A queue is no longer than there are tasks, as it holds each once.
LEMMA QueuesShort ==
    ASSUME PoolInv, NEW w \in Workers
    PROVE  Len(p_queues[w]) <= Cardinality(Tasks)
<1> DEFINE s == p_queues[w]
<1>1. s \in Seq(Tasks) /\ Len(s) \in Nat /\ s \in [1 .. Len(s) -> Tasks]
  BY DEF PoolInv, Pool!TypeOK, Workers
<1>2. s \in Injection(1 .. Len(s), Tasks)
  <2>1. \A m, n \in 1 .. Len(s) : s[m] = s[n] => m = n
    BY DEF PoolInv, PlacesApart
  <2>2. DOMAIN s = 1 .. Len(s)
    BY <1>1
  <2>3. IsInjective(s)
    BY <2>1, <2>2 DEF IsInjective
  <2> HIDE DEF s
  <2> QED
    BY <1>1, <2>3 DEF Injection
<1> HIDE DEF s
<1>3. IsFiniteSet(1 .. Len(s)) /\ Cardinality(1 .. Len(s)) = Len(s)
  <2>1. 1 \in Int /\ Len(s) \in Int
    BY <1>1
  <2>2. Cardinality(1 .. Len(s)) = IF 1 > Len(s) THEN 0 ELSE Len(s) - 1 + 1
    BY <2>1, FS_Interval
  <2>3. IsFiniteSet(1 .. Len(s))
    BY <2>1, FS_Interval
  <2> QED
    BY <1>1, <2>2, <2>3
<1>4. IsFiniteSet(Tasks)
  BY PoolAssumption
<1>5. Cardinality(1 .. Len(s)) <= Cardinality(Tasks)
  BY <1>2, <1>4, FS_Injection
<1> QED
  BY <1>3, <1>5 DEF s

\* The holders of a task, as Copies counts them.
QueuePlaces(k) ==
    {s \in Workers \X (1 .. Cardinality(Tasks)) :
        s[2] <= Len(p_queues[s[1]]) /\ p_queues[s[1]][s[2]] = k}
WorkersWith(k) == {w \in Workers : p_working[w] = k}
PostersWith(k) == {p \in Posters : p_posting[p] = k}

\* In each of the three ways a task is held once at most.
LEMMA HoldersCounted ==
    ASSUME PoolInv, NEW k \in Tasks
    PROVE  /\ Pool!Copies(k) = Cardinality(QueuePlaces(k))
                + Cardinality(WorkersWith(k)) + Cardinality(PostersWith(k))
           /\ Cardinality(QueuePlaces(k)) = IF InQueue(k) THEN 1 ELSE 0
           /\ Cardinality(WorkersWith(k)) =
                IF \E w \in Workers : p_working[w] = k THEN 1 ELSE 0
           /\ Cardinality(PostersWith(k)) =
                IF \E p \in Posters : p_posting[p] = k THEN 1 ELSE 0
<1>0. /\ p_queues \in [Workers -> Seq(Tasks)] /\ k # Null
      /\ Cardinality(Tasks) \in Nat
  BY PoolAssumption, FS_CardinalityType DEF PoolInv, Pool!TypeOK, Workers
<1>1. Pool!Copies(k) = Cardinality(QueuePlaces(k))
                + Cardinality(WorkersWith(k)) + Cardinality(PostersWith(k))
  BY SameCardinality DEF Pool!Copies, QueuePlaces, WorkersWith, PostersWith, Workers
<1>2. \A x, y \in QueuePlaces(k) : x = y
  BY <1>0 DEF PoolInv, PlacesApart, QueuePlaces
<1>3. \A x, y \in WorkersWith(k) : x = y
  BY <1>0 DEF PoolInv, Apart, WorkersApart, WorkersWith
<1>4. \A x, y \in PostersWith(k) : x = y
  BY <1>0 DEF PoolInv, Apart, PostersApart, PostersWith
<1>5. QueuePlaces(k) = {} <=> ~InQueue(k)
  <2>1. ASSUME InQueue(k) PROVE QueuePlaces(k) # {}
    <3>0. PICK w \in Workers : \E n \in 1 .. Len(p_queues[w]) : p_queues[w][n] = k
      BY <2>1 DEF InQueue
    <3>1. PICK n \in 1 .. Len(p_queues[w]) : p_queues[w][n] = k
      BY <3>0
    <3>2. n \in 1 .. Cardinality(Tasks)
      BY <3>1, <1>0, QueuesShort
    <3>3. <<w, n>> \in QueuePlaces(k)
      BY <3>1, <3>2, <1>0 DEF QueuePlaces
    <3> QED
      BY <3>3
  <2>2. ASSUME NEW s \in QueuePlaces(k) PROVE InQueue(k)
    BY <2>2, <1>0 DEF QueuePlaces, InQueue
  <2> QED
    BY <2>1, <2>2
<1>6. WorkersWith(k) = {} <=> ~ \E w \in Workers : p_working[w] = k
  BY DEF WorkersWith
<1>7. PostersWith(k) = {} <=> ~ \E p \in Posters : p_posting[p] = k
  BY DEF PostersWith
<1>8. Cardinality(QueuePlaces(k)) = IF InQueue(k) THEN 1 ELSE 0
  BY <1>2, <1>5, AtMostOne
<1>9. Cardinality(WorkersWith(k)) =
        IF \E w \in Workers : p_working[w] = k THEN 1 ELSE 0
  BY <1>3, <1>6, AtMostOne
<1>10. Cardinality(PostersWith(k)) =
        IF \E p \in Posters : p_posting[p] = k THEN 1 ELSE 0
  BY <1>4, <1>7, AtMostOne
<1> QED
  BY <1>1, <1>8, <1>9, <1>10

\* So a task has one holder at most, and none once it has run.
LEMMA HoldersSafe == PoolInv => TaskInOnePlace
<1> SUFFICES ASSUME PoolInv, NEW k \in Tasks
             PROVE  Pool!Copies(k) <= 1 /\ (k \in p_done => Pool!Copies(k) = 0)
  BY DEF TaskInOnePlace, Pool!TaskInOnePlace
<1>0. k # Null
  BY PoolAssumption
<1>1. CASE InQueue(k)
  BY <1>0, <1>1, HoldersCounted DEF PoolInv, Apart, QueuedOnly
<1>2. CASE ~InQueue(k) /\ \E w \in Workers : p_working[w] = k
  BY <1>0, <1>2, HoldersCounted DEF PoolInv, Apart, WorkedOnly
<1>3. CASE ~InQueue(k) /\ ~ \E w \in Workers : p_working[w] = k
  BY <1>0, <1>3, HoldersCounted DEF PoolInv, Apart, PostedOnly
<1> QED
  BY <1>1, <1>2, <1>3

\* A task that was not posted is nowhere.
LEMMA Unposted ==
    ASSUME PoolInv, NEW k \in Tasks, ~Pool!Posted(k)
    PROVE  /\ ~InQueue(k) /\ k \notin p_done
           /\ \A w \in Workers : p_working[w] # k
           /\ \A p \in Posters : p_posting[p] # k
BY HoldersCounted DEF Pool!Posted

\* A task appended to a queue is in the queues, besides those that were.
LEMMA Appended ==
    ASSUME PoolInv, NEW w \in Workers, NEW k \in Tasks, ~InQueue(k),
           p_queues' = [p_queues EXCEPT ![w] = Append(@, k)]
    PROVE  /\ p_queues' \in [Workers -> Seq(Tasks)] /\ PlacesApart'
           /\ \A x \in Tasks : InQueue(x)' <=> InQueue(x) \/ x = k
<1>1. p_queues \in [Workers -> Seq(Tasks)]
  BY DEF PoolInv, Pool!TypeOK, Workers
<1>2. p_queues' \in [Workers -> Seq(Tasks)]
  BY <1>1
<1>3. /\ Len(p_queues'[w]) = Len(p_queues[w]) + 1 /\ Len(p_queues[w]) \in Nat
      /\ p_queues'[w][Len(p_queues[w]) + 1] = k
      /\ \A n \in 1 .. Len(p_queues[w]) : p_queues'[w][n] = p_queues[w][n]
  BY <1>1
<1>4. \A v \in Workers \ {w} : p_queues'[v] = p_queues[v]
  BY <1>1
<1>5. \A x : InQueue(x)' <=> InQueue(x) \/ x = k
  <2>1. ASSUME NEW x, InQueue(x)' PROVE InQueue(x) \/ x = k
    BY <2>1, <1>3, <1>4 DEF InQueue
  <2>2. ASSUME NEW x, InQueue(x) PROVE InQueue(x)'
    <3>1. PICK v \in Workers : \E n \in 1 .. Len(p_queues[v]) : p_queues[v][n] = x
      BY <2>2 DEF InQueue
    <3>2. PICK n \in 1 .. Len(p_queues[v]) : p_queues[v][n] = x
      BY <3>1
    <3>3. n \in 1 .. Len(p_queues'[v]) /\ p_queues'[v][n] = x
      BY <3>2, <1>3, <1>4
    <3> QED
      BY <3>3 DEF InQueue
  <2>3. InQueue(k)'
    BY <1>3 DEF InQueue
  <2> QED
    BY <2>1, <2>2, <2>3
<1>6. PlacesApart'
  <2> SUFFICES ASSUME NEW u \in Workers, NEW v \in Workers,
                      NEW m \in 1 .. Len(p_queues'[u]),
                      NEW n \in 1 .. Len(p_queues'[v]),
                      p_queues'[u][m] = p_queues'[v][n]
               PROVE  u = v /\ m = n
    BY DEF PlacesApart, Workers, Pool!Workers
  <2> DEFINE Old(z, j) == j \in 1 .. Len(p_queues[z])
             Last(z, j) == z = w /\ j = Len(p_queues[w]) + 1
  <2>1. \/ Old(u, m) /\ p_queues[u][m] = p_queues'[u][m]
        \/ Last(u, m) /\ p_queues'[u][m] = k
    BY <1>3, <1>4
  <2>2. \/ Old(v, n) /\ p_queues[v][n] = p_queues'[v][n]
        \/ Last(v, n) /\ p_queues'[v][n] = k
    BY <1>3, <1>4
  <2>3. Old(u, m) => p_queues[u][m] # k
    BY DEF InQueue
  <2>4. Old(v, n) => p_queues[v][n] # k
    BY DEF InQueue
  <2>5. CASE Old(u, m) /\ Old(v, n) /\ p_queues[u][m] = p_queues[v][n]
    BY <2>5 DEF PoolInv, PlacesApart
  <2>6. CASE Last(u, m) /\ Last(v, n)
    BY <2>6
  <2> HIDE DEF Old, Last
  <2> QED
    BY <2>1, <2>2, <2>3, <2>4, <2>5, <2>6
<1> QED
  BY <1>2, <1>5, <1>6

\* A task taken from a queue is no longer in one, and all others are.
LEMMA Taken ==
    ASSUME PoolInv, NEW w \in Workers, p_queues[w] # <<>>,
           p_queues' = [p_queues EXCEPT ![w] = Tail(@)]
    PROVE  /\ p_queues' \in [Workers -> Seq(Tasks)] /\ PlacesApart'
           /\ Head(p_queues[w]) \in Tasks /\ InQueue(Head(p_queues[w]))
           /\ \A x \in Tasks : InQueue(x)' <=> InQueue(x) /\ x # Head(p_queues[w])
<1> DEFINE k == Head(p_queues[w])
           Was(v, n) == IF v = w THEN n + 1 ELSE n
<1>1. p_queues \in [Workers -> Seq(Tasks)]
  BY DEF PoolInv, Pool!TypeOK, Workers
<1>2. p_queues' \in [Workers -> Seq(Tasks)]
  BY <1>1
<1>3. /\ Len(p_queues[w]) \in Nat \ {0} /\ Len(p_queues'[w]) = Len(p_queues[w]) - 1
      /\ k = p_queues[w][1] /\ k \in Tasks
      /\ \A n \in 1 .. Len(p_queues'[w]) : p_queues'[w][n] = p_queues[w][n + 1]
  BY <1>1
<1>4. \A v \in Workers \ {w} : p_queues'[v] = p_queues[v]
  BY <1>1
<1>5. \A v \in Workers : \A n \in 1 .. Len(p_queues'[v]) :
        /\ Was(v, n) \in 1 .. Len(p_queues[v])
        /\ p_queues'[v][n] = p_queues[v][Was(v, n)]
        /\ v = w => Was(v, n) # 1
  <2> SUFFICES ASSUME NEW v \in Workers, NEW n \in 1 .. Len(p_queues'[v])
               PROVE  /\ Was(v, n) \in 1 .. Len(p_queues[v])
                      /\ p_queues'[v][n] = p_queues[v][Was(v, n)]
                      /\ v = w => Was(v, n) # 1
    OBVIOUS
  <2>1. CASE v = w
    BY <2>1, <1>3
  <2>2. CASE v # w
    BY <2>2, <1>4
  <2> QED
    BY <2>1, <2>2
<1>6. PlacesApart'
  <2> SUFFICES ASSUME NEW u \in Workers, NEW v \in Workers,
                      NEW m \in 1 .. Len(p_queues'[u]),
                      NEW n \in 1 .. Len(p_queues'[v]),
                      p_queues'[u][m] = p_queues'[v][n]
               PROVE  u = v /\ m = n
    BY DEF PlacesApart, Workers, Pool!Workers
  <2>1. u = v /\ Was(u, m) = Was(v, n)
    <3> HIDE DEF Was
    <3> QED
      BY <1>5 DEF PoolInv, PlacesApart
  <2> QED
    BY <2>1
<1>7. InQueue(k)
  BY <1>3 DEF InQueue
<1>8. ASSUME NEW x, InQueue(x)' PROVE InQueue(x) /\ x # k
  <2>1. PICK v \in Workers : \E n \in 1 .. Len(p_queues'[v]) : p_queues'[v][n] = x
    BY <1>8 DEF InQueue, Workers, Pool!Workers
  <2>2. PICK n \in 1 .. Len(p_queues'[v]) : p_queues'[v][n] = x
    BY <2>1
  <2>3. /\ Was(v, n) \in 1 .. Len(p_queues[v]) /\ p_queues[v][Was(v, n)] = x
        /\ v = w => Was(v, n) # 1
    BY <2>2, <1>5
  <2> HIDE DEF Was
  <2>4. InQueue(x)
    BY <2>3 DEF InQueue
  <2>5. x # k
    BY <2>3, <1>3 DEF PoolInv, PlacesApart
  <2> QED
    BY <2>4, <2>5
<1>9. ASSUME NEW x, InQueue(x), x # k PROVE InQueue(x)'
  <2>1. PICK v \in Workers : \E n \in 1 .. Len(p_queues[v]) : p_queues[v][n] = x
    BY <1>9 DEF InQueue
  <2>2. PICK n \in 1 .. Len(p_queues[v]) : p_queues[v][n] = x
    BY <2>1
  <2>3. CASE v = w
    <3>1. n - 1 \in 1 .. Len(p_queues'[w]) /\ p_queues'[w][n - 1] = x
      BY <2>2, <2>3, <1>3, <1>9
    <3> QED
      BY <3>1 DEF InQueue
  <2>4. CASE v # w
    BY <2>2, <2>4, <1>4 DEF InQueue
  <2> QED
    BY <2>3, <2>4
<1> QED
  BY <1>2, <1>3, <1>6, <1>7, <1>8, <1>9

\* At first no task has been posted.
LEMMA PoolStart == Pool!Init => PoolInv
<1> SUFFICES ASSUME Pool!Init PROVE PoolInv
  OBVIOUS
<1>1. /\ p_queues = [w \in Workers |-> <<>>] /\ p_working = [w \in Workers |-> Null]
      /\ p_posting = [p \in Posters |-> Null]
  BY DEF Pool!Init, Workers
<1>2. Pool!TypeOK
  BY PoolAssumption DEF Pool!Init, Pool!TypeOK, Pool!Workers, Pool!LOOP_K
<1>3. \A k : ~InQueue(k)
  BY <1>1 DEF InQueue
<1>4. PlacesApart
  BY <1>1 DEF PlacesApart
<1>5. Apart
  BY <1>1, <1>3 DEF Apart, WorkersApart, PostersApart, QueuedOnly, WorkedOnly, PostedOnly
<1> QED
  BY <1>2, <1>4, <1>5 DEF PoolInv

\* The queue an attempt turns to is one of the pool.
LEMMA SomeQueue == \A n \in Nat : n % PoolSize \in Workers
BY PoolAssumption DEF Workers, Pool!Workers

\* No attempts at all are a number of attempts.
LEMMA Bounds ==
    /\ 0 \in Pool!Workers /\ 0 \in 0 .. PoolSize
    /\ 0 \in 0 .. (Pool!LOOP_K * PoolSize) /\ Pool!LOOP_K * PoolSize \in Nat
BY PoolAssumption DEF Pool!Workers, Pool!LOOP_K

\* A push takes the task from the poster to the queue.
LEMMA PushKept ==
    ASSUME PoolInv, NEW p \in Posters, NEW w \in Workers, p_posting[p] # Null,
           Pool!Push(p, w),
           UNCHANGED <<p_stealing, p_index, p_working, p_looking, p_done>>
    PROVE  PoolInv'
<1> DEFINE k == p_posting[p]
<1>0. Pool!TypeOK /\ k \in Tasks /\ k # Null
  BY DEF PoolInv, Pool!TypeOK
<1>1. ~InQueue(k) /\ k \notin p_done /\ \A v \in Workers : p_working[v] # k
  BY <1>0 DEF PoolInv, Apart, QueuedOnly, WorkedOnly, PostedOnly
<1>2. /\ p_queues' = [p_queues EXCEPT ![w] = Append(@, k)]
      /\ p_posting' = [q \in Posters |-> IF q = p THEN Null ELSE p_posting[q]]
  BY <1>0 DEF Pool!Push, Pool!TypeOK
<1>3. /\ p_queues' \in [Workers -> Seq(Tasks)] /\ PlacesApart'
      /\ \A x \in Tasks : InQueue(x)' <=> InQueue(x) \/ x = k
  BY <1>0, <1>1, <1>2, Appended
<1>4. \A q \in Posters : q # p => p_posting[q] # k
  BY <1>0 DEF PoolInv, Apart, PostersApart
<1>5. Pool!TypeOK'
  <2>1. /\ p_posting' \in [Posters -> Tasks \cup {Null}]
        /\ p_first' \in [Posters -> Pool!Workers]
        /\ p_tried' \in [Posters -> 0 .. (Pool!LOOP_K * PoolSize)]
    BY <1>0, Bounds DEF Pool!TypeOK, Pool!Push
  <2>2. Workers' = Workers /\ Pool!Workers' = Pool!Workers
    BY DEF Workers, Pool!Workers
  <2> QED
    BY <1>0, <1>3, <2>1, <2>2 DEF Pool!TypeOK, Workers
<1> HIDE DEF k
<1>6. WorkersApart' /\ PostersApart'
  BY <1>2 DEF PoolInv, Apart, WorkersApart, PostersApart, Workers, Pool!Workers
<1>7. QueuedOnly'
  BY <1>0, <1>1, <1>2, <1>3, <1>4
     DEF PoolInv, Apart, QueuedOnly, Workers, Pool!Workers
<1>8. WorkedOnly' /\ PostedOnly'
  BY <1>2 DEF PoolInv, Apart, WorkedOnly, PostedOnly, Workers, Pool!Workers
<1> QED
  BY <1>3, <1>5, <1>6, <1>7, <1>8 DEF PoolInv, Apart

\* A pop takes the task from the queue to the worker, whichever of two pops of
\* that queue comes first.
LEMMA RunKept ==
    ASSUME PoolInv, NEW w \in Workers, NEW q \in Workers, Pool!Idle(w),
           Pool!Run(w, q)
    PROVE  PoolInv'
<1> DEFINE k == Head(p_queues[q])
<1>1. /\ p_queues[q] # <<>> /\ p_queues' = [p_queues EXCEPT ![q] = Tail(@)]
      /\ p_working' = [p_working EXCEPT ![w] = k]
      /\ p_looking' = [p_looking EXCEPT ![w] = 0]
      /\ UNCHANGED <<p_stealing, p_done, p_index, p_posting, p_first, p_tried>>
      /\ p_working[w] = Null
  BY DEF Pool!Run, Pool!Idle, Pool!posters
<1>2. /\ p_queues' \in [Workers -> Seq(Tasks)] /\ PlacesApart'
      /\ k \in Tasks /\ InQueue(k)
      /\ \A x \in Tasks : InQueue(x)' <=> InQueue(x) /\ x # k
  BY <1>1, Taken
<1>3. /\ k \notin p_done /\ \A v \in Workers : p_working[v] # k
      /\ \A p \in Posters : p_posting[p] # k
  BY <1>2 DEF PoolInv, Apart, QueuedOnly
<1> HIDE DEF k
<1>4. Pool!TypeOK'
  <2>1. /\ p_working' \in [Workers -> Tasks \cup {Null}]
        /\ p_looking' \in [Workers -> 0 .. PoolSize]
    BY <1>1, <1>2, Bounds DEF PoolInv, Pool!TypeOK, Workers
  <2>2. Workers' = Workers /\ Pool!Workers' = Pool!Workers
    BY DEF Workers, Pool!Workers
  <2> QED
    BY <1>1, <1>2, <2>1, <2>2 DEF PoolInv, Pool!TypeOK, Workers
<1>5. p_working' = [v \in Workers |-> IF v = w THEN k ELSE p_working[v]]
  BY <1>1 DEF PoolInv, Pool!TypeOK, Workers
<1>6. WorkersApart' /\ PostersApart'
  BY <1>1, <1>3, <1>5
     DEF PoolInv, Apart, WorkersApart, PostersApart, Workers, Pool!Workers
<1>7. QueuedOnly'
  BY <1>1, <1>2, <1>3, <1>5
     DEF PoolInv, Apart, QueuedOnly, Workers, Pool!Workers
<1>8. WorkedOnly' /\ PostedOnly'
  BY <1>1, <1>3, <1>5
     DEF PoolInv, Apart, WorkedOnly, PostedOnly, Workers, Pool!Workers
<1> QED
  BY <1>2, <1>4, <1>6, <1>7, <1>8 DEF PoolInv, Apart

\* A task that was not posted is put into the hands of a poster.
LEMMA PostKept ==
    ASSUME PoolInv, NEW p \in Posters, NEW k \in Tasks, Pool!Post(p, k)
    PROVE  PoolInv'
<1>0. Pool!TypeOK /\ k # Null
  BY PoolAssumption DEF PoolInv
<1>1. /\ ~InQueue(k) /\ k \notin p_done
      /\ \A w \in Workers : p_working[w] # k
      /\ \A q \in Posters : p_posting[q] # k
  BY Unposted DEF Pool!Post
<1>2. /\ p_posting' = [q \in Posters |-> IF q = p THEN k ELSE p_posting[q]]
      /\ p_posting[p] = Null
      /\ UNCHANGED <<p_queues, p_working, p_done>>
  BY <1>0 DEF Pool!Post, Pool!TypeOK, Pool!workers
<1>3. p_index' \in Pool!Workers
  BY <1>0, PoolAssumption DEF Pool!Post, Pool!TypeOK, Pool!Workers
<1>4. Pool!TypeOK'
  BY <1>0, <1>2, <1>3 DEF Pool!TypeOK, Pool!Post, Pool!workers, Pool!Workers
<1>5. PlacesApart' /\ WorkersApart'
  BY <1>2 DEF PoolInv, PlacesApart, Apart, WorkersApart, Workers, Pool!Workers
<1>6. PostersApart' /\ PostedOnly'
  BY <1>0, <1>1, <1>2 DEF PoolInv, Apart, PostersApart, PostedOnly
<1>7. QueuedOnly' /\ WorkedOnly'
  BY <1>0, <1>1, <1>2
     DEF PoolInv, Apart, QueuedOnly, WorkedOnly, InQueue, Workers, Pool!Workers
<1> QED
  BY <1>4, <1>5, <1>6, <1>7 DEF PoolInv, Apart

\* In the simple pool it is put into the queue at once.
LEMMA SimplePostKept ==
    ASSUME PoolInv, NEW k \in Tasks, Pool!SimplePost(k)
    PROVE  PoolInv'
<1>1. /\ ~InQueue(k) /\ k \notin p_done
      /\ \A w \in Workers : p_working[w] # k
      /\ \A q \in Posters : p_posting[q] # k
  BY Unposted DEF Pool!SimplePost
<1>2. /\ 0 \in Workers /\ p_queues' = [p_queues EXCEPT ![0] = Append(@, k)]
      /\ UNCHANGED <<p_stealing, p_index, p_working, p_looking, p_posting,
                     p_first, p_tried, p_done>>
  BY PoolAssumption
     DEF Pool!SimplePost, Pool!workers, Pool!posters, Workers, Pool!Workers
<1>3. /\ p_queues' \in [Workers -> Seq(Tasks)] /\ PlacesApart'
      /\ \A x \in Tasks : InQueue(x)' <=> InQueue(x) \/ x = k
  BY <1>1, <1>2, Appended
<1>4. Pool!TypeOK'
  BY <1>2, <1>3 DEF PoolInv, Pool!TypeOK, Workers, Pool!Workers
<1>5. WorkersApart' /\ PostersApart' /\ WorkedOnly' /\ PostedOnly'
  BY <1>2 DEF PoolInv, Apart, WorkersApart, PostersApart, WorkedOnly, PostedOnly,
              Workers, Pool!Workers
<1>6. QueuedOnly'
  BY <1>1, <1>2, <1>3 DEF PoolInv, Apart, QueuedOnly, Workers, Pool!Workers
<1> QED
  BY <1>3, <1>4, <1>5, <1>6 DEF PoolInv, Apart

\* A task that ends leaves its worker.
LEMMA FinishKept ==
    ASSUME PoolInv, NEW w \in Workers, Pool!Finish(w)
    PROVE  PoolInv'
<1> DEFINE k == p_working[w]
<1>1. k \in Tasks /\ k # Null
  BY DEF PoolInv, Pool!TypeOK, Pool!Finish, Pool!Idle, Workers
<1>2. /\ p_working' = [v \in Workers |-> IF v = w THEN Null ELSE p_working[v]]
      /\ p_done' = p_done \cup {k}
      /\ UNCHANGED <<p_stealing, p_queues, p_looking, p_index, p_posting, p_first,
                     p_tried>>
  BY DEF PoolInv, Pool!TypeOK, Pool!Finish, Pool!posters, Workers
<1>3. /\ ~InQueue(k)
      /\ \A v \in Workers : v # w => p_working[v] # k
      /\ \A p \in Posters : p_posting[p] # k
  BY <1>1 DEF PoolInv, Apart, QueuedOnly, WorkedOnly, WorkersApart
<1> HIDE DEF k
<1>4. Pool!TypeOK'
  BY <1>1, <1>2 DEF PoolInv, Pool!TypeOK, Workers, Pool!Workers
<1>5. PlacesApart' /\ WorkersApart' /\ PostersApart'
  BY <1>2 DEF PoolInv, PlacesApart, Apart, WorkersApart, PostersApart, Workers,
              Pool!Workers
<1>6. QueuedOnly'
  <2>1. \A x : InQueue(x)' <=> InQueue(x)
    BY <1>2 DEF InQueue, Workers, Pool!Workers
  <2> QED
    BY <1>1, <1>2, <1>3, <2>1 DEF PoolInv, Apart, QueuedOnly, Workers, Pool!Workers
<1>7. WorkedOnly' /\ PostedOnly'
  BY <1>2, <1>3 DEF PoolInv, Apart, WorkedOnly, PostedOnly, Workers, Pool!Workers
<1> QED
  BY <1>4, <1>5, <1>6, <1>7 DEF PoolInv, Apart

\* An attempt that fails only counts.
LEMMA FailKept ==
    ASSUME PoolInv, Pool!TypeOK',
           UNCHANGED <<p_queues, p_working, p_posting, p_done>>
    PROVE  PoolInv'
BY DEF PoolInv, PlacesApart, Apart, WorkersApart, PostersApart, QueuedOnly,
       WorkedOnly, PostedOnly, InQueue, Workers, Pool!Workers

\* Every step of the pools keeps each task in one place.
LEMMA PoolKept == PoolInv /\ [Pool!Next]_(Pool!vars) => PoolInv'
<1> SUFFICES ASSUME PoolInv, [Pool!Next]_(Pool!vars) PROVE PoolInv'
  OBVIOUS
<1>0. Pool!TypeOK /\ Workers = Pool!Workers /\ PoolSize \in Nat \ {0}
  BY PoolAssumption DEF PoolInv, Workers
<1>1. ASSUME NEW p \in Posters, Pool!TryPush(p) PROVE PoolInv'
  <2>1. p_first[p] + p_tried[p] \in Nat
    BY <1>0 DEF Pool!TypeOK, Pool!Workers
  <2>2. (p_first[p] + p_tried[p]) % PoolSize \in Workers
    BY <2>1, SomeQueue
  <2> QED
    BY <1>1, <2>2, PushKept DEF Pool!TryPush, Pool!workers
<1>2. ASSUME NEW p \in Posters, Pool!TryPushFails(p) PROVE PoolInv'
  <2>1. Pool!TypeOK'
    <3>1. p_tried[p] + 1 \in 0 .. (Pool!LOOP_K * PoolSize)
      BY <1>0, <1>2, Bounds DEF Pool!TryPushFails, Pool!TypeOK
    <3>2. p_tried' \in [Posters -> 0 .. (Pool!LOOP_K * PoolSize)]
      BY <1>0, <1>2, <3>1 DEF Pool!TryPushFails, Pool!TypeOK
    <3> QED
      BY <1>0, <1>2, <3>2 DEF Pool!TryPushFails, Pool!TypeOK, Pool!workers, Pool!Workers,
                              Pool!LOOP_K
  <2> QED
    BY <1>2, <2>1, FailKept DEF Pool!TryPushFails, Pool!workers
<1>3. ASSUME NEW p \in Posters, Pool!PushFirst(p) PROVE PoolInv'
  <2>1. p_first[p] \in Workers
    BY <1>0 DEF Pool!TypeOK
  <2> QED
    BY <1>3, <2>1, PushKept DEF Pool!PushFirst, Pool!workers
<1>4. ASSUME NEW p \in Posters, NEW k \in Tasks, Pool!Post(p, k) PROVE PoolInv'
  BY <1>4, PostKept
<1>5. ASSUME NEW k \in Tasks, Pool!SimplePost(k) PROVE PoolInv'
  BY <1>5, SimplePostKept
<1>6. ASSUME NEW w \in Workers, Pool!TryPop(w) PROVE PoolInv'
  <2>1. w + p_looking[w] \in Nat
    BY <1>0 DEF Pool!TypeOK, Pool!Workers
  <2>2. (w + p_looking[w]) % PoolSize \in Workers
    BY <2>1, SomeQueue
  <2> QED
    BY <1>6, <2>2, RunKept DEF Pool!TryPop
<1>7. ASSUME NEW w \in Workers, Pool!TryPopFails(w) PROVE PoolInv'
  <2>1. Pool!TypeOK'
    <3>1. p_looking[w] + 1 \in 0 .. PoolSize
      BY <1>0, <1>7 DEF Pool!TryPopFails, Pool!TypeOK
    <3>2. p_looking' \in [Workers -> 0 .. PoolSize]
      BY <1>0, <1>7, <3>1 DEF Pool!TryPopFails, Pool!TypeOK
    <3> QED
      BY <1>0, <1>7, <3>2 DEF Pool!TryPopFails, Pool!TypeOK, Pool!posters, Pool!Workers,
                              Pool!LOOP_K
  <2> QED
    BY <1>7, <2>1, FailKept DEF Pool!TryPopFails, Pool!posters
<1>8. ASSUME NEW w \in Workers, Pool!Pop(w) PROVE PoolInv'
  BY <1>8, RunKept DEF Pool!Pop
<1>9. ASSUME NEW w \in Workers, Pool!Finish(w) PROVE PoolInv'
  BY <1>9, FinishKept
<1>10. ASSUME NEW w \in Workers, Pool!SimplePop(w) PROVE PoolInv'
  <2>1. 0 \in Workers
    BY <1>0 DEF Pool!Workers
  <2> QED
    BY <1>10, <2>1, RunKept DEF Pool!SimplePop
<1>11. CASE UNCHANGED Pool!vars
  <2>1. Pool!TypeOK'
    BY <1>0, <1>11 DEF Pool!TypeOK, Pool!vars, Pool!workers, Pool!Workers
  <2> QED
    BY <1>11, <2>1, FailKept DEF Pool!vars
<1> QED
  BY <1>0, <1>1, <1>2, <1>3, <1>4, <1>5, <1>6, <1>7, <1>8, <1>9, <1>10, <1>11
     DEF Pool!Next, Pool!PosterStep, Pool!WorkerStep

------------------------------------------------------------------------------
\* Types, and a thread that was started is named by one object until it is
\* joined, and by at most one once it was detached; and a jthread that owns a
\* thread holds the stop source of that thread: however the objects are moved,
\* swapped, assigned and destroyed (stdlib/_thread.hpp, thread.hpp).
THEOREM ThreadsOwnedOnce == AllSpec => []Consistent
<1>1. AllInit => ThreadsInv /\ PoolInv
  BY ThreadsStart, PoolStart DEF AllInit
<1>2. ThreadsInv /\ PoolInv /\ [AllNext]_<<component, t_vars, p_vars>>
        => (ThreadsInv /\ PoolInv)'
  BY EachSteps, ThreadsKept, PoolKept
<1>3. ThreadsInv /\ PoolInv => Consistent
  BY OwnersCounted DEF Consistent, ThreadsInv, PoolInv
<1> QED
  BY <1>1, <1>2, <1>3, PTL DEF AllSpec

\* A task that was posted to a pool is in at most one place, and nowhere once it
\* has run: no attempt to push or to steal that fails, and no race of thieves,
\* makes it run twice (sync/thread_pool.hpp).
THEOREM TasksRunOnce == AllSpec => []TaskInOnePlace
<1>1. AllInit => PoolInv
  BY PoolStart DEF AllInit
<1>2. PoolInv /\ [AllNext]_<<component, t_vars, p_vars>> => PoolInv'
  BY EachSteps, PoolKept
<1> QED
  BY <1>1, <1>2, HoldersSafe, PTL DEF AllSpec
==============================================================================
