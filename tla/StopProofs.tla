----------------------------- MODULE StopProofs -----------------------------
(***************************************************************************)
(* What is proved of the stop state and of the objects that share states   *)
(* (stdlib/stop_token.hpp), for any threads, callbacks, objects and states: *)
(* the reference counts, that request_stop() never touches a callback that *)
(* is gone, and that it leaves none behind.                                *)
(***************************************************************************)
EXTENDS MCStop, FiniteSetTheorems, SequenceTheorems, TLAPS

USE ThreadsAssumption, CallbacksAssumption, HandlesAssumption

------------------------------------------------------------------------------
(* One stop state                                                          *)

Holding == {"pop", "push", "erase"}
Requesting == {"pop", "execute", "in_callback", "relock"}
Erasing == {"erase_lock", "erase", "erase_sync", "erase_deref"}

\* One thread at a time has the list locked, and none that registers a callback
\* has it once the stop is requested.
LockHeld ==
    /\ \A t \in Threads : pc[t] \in Holding => locked
    /\ \A t, u \in Threads : pc[t] \in Holding /\ pc[u] \in Holding => t = u
    /\ \A t \in Threads : pc[t] = "push" => ~stop_requested

\* One thread runs the callbacks, and the one that runs is that thread's: it is
\* about to run it, or inside it, perhaps to destroy a callback from there.
OneRequest ==
    /\ thread_id_ # NoThread => stop_requested
    /\ \A t \in Threads : pc[t] \in Requesting =>
        /\ stop_requested
        /\ thread_id_ # t => thread_id_ = NoThread /\ pc[t] = "pop"
    /\ \A t, u \in Threads : pc[t] \in Requesting /\ pc[u] \in Requesting => t = u
    /\ \A t \in Threads : pc[t] \in {"execute", "in_callback"} => current # NoCallback
    /\ \A t \in Threads : pc[t] \in {"pop", "relock"} => current = NoCallback
    /\ current # NoCallback =>
        /\ thread_id_ # NoThread
        /\ pc[thread_id_] \in {"execute", "in_callback"} \cup Erasing

\* A thread has a target while it registers or destroys it, and no other thread
\* has the same.
Targets ==
    /\ \A t \in Threads : target[t] # NoCallback <=> pc[t] \in {"push"} \cup Erasing
    /\ \A t \in Threads : pc[t] = "push" =>
        life[target[t]] = "constructing" /\ t \in holdsToken
    /\ \A t \in Threads : pc[t] \in Erasing => life[target[t]] = "destroying"
    /\ \A t, u \in Threads : target[t] # NoCallback /\ target[t] = target[u] => t = u

\* What is in the list is there to be run: it exists, and has neither run nor
\* been taken.  A destructor that found its callback taken does not meet it again.
Listed ==
    /\ \A c \in Callbacks : Contains(list, c) =>
        /\ life[c] \in {"alive", "destroying"}
        /\ c \notin finished /\ executions[c] = 0 /\ c # current
    /\ \A c \in Callbacks : life[c] \in {"none", "constructing"} =>
        c \notin finished /\ executions[c] = 0 /\ c # current
    /\ \A t \in Threads : pc[t] \in {"erase_sync", "erase_deref"} =>
        ~Contains(list, target[t])

\* The callback that runs is not finished, so that no other thread destroys it;
\* its own thread does, and then the request knows.
Running == current # NoCallback =>
    /\ current \notin finished
    /\ pc[thread_id_] = "execute" => executions[current] = 0 /\ life[current] # "gone"
    /\ pc[thread_id_] # "execute" => current \in is_removed_
    /\ life[current] = "gone" => removed
    /\ empty => list = <<>>
    /\ \A t \in Threads :
        pc[t] = "erase_deref" /\ target[t] = current => t = thread_id_ /\ removed

\* A source is counted for each thread at first, and one more for each that
\* destroyed its own.
SourcesCounted == sources = Cardinality(Threads) + Cardinality(Threads \ holdsSource)

StateInv == /\ TypeOK /\ LockHeld /\ OneRequest /\ Targets /\ Listed /\ Running
            /\ TokensCounted /\ SourcesCounted

------------------------------------------------------------------------------
(* The list                                                                *)

\* The first callback is taken off the list.
LEMMA TailOf ==
    ASSUME NEW s \in Seq(Callbacks), IsInjective(s), s # <<>>
    PROVE  /\ Head(s) \in Callbacks /\ Contains(s, Head(s))
           /\ Tail(s) \in Seq(Callbacks) /\ IsInjective(Tail(s))
           /\ \A c : Contains(Tail(s), c) <=> Contains(s, c) /\ c # Head(s)
<1>1. /\ Len(s) \in Nat \ {0} /\ Head(s) = s[1] /\ Head(s) \in Callbacks
      /\ Tail(s) \in Seq(Callbacks) /\ Len(Tail(s)) = Len(s) - 1
      /\ \A n \in 1 .. Len(s) - 1 : Tail(s)[n] = s[n + 1]
      /\ DOMAIN s = 1 .. Len(s) /\ DOMAIN Tail(s) = 1 .. Len(s) - 1
  OBVIOUS
<1>2. \A m, n \in 1 .. Len(s) : s[m] = s[n] => m = n
  BY <1>1 DEF IsInjective
<1>3. IsInjective(Tail(s))
  BY <1>1, <1>2 DEF IsInjective
<1>4. ASSUME NEW c, Contains(Tail(s), c) PROVE Contains(s, c) /\ c # Head(s)
  <2>1. PICK n \in 1 .. Len(s) - 1 : s[n + 1] = c
    BY <1>1, <1>4 DEF Contains
  <2>2. n + 1 \in 1 .. Len(s) /\ 1 \in 1 .. Len(s) /\ n + 1 # 1
    BY <1>1
  <2> QED
    BY <1>1, <1>2, <2>1, <2>2 DEF Contains
<1>5. ASSUME NEW c, Contains(s, c), c # Head(s) PROVE Contains(Tail(s), c)
  <2>1. PICK n \in 1 .. Len(s) : s[n] = c
    BY <1>5 DEF Contains
  <2>2. n - 1 \in 1 .. Len(s) - 1 /\ Tail(s)[n - 1] = c
    BY <1>1, <1>5, <2>1
  <2> QED
    BY <1>1, <2>2 DEF Contains
<1>6. Contains(s, Head(s))
  BY <1>1 DEF Contains
<1> QED
  BY <1>1, <1>3, <1>4, <1>5, <1>6

\* A callback is put in front.
LEMMA PutInFront ==
    ASSUME NEW s \in Seq(Callbacks), IsInjective(s),
           NEW c \in Callbacks, ~Contains(s, c)
    PROVE  /\ <<c>> \o s \in Seq(Callbacks) /\ IsInjective(<<c>> \o s)
           /\ \A d : Contains(<<c>> \o s, d) <=> Contains(s, d) \/ d = c
<1> DEFINE r == <<c>> \o s
<1>1. /\ Len(s) \in Nat /\ r \in Seq(Callbacks) /\ Len(r) = Len(s) + 1
      /\ r[1] = c /\ \A n \in 1 .. Len(s) : r[n + 1] = s[n]
      /\ DOMAIN s = 1 .. Len(s) /\ DOMAIN r = 1 .. Len(s) + 1
  OBVIOUS
<1> HIDE DEF r
<1>2. \A m, n \in 1 .. Len(s) : s[m] = s[n] => m = n
  BY <1>1 DEF IsInjective
<1>3. \A n \in 1 .. Len(s) + 1 : n # 1 =>
        n - 1 \in 1 .. Len(s) /\ r[n] = s[n - 1] /\ r[n] # c
  <2> SUFFICES ASSUME NEW n \in 1 .. Len(s) + 1, n # 1
               PROVE  n - 1 \in 1 .. Len(s) /\ r[n] = s[n - 1] /\ r[n] # c
    OBVIOUS
  <2>1. n - 1 \in 1 .. Len(s) /\ (n - 1) + 1 = n
    BY <1>1
  <2>2. r[n] = s[n - 1]
    BY <1>1, <2>1
  <2> QED
    BY <2>1, <2>2 DEF Contains
<1>4. IsInjective(r)
  <2> SUFFICES ASSUME NEW m \in 1 .. Len(s) + 1, NEW n \in 1 .. Len(s) + 1,
                      r[m] = r[n]
               PROVE  m = n
    BY <1>1 DEF IsInjective
  <2>1. m - 1 = n - 1 => m = n
    BY <1>1
  <2>2. CASE m = 1
    BY <1>1, <1>3, <2>2
  <2>3. CASE n = 1
    BY <1>1, <1>3, <2>3
  <2>4. CASE m # 1 /\ n # 1
    <3>1. /\ m - 1 \in 1 .. Len(s) /\ n - 1 \in 1 .. Len(s)
          /\ s[m - 1] = s[n - 1]
      BY <1>3, <2>4
    <3> QED
      BY <1>2, <2>1, <3>1
  <2> QED
    BY <2>2, <2>3, <2>4
<1>5. ASSUME NEW d, Contains(r, d) PROVE Contains(s, d) \/ d = c
  BY <1>1, <1>3, <1>5 DEF Contains
<1>6. ASSUME NEW d, Contains(s, d) PROVE Contains(r, d)
  <2>1. PICK n \in 1 .. Len(s) : s[n] = d
    BY <1>6 DEF Contains
  <2>2. n + 1 \in 1 .. Len(r) /\ r[n + 1] = d
    BY <1>1, <2>1
  <2> QED
    BY <2>2 DEF Contains
<1>7. Contains(r, c)
  BY <1>1 DEF Contains
<1> QED
  BY <1>1, <1>4, <1>5, <1>6, <1>7 DEF r

\* A callback is unlinked, wherever it is.
LEMMA Unlinked ==
    ASSUME NEW s \in Seq(Callbacks), IsInjective(s), NEW i \in 1 .. Len(s)
    PROVE  /\ RemoveAt(s, i) \in Seq(Callbacks) /\ IsInjective(RemoveAt(s, i))
           /\ \A c : Contains(RemoveAt(s, i), c) <=> Contains(s, c) /\ c # s[i]
           /\ s[i] \in Callbacks /\ Contains(s, s[i])
<1> DEFINE r == RemoveAt(s, i)
           Was(n) == IF n < i THEN n ELSE n + 1
<1>0. /\ Len(s) \in Nat /\ i \in Nat /\ i # 0 /\ i <= Len(s)
      /\ DOMAIN s = 1 .. Len(s)
  OBVIOUS
<1>1. /\ r \in Seq(Callbacks) /\ Len(r) = Len(s) - 1 /\ DOMAIN r = 1 .. Len(s) - 1
      /\ \A n \in 1 .. Len(s) - 1 : r[n] = s[Was(n)]
  <2> DEFINE a == SubSeq(s, 1, i - 1)
             b == SubSeq(s, i + 1, Len(s))
  <2>1. /\ a \in Seq(Callbacks) /\ Len(a) = i - 1
        /\ \A n \in 1 .. i - 1 : a[n] = s[n]
    BY <1>0
  <2>2. /\ b \in Seq(Callbacks) /\ Len(b) = Len(s) - i
        /\ \A n \in 1 .. Len(s) - i : b[n] = s[i + n]
    <3>1. i + 1 \in Int /\ Len(s) \in Int /\ \A n \in i + 1 .. Len(s) : s[n] \in Callbacks
      BY <1>0
    <3>2. /\ b \in Seq(Callbacks)
          /\ Len(b) = IF i + 1 <= Len(s) THEN Len(s) - (i + 1) + 1 ELSE 0
          /\ \A n \in 1 .. Len(s) - (i + 1) + 1 : b[n] = s[(i + 1) + n - 1]
      BY <3>1, SubSeqProperties
    <3> HIDE DEF b
    <3>3. i + 1 <= Len(s) => Len(s) - (i + 1) + 1 = Len(s) - i
      BY <1>0
    <3>4. i + 1 <= Len(s) \/ Len(s) - i = 0
      <4>1. i \in Int /\ Len(s) \in Int /\ i <= Len(s)
        BY <1>0
      <4>2. \A m, n \in Int : m <= n => m + 1 <= n \/ n - m = 0
        OBVIOUS
      <4> QED
        BY <4>1, <4>2
    <3>5. Len(b) = Len(s) - i
      BY <3>2, <3>3, <3>4
    <3>6. ASSUME NEW n \in 1 .. Len(s) - i PROVE b[n] = s[i + n]
      <4>1. n \in 1 .. Len(s) - (i + 1) + 1 /\ (i + 1) + n - 1 = i + n
        BY <1>0
      <4> QED
        BY <3>2, <4>1
    <3> QED
      BY <3>2, <3>5, <3>6
  <2>3. r = a \o b
    BY DEF RemoveAt
  <2> HIDE DEF a, b, r
  <2>4. /\ a \o b \in Seq(Callbacks) /\ Len(a \o b) = Len(s) - 1
        /\ \A n \in 1 .. Len(s) - 1 :
            (a \o b)[n] = IF n < i THEN a[n] ELSE b[n - (i - 1)]
    <3>0. a \in Seq(Callbacks) /\ b \in Seq(Callbacks)
      BY <2>1, <2>2
    <3>1. /\ a \o b \in Seq(Callbacks) /\ Len(a \o b) = Len(a) + Len(b)
          /\ \A n \in 1 .. Len(a) + Len(b) :
                (a \o b)[n] = IF n <= Len(a) THEN a[n] ELSE b[n - Len(a)]
      BY <3>0, ConcatProperties
    <3>2. Len(a) + Len(b) = Len(s) - 1 /\ \A n \in Nat : n <= i - 1 <=> n < i
      BY <1>0, <2>1, <2>2
    <3> QED
      BY <2>1, <3>1, <3>2
  <2>5. ASSUME NEW n \in 1 .. Len(s) - 1 PROVE r[n] = s[Was(n)]
    <3>1. CASE n < i
      BY <3>1, <2>1, <2>3, <2>4, <1>0
    <3>2. CASE ~(n < i)
      <4>1. n - (i - 1) \in 1 .. Len(s) - i /\ i + (n - (i - 1)) = n + 1
        BY <3>2, <1>0
      <4> QED
        BY <3>2, <4>1, <2>2, <2>3, <2>4
    <3> QED
      BY <3>1, <3>2
  <2>6. DOMAIN r = 1 .. Len(s) - 1
    BY <2>3, <2>4
  <2> QED
    BY <2>3, <2>4, <2>5, <2>6
<1> HIDE DEF r
<1>2. \A n \in 1 .. Len(s) - 1 : Was(n) \in 1 .. Len(s) /\ Was(n) # i
  BY <1>0
<1>3. \A m, n \in 1 .. Len(s) - 1 : Was(m) = Was(n) => m = n
  BY <1>0
<1>4. \A m \in 1 .. Len(s) : m # i => \E n \in 1 .. Len(s) - 1 : Was(n) = m
  <2> SUFFICES ASSUME NEW m \in 1 .. Len(s), m # i
               PROVE  \E n \in 1 .. Len(s) - 1 : Was(n) = m
    OBVIOUS
  <2>1. CASE m < i
    BY <2>1, <1>0
  <2>2. CASE m > i
    <3>1. m - 1 \in 1 .. Len(s) - 1 /\ Was(m - 1) = m
      BY <2>2, <1>0
    <3> QED
      BY <3>1
  <2> QED
    BY <2>1, <2>2, <1>0
<1> HIDE DEF Was
<1>5. \A m, n \in 1 .. Len(s) : s[m] = s[n] => m = n
  BY <1>0 DEF IsInjective
<1>6. IsInjective(r)
  BY <1>1, <1>2, <1>3, <1>5 DEF IsInjective
<1>7. \A c : Contains(r, c) <=> Contains(s, c) /\ c # s[i]
  <2>1. ASSUME NEW c, Contains(r, c) PROVE Contains(s, c) /\ c # s[i]
    BY <1>0, <1>1, <1>2, <1>5, <2>1 DEF Contains
  <2>2. ASSUME NEW c, Contains(s, c), c # s[i] PROVE Contains(r, c)
    <3>1. PICK m \in 1 .. Len(s) : s[m] = c
      BY <2>2 DEF Contains
    <3>2. PICK n \in 1 .. Len(s) - 1 : Was(n) = m
      BY <1>4, <3>1, <2>2
    <3> QED
      BY <1>1, <3>1, <3>2 DEF Contains
  <2> QED
    BY <2>1, <2>2
<1>8. s[i] \in Callbacks /\ Contains(s, s[i])
  BY DEF Contains
<1> QED
  BY <1>1, <1>6, <1>7, <1>8 DEF r

------------------------------------------------------------------------------
(* The counts                                                              *)

\* The callbacks that are counted with the tokens.
Registered == {c \in Callbacks : life[c] \in {"alive", "destroying"}}

\* An element more, or less, in a finite set.
LEMMA OneMore ==
    ASSUME NEW S, NEW U, IsFiniteSet(U), S \subseteq U
    PROVE  /\ Cardinality(S) \in Nat /\ Cardinality(S) <= Cardinality(U)
           /\ \A x : x \notin S => Cardinality(S \cup {x}) = Cardinality(S) + 1
           /\ \A x \in S : Cardinality(S \ {x}) = Cardinality(S) - 1
<1>1. IsFiniteSet(S) /\ Cardinality(S) <= Cardinality(U)
  BY FS_Subset
<1>2. Cardinality(S) \in Nat
  BY <1>1, FS_CardinalityType
<1>3. \A x : x \notin S => Cardinality(S \cup {x}) = Cardinality(S) + 1
  BY <1>1, FS_AddElement
<1>4. \A x \in S : Cardinality(S \ {x}) = Cardinality(S) - 1
  BY <1>1, FS_RemoveElement
<1> QED
  BY <1>1, <1>2, <1>3, <1>4

\* A token or a registered callback more, or less, is one reference more or less.
LEMMA TokensCount ==
    /\ TokensCounted <=> tokens = Cardinality(holdsToken) + Cardinality(Registered)
    /\ TokensCounted' <=> tokens' = Cardinality(holdsToken') + Cardinality(Registered')
    /\ holdsToken \subseteq Threads =>
        /\ Cardinality(holdsToken) \in Nat
        /\ \A t : t \notin holdsToken =>
            Cardinality(holdsToken \cup {t}) = Cardinality(holdsToken) + 1
        /\ \A t \in holdsToken :
            Cardinality(holdsToken \ {t}) = Cardinality(holdsToken) - 1
    /\ Cardinality(Registered) \in Nat
    /\ \A c : c \notin Registered =>
        Cardinality(Registered \cup {c}) = Cardinality(Registered) + 1
    /\ \A c \in Registered : Cardinality(Registered \ {c}) = Cardinality(Registered) - 1
<1>1. Registered \subseteq Callbacks
  BY DEF Registered
<1> QED
  BY <1>1, OneMore DEF TokensCounted, Registered

\* A source that is destroyed counts one more.
LEMMA SourcesCount ==
    ASSUME holdsSource \subseteq Threads, NEW t \in holdsSource, SourcesCounted,
           holdsSource' = holdsSource \ {t}, sources' = sources + 1
    PROVE  SourcesCounted'
<1> DEFINE S == Threads \ holdsSource
<1>1. S \subseteq Threads /\ t \notin S /\ Threads \ holdsSource' = S \cup {t}
  OBVIOUS
<1>2. Cardinality(Threads) \in Nat /\ Cardinality(S) \in Nat
  BY <1>1, OneMore
<1>3. Cardinality(S \cup {t}) = Cardinality(S) + 1
  BY <1>1, OneMore
<1>4. Cardinality(Threads \ holdsSource') = Cardinality(Threads \ holdsSource) + 1
  BY <1>1, <1>3
<1>5. sources = Cardinality(Threads) + Cardinality(Threads \ holdsSource)
  BY DEF SourcesCounted
<1>6. sources' = Cardinality(Threads) + Cardinality(Threads \ holdsSource')
  <2> HIDE DEF S
  <2> QED
    BY <1>2, <1>4, <1>5 DEF S
<1> QED
  BY <1>6 DEF SourcesCounted

\* So the counts have their bounds.
LEMMA CountsBounded ==
    ASSUME holdsSource' \subseteq Threads, holdsToken' \subseteq Threads,
           TokensCounted', SourcesCounted'
    PROVE  /\ tokens' \in 0 .. Cardinality(Threads) + Cardinality(Callbacks)
           /\ sources' \in 1 .. 2 * Cardinality(Threads)
<1>1. Registered' \subseteq Callbacks
  BY DEF Registered
<1>2. /\ Cardinality(holdsToken') \in Nat
      /\ Cardinality(holdsToken') <= Cardinality(Threads)
  BY OneMore
<1>3. /\ Cardinality(Registered') \in Nat
      /\ Cardinality(Registered') <= Cardinality(Callbacks)
  BY <1>1, OneMore
<1>4. /\ Cardinality(Threads \ holdsSource') \in Nat
      /\ Cardinality(Threads \ holdsSource') <= Cardinality(Threads)
  BY OneMore
<1>5. Cardinality(Threads) \in Nat \ {0} /\ Cardinality(Callbacks) \in Nat
  BY FS_CardinalityType, FS_EmptySet
<1>6. tokens' = Cardinality(holdsToken') + Cardinality(Registered')
  BY TokensCount
<1> QED
  BY <1>2, <1>3, <1>4, <1>5, <1>6 DEF SourcesCounted

\* At first every thread has a source and nothing else.
LEMMA StateStart == Init => StateInv
<1> SUFFICES ASSUME Init PROVE StateInv
  OBVIOUS
<1>1. /\ pc = [t \in Threads |-> "idle"] /\ target = [t \in Threads |-> NoCallback]
      /\ life = [c \in Callbacks |-> "none"] /\ executions = [c \in Callbacks |-> 0]
      /\ thread_id_ = NoThread /\ current = NoCallback /\ list = <<>> /\ finished = {}
      /\ holdsSource = Threads /\ holdsToken = {} /\ tokens = 0
      /\ sources = Cardinality(Threads)
  BY DEF Init
<1>2. \A c : ~Contains(list, c)
  BY <1>1 DEF Contains
<1>3. LockHeld /\ OneRequest /\ Targets /\ Listed /\ Running
  BY <1>1, <1>2 DEF LockHeld, OneRequest, Targets, Listed, Running, Holding,
                    Requesting, Erasing
<1>4. Cardinality(Threads) \in Nat \ {0} /\ Cardinality(Callbacks) \in Nat
  BY FS_CardinalityType, FS_EmptySet
<1>5. TokensCounted
  <2>1. Registered = {}
    BY <1>1 DEF Registered
  <2> QED
    BY <1>1, <2>1, TokensCount, FS_EmptySet
<1>6. SourcesCounted
  <2>1. Threads \ holdsSource = {}
    BY <1>1
  <2>2. Cardinality(Threads \ holdsSource) = 0
    BY <2>1, FS_EmptySet
  <2> QED
    BY <1>1, <1>4, <2>2 DEF SourcesCounted
<1>7. list \in Seq(Callbacks) /\ IsInjective(list)
  BY <1>1 DEF IsInjective
<1>8. /\ tokens \in 0 .. Cardinality(Threads) + Cardinality(Callbacks)
      /\ sources \in 1 .. 2 * Cardinality(Threads)
  BY <1>1, <1>4
<1>9. /\ executions \in [Callbacks -> 0 .. 1] /\ pc \in [Threads -> Labels]
      /\ life \in [Callbacks -> {"none", "constructing", "alive", "destroying", "gone"}]
      /\ target \in [Threads -> Callbacks \cup {NoCallback}]
  BY <1>1 DEF Labels
<1>10. TypeOK
  BY <1>1, <1>7, <1>8, <1>9 DEF Init, TypeOK
<1> QED
  BY <1>3, <1>5, <1>6, <1>10 DEF StateInv

------------------------------------------------------------------------------
(* The steps of the state                                                  *)

\* A token more.
LEMMA GetTokenKept ==
    ASSUME StateInv, NEW t \in Threads, GetToken(t)
    PROVE  StateInv'
<1>0. /\ TypeOK /\ LockHeld /\ OneRequest /\ Targets /\ Listed /\ Running
      /\ TokensCounted /\ SourcesCounted
  BY DEF StateInv
<1>1. /\ pc[t] = "idle"
      /\ t \notin holdsToken
  BY <1>0 DEF GetToken, Goto, Live, TypeOK, Labels, Erasing, Requesting
<1>2. /\ tokens' = tokens + 1
      /\ holdsToken' = holdsToken \cup {t}
      /\ UNCHANGED <<stop_requested, locked, sources, thread_id_, current, empty,
                     removed, list, is_removed_, finished, executions, life,
                     holdsSource, pc, target>>
  BY <1>0, <1>1 DEF GetToken, TypeOK, Goto, Live, Aim, Caller, word, request, nodes, callers
<1>3. LockHeld'
  BY <1>0, <1>1, <1>2 DEF LockHeld, Holding
<1>4. OneRequest'
  BY <1>0, <1>1, <1>2 DEF OneRequest, Requesting, Erasing
<1>5. Targets'
  BY <1>0, <1>1, <1>2 DEF Targets, Erasing
<1>6. Listed'
  BY <1>0, <1>1, <1>2 DEF Listed
<1>7. Running'
  BY <1>0, <1>1, <1>2 DEF Running, TypeOK
<1>8. TokensCounted'
  <2>1. Registered' = Registered
    BY <1>1, <1>2 DEF Registered
  <2> QED
    BY <1>0, <1>1, <1>2, <2>1, TokensCount DEF TypeOK
<1>9. SourcesCounted'
  BY <1>0, <1>2 DEF SourcesCounted
<1>10. TypeOK'
  <2>1. holdsSource' \subseteq Threads /\ holdsToken' \subseteq Threads
    BY <1>0, <1>2 DEF TypeOK
  <2>2. /\ tokens' \in 0 .. Cardinality(Threads) + Cardinality(Callbacks)
        /\ sources' \in 1 .. 2 * Cardinality(Threads)
    BY <2>1, <1>8, <1>9, CountsBounded
  <2> QED
    BY <1>0, <1>1, <1>2, <2>1, <2>2 DEF TypeOK, Labels
<1> QED
  BY <1>3, <1>4, <1>5, <1>6, <1>7, <1>8, <1>9, <1>10 DEF StateInv

\* A token less.
LEMMA DestroyTokenKept ==
    ASSUME StateInv, NEW t \in Threads, DestroyToken(t)
    PROVE  StateInv'
<1>0. /\ TypeOK /\ LockHeld /\ OneRequest /\ Targets /\ Listed /\ Running
      /\ TokensCounted /\ SourcesCounted
  BY DEF StateInv
<1>1. /\ pc[t] = "idle"
      /\ t \in holdsToken
  BY <1>0 DEF DestroyToken, Goto, Live, TypeOK, Labels, Erasing, Requesting
<1>2. /\ tokens' = tokens - 1
      /\ holdsToken' = holdsToken \ {t}
      /\ UNCHANGED <<stop_requested, locked, sources, thread_id_, current, empty,
                     removed, list, is_removed_, finished, executions, life,
                     holdsSource, pc, target>>
  BY <1>0, <1>1 DEF DestroyToken, TypeOK, Goto, Live, Aim, Caller, word, request, nodes, callers
<1>3. LockHeld'
  BY <1>0, <1>1, <1>2 DEF LockHeld, Holding
<1>4. OneRequest'
  BY <1>0, <1>1, <1>2 DEF OneRequest, Requesting, Erasing
<1>5. Targets'
  BY <1>0, <1>1, <1>2 DEF Targets, Erasing
<1>6. Listed'
  BY <1>0, <1>1, <1>2 DEF Listed
<1>7. Running'
  BY <1>0, <1>1, <1>2 DEF Running, TypeOK
<1>8. TokensCounted'
  <2>1. Registered' = Registered
    BY <1>1, <1>2 DEF Registered
  <2> QED
    BY <1>0, <1>1, <1>2, <2>1, TokensCount DEF TypeOK
<1>9. SourcesCounted'
  BY <1>0, <1>2 DEF SourcesCounted
<1>10. TypeOK'
  <2>1. holdsSource' \subseteq Threads /\ holdsToken' \subseteq Threads
    BY <1>0, <1>2 DEF TypeOK
  <2>2. /\ tokens' \in 0 .. Cardinality(Threads) + Cardinality(Callbacks)
        /\ sources' \in 1 .. 2 * Cardinality(Threads)
    BY <2>1, <1>8, <1>9, CountsBounded
  <2> QED
    BY <1>0, <1>1, <1>2, <2>1, <2>2 DEF TypeOK, Labels
<1> QED
  BY <1>3, <1>4, <1>5, <1>6, <1>7, <1>8, <1>9, <1>10 DEF StateInv

\* A source more, as its destructor counts.
LEMMA DestroySourceKept ==
    ASSUME StateInv, NEW t \in Threads, DestroySource(t)
    PROVE  StateInv'
<1>0. /\ TypeOK /\ LockHeld /\ OneRequest /\ Targets /\ Listed /\ Running
      /\ TokensCounted /\ SourcesCounted
  BY DEF StateInv
<1>1. /\ pc[t] = "idle"
      /\ t \in holdsSource
  BY <1>0 DEF DestroySource, Goto, Live, TypeOK, Labels, Erasing, Requesting
<1>2. /\ sources' = sources + 1
      /\ holdsSource' = holdsSource \ {t}
      /\ UNCHANGED <<stop_requested, locked, tokens, thread_id_, current, empty,
                     removed, list, is_removed_, finished, executions, life,
                     holdsToken, pc, target>>
  BY <1>0, <1>1 DEF DestroySource, TypeOK, Goto, Live, Aim, Caller, word, request, nodes, callers
<1>3. LockHeld'
  BY <1>0, <1>1, <1>2 DEF LockHeld, Holding
<1>4. OneRequest'
  BY <1>0, <1>1, <1>2 DEF OneRequest, Requesting, Erasing
<1>5. Targets'
  BY <1>0, <1>1, <1>2 DEF Targets, Erasing
<1>6. Listed'
  BY <1>0, <1>1, <1>2 DEF Listed
<1>7. Running'
  BY <1>0, <1>1, <1>2 DEF Running, TypeOK
<1>8. TokensCounted'
  BY <1>0, <1>2 DEF TokensCounted
<1>9. SourcesCounted'
  BY <1>0, <1>1, <1>2, SourcesCount DEF TypeOK
<1>10. TypeOK'
  <2>1. holdsSource' \subseteq Threads /\ holdsToken' \subseteq Threads
    BY <1>0, <1>2 DEF TypeOK
  <2>2. /\ tokens' \in 0 .. Cardinality(Threads) + Cardinality(Callbacks)
        /\ sources' \in 1 .. 2 * Cardinality(Threads)
    BY <2>1, <1>8, <1>9, CountsBounded
  <2> QED
    BY <1>0, <1>1, <1>2, <2>1, <2>2 DEF TypeOK, Labels
<1> QED
  BY <1>3, <1>4, <1>5, <1>6, <1>7, <1>8, <1>9, <1>10 DEF StateInv

\* The stop is requested, once.
LEMMA RequestStopKept ==
    ASSUME StateInv, NEW t \in Threads, RequestStop(t)
    PROVE  StateInv'
<1>0. /\ TypeOK /\ LockHeld /\ OneRequest /\ Targets /\ Listed /\ Running
      /\ TokensCounted /\ SourcesCounted
  BY DEF StateInv
<1>1. /\ pc[t] = "idle"
      /\ ~stop_requested
      /\ ~locked
  BY <1>0 DEF RequestStop, Goto, Live, TypeOK, Labels, Erasing, Requesting
<1>2. /\ stop_requested' = TRUE
      /\ locked' = TRUE
      /\ pc' = [u \in Threads |-> IF u = t THEN "pop" ELSE pc[u]]
      /\ UNCHANGED <<tokens, sources, thread_id_, current, empty, removed, list,
                     is_removed_, finished, executions, life, holdsSource,
                     holdsToken, target>>
  BY <1>0, <1>1 DEF RequestStop, TypeOK, Goto, Live, Aim, Caller, word, request, nodes, callers
<1>3. LockHeld'
  BY <1>0, <1>1, <1>2 DEF LockHeld, Holding
<1>4. OneRequest'
  BY <1>0, <1>1, <1>2 DEF OneRequest, LockHeld, Requesting, Erasing, Holding
<1>5. Targets'
  BY <1>0, <1>1, <1>2 DEF Targets, Erasing
<1>6. Listed'
  BY <1>0, <1>1, <1>2 DEF Listed
<1>7. Running'
  BY <1>0, <1>1, <1>2 DEF Running, OneRequest, Requesting, Erasing, TypeOK
<1>8. TokensCounted'
  BY <1>0, <1>2 DEF TokensCounted
<1>9. SourcesCounted'
  BY <1>0, <1>2 DEF SourcesCounted
<1>10. TypeOK'
  <2>1. holdsSource' \subseteq Threads /\ holdsToken' \subseteq Threads
    BY <1>0, <1>2 DEF TypeOK
  <2>2. /\ tokens' \in 0 .. Cardinality(Threads) + Cardinality(Callbacks)
        /\ sources' \in 1 .. 2 * Cardinality(Threads)
    BY <2>1, <1>8, <1>9, CountsBounded
  <2> QED
    BY <1>0, <1>1, <1>2, <2>1, <2>2 DEF TypeOK, Labels
<1> QED
  BY <1>3, <1>4, <1>5, <1>6, <1>7, <1>8, <1>9, <1>10 DEF StateInv

\* The callback begins; its thread has taken it and nobody else has.
LEMMA ExecuteKept ==
    ASSUME StateInv, NEW t \in Threads, Execute(t)
    PROVE  StateInv'
<1>0. /\ TypeOK /\ LockHeld /\ OneRequest /\ Targets /\ Listed /\ Running
      /\ TokensCounted /\ SourcesCounted
  BY DEF StateInv
<1>1. /\ pc[t] = "execute"
      /\ current # NoCallback
      /\ thread_id_ = t
      /\ executions[current] = 0
      /\ current \in Callbacks
  BY <1>0 DEF Execute, OneRequest, Running, Goto, Live, TypeOK, Labels, Erasing, Requesting
<1>2. /\ removed' = FALSE
      /\ is_removed_' = is_removed_ \cup {current}
      /\ executions' = [x \in Callbacks |-> IF x = current THEN executions[x] + 1 ELSE executions[x]]
      /\ pc' = [u \in Threads |-> IF u = t THEN "in_callback" ELSE pc[u]]
      /\ UNCHANGED <<stop_requested, locked, tokens, sources, thread_id_,
                     current, empty, list, finished, life, holdsSource,
                     holdsToken, target>>
  BY <1>0, <1>1 DEF Execute, TypeOK, Goto, Live, Aim, Caller, word, request, nodes, callers
<1>3. LockHeld'
  BY <1>0, <1>1, <1>2 DEF LockHeld, Holding
<1>4. OneRequest'
  BY <1>0, <1>1, <1>2 DEF OneRequest, Requesting, Erasing
<1>5. Targets'
  BY <1>0, <1>1, <1>2 DEF Targets, Erasing
<1>6. Listed'
  BY <1>0, <1>1, <1>2 DEF Listed
<1>7. Running'
  BY <1>0, <1>1, <1>2 DEF Running, OneRequest, Requesting, Erasing, TypeOK
<1>8. TokensCounted'
  BY <1>0, <1>2 DEF TokensCounted
<1>9. SourcesCounted'
  BY <1>0, <1>2 DEF SourcesCounted
<1>10. TypeOK'
  <2>1. holdsSource' \subseteq Threads /\ holdsToken' \subseteq Threads
    BY <1>0, <1>2 DEF TypeOK
  <2>2. /\ tokens' \in 0 .. Cardinality(Threads) + Cardinality(Callbacks)
        /\ sources' \in 1 .. 2 * Cardinality(Threads)
    BY <2>1, <1>8, <1>9, CountsBounded
  <2>3. executions' \in [Callbacks -> 0 .. 1]
    BY <1>0, <1>1, <1>2 DEF TypeOK
  <2> QED
    BY <1>0, <1>1, <1>2, <2>1, <2>2, <2>3 DEF TypeOK, Labels
<1> QED
  BY <1>3, <1>4, <1>5, <1>6, <1>7, <1>8, <1>9, <1>10 DEF StateInv

\* The thread that runs the callbacks locks the list again.
LEMMA RelockKept ==
    ASSUME StateInv, NEW t \in Threads, Relock(t)
    PROVE  StateInv'
<1>0. /\ TypeOK /\ LockHeld /\ OneRequest /\ Targets /\ Listed /\ Running
      /\ TokensCounted /\ SourcesCounted
  BY DEF StateInv
<1>1. /\ pc[t] = "relock"
      /\ ~locked
  BY <1>0 DEF Relock, Goto, Live, TypeOK, Labels, Erasing, Requesting
<1>2. /\ locked' = TRUE
      /\ pc' = [u \in Threads |-> IF u = t THEN "pop" ELSE pc[u]]
      /\ UNCHANGED <<stop_requested, tokens, sources, thread_id_, current, empty,
                     removed, list, is_removed_, finished, executions, life,
                     holdsSource, holdsToken, target>>
  BY <1>0, <1>1 DEF Relock, TypeOK, Goto, Live, Aim, Caller, word, request, nodes, callers
<1>3. LockHeld'
  BY <1>0, <1>1, <1>2 DEF LockHeld, Holding
<1>4. OneRequest'
  BY <1>0, <1>1, <1>2 DEF OneRequest, Requesting, Erasing
<1>5. Targets'
  BY <1>0, <1>1, <1>2 DEF Targets, Erasing
<1>6. Listed'
  BY <1>0, <1>1, <1>2 DEF Listed
<1>7. Running'
  BY <1>0, <1>1, <1>2 DEF Running, OneRequest, Requesting, Erasing, TypeOK
<1>8. TokensCounted'
  BY <1>0, <1>2 DEF TokensCounted
<1>9. SourcesCounted'
  BY <1>0, <1>2 DEF SourcesCounted
<1>10. TypeOK'
  <2>1. holdsSource' \subseteq Threads /\ holdsToken' \subseteq Threads
    BY <1>0, <1>2 DEF TypeOK
  <2>2. /\ tokens' \in 0 .. Cardinality(Threads) + Cardinality(Callbacks)
        /\ sources' \in 1 .. 2 * Cardinality(Threads)
    BY <2>1, <1>8, <1>9, CountsBounded
  <2> QED
    BY <1>0, <1>1, <1>2, <2>1, <2>2 DEF TypeOK, Labels
<1> QED
  BY <1>3, <1>4, <1>5, <1>6, <1>7, <1>8, <1>9, <1>10 DEF StateInv

\* A callback that comes too late runs and is registered nowhere.
LEMMA RegisterLateKept ==
    ASSUME StateInv, NEW t \in Threads, NEW c \in Callbacks, RegisterLate(t, c)
    PROVE  StateInv'
<1>0. /\ TypeOK /\ LockHeld /\ OneRequest /\ Targets /\ Listed /\ Running
      /\ TokensCounted /\ SourcesCounted
  BY DEF StateInv
<1>1. /\ pc[t] = "idle"
      /\ life[c] = "none"
      /\ executions[c] = 0
  BY <1>0 DEF RegisterLate, Listed, Goto, Live, TypeOK, Labels, Erasing, Requesting
<1>2. /\ executions' = [x \in Callbacks |-> IF x = c THEN executions[x] + 1 ELSE executions[x]]
      /\ life' = [x \in Callbacks |-> IF x = c THEN "gone" ELSE life[x]]
      /\ UNCHANGED <<stop_requested, locked, tokens, sources, thread_id_,
                     current, empty, removed, list, is_removed_, finished,
                     holdsSource, holdsToken, pc, target>>
  BY <1>0, <1>1 DEF RegisterLate, TypeOK, Goto, Live, Aim, Caller, word, request, nodes, callers
<1>3. LockHeld'
  BY <1>0, <1>1, <1>2 DEF LockHeld, Holding
<1>4. OneRequest'
  BY <1>0, <1>1, <1>2 DEF OneRequest, Requesting, Erasing
<1>5. Targets'
  <2>1. \A u \in Threads : pc[u] \in {"push"} \cup Erasing =>
          target[u] \in Callbacks /\ target[u] # c
    BY <1>0, <1>1 DEF TypeOK, Targets, Erasing
  <2> QED
    BY <1>0, <1>1, <1>2, <2>1 DEF Targets, Erasing
<1>6. Listed'
  BY <1>0, <1>1, <1>2 DEF Listed
<1>7. Running'
  BY <1>0, <1>1, <1>2 DEF Running, Listed, TypeOK
<1>8. TokensCounted'
  <2>1. Registered' = Registered
    BY <1>1, <1>2 DEF Registered
  <2> QED
    BY <1>0, <1>1, <1>2, <2>1, TokensCount DEF TypeOK
<1>9. SourcesCounted'
  BY <1>0, <1>2 DEF SourcesCounted
<1>10. TypeOK'
  <2>1. holdsSource' \subseteq Threads /\ holdsToken' \subseteq Threads
    BY <1>0, <1>2 DEF TypeOK
  <2>2. /\ tokens' \in 0 .. Cardinality(Threads) + Cardinality(Callbacks)
        /\ sources' \in 1 .. 2 * Cardinality(Threads)
    BY <2>1, <1>8, <1>9, CountsBounded
  <2>3. executions' \in [Callbacks -> 0 .. 1]
    BY <1>0, <1>1, <1>2 DEF TypeOK
  <2> QED
    BY <1>0, <1>1, <1>2, <2>1, <2>2, <2>3 DEF TypeOK, Labels
<1> QED
  BY <1>3, <1>4, <1>5, <1>6, <1>7, <1>8, <1>9, <1>10 DEF StateInv

\* A registration locks the list, before any request.
LEMMA RegisterKept ==
    ASSUME StateInv, NEW t \in Threads, NEW c \in Callbacks, Register(t, c)
    PROVE  StateInv'
<1>0. /\ TypeOK /\ LockHeld /\ OneRequest /\ Targets /\ Listed /\ Running
      /\ TokensCounted /\ SourcesCounted
  BY DEF StateInv
<1>1. /\ pc[t] = "idle"
      /\ life[c] = "none"
      /\ ~stop_requested
      /\ ~locked
      /\ t \in holdsToken
  BY <1>0 DEF Register, Goto, Live, TypeOK, Labels, Erasing, Requesting
<1>2. /\ locked' = TRUE
      /\ pc' = [u \in Threads |-> IF u = t THEN "push" ELSE pc[u]]
      /\ life' = [x \in Callbacks |-> IF x = c THEN "constructing" ELSE life[x]]
      /\ target' = [u \in Threads |-> IF u = t THEN c ELSE target[u]]
      /\ UNCHANGED <<stop_requested, tokens, sources, thread_id_, current, empty,
                     removed, list, is_removed_, finished, executions,
                     holdsSource, holdsToken>>
  BY <1>0, <1>1 DEF Register, TypeOK, Goto, Live, Aim, Caller, word, request, nodes, callers
<1>3. LockHeld'
  BY <1>0, <1>1, <1>2 DEF LockHeld, Holding
<1>4. OneRequest'
  BY <1>0, <1>1, <1>2 DEF OneRequest, LockHeld, Requesting, Erasing, Holding
<1>5. Targets'
  <2>1. \A u \in Threads : pc[u] \in {"push"} \cup Erasing =>
          target[u] \in Callbacks /\ target[u] # c
    BY <1>0, <1>1 DEF TypeOK, Targets, Erasing
  <2> QED
    BY <1>0, <1>1, <1>2, <2>1 DEF Targets, Erasing
<1>6. Listed'
  BY <1>0, <1>1, <1>2 DEF Listed
<1>7. Running'
  BY <1>0, <1>1, <1>2 DEF Running, OneRequest, Listed, Requesting, Erasing, TypeOK
<1>8. TokensCounted'
  <2>1. Registered' = Registered
    BY <1>1, <1>2 DEF Registered
  <2> QED
    BY <1>0, <1>1, <1>2, <2>1, TokensCount DEF TypeOK
<1>9. SourcesCounted'
  BY <1>0, <1>2 DEF SourcesCounted
<1>10. TypeOK'
  <2>1. holdsSource' \subseteq Threads /\ holdsToken' \subseteq Threads
    BY <1>0, <1>2 DEF TypeOK
  <2>2. /\ tokens' \in 0 .. Cardinality(Threads) + Cardinality(Callbacks)
        /\ sources' \in 1 .. 2 * Cardinality(Threads)
    BY <2>1, <1>8, <1>9, CountsBounded
  <2> QED
    BY <1>0, <1>1, <1>2, <2>1, <2>2 DEF TypeOK, Labels
<1> QED
  BY <1>3, <1>4, <1>5, <1>6, <1>7, <1>8, <1>9, <1>10 DEF StateInv

\* A destructor begins.
LEMMA DestroyKept ==
    ASSUME StateInv, NEW t \in Threads, NEW c \in Callbacks, Destroy(t, c)
    PROVE  StateInv'
<1>0. /\ TypeOK /\ LockHeld /\ OneRequest /\ Targets /\ Listed /\ Running
      /\ TokensCounted /\ SourcesCounted
  BY DEF StateInv
<1>1. /\ life[c] = "alive"
      /\ pc[t] \in {"idle", "in_callback"}
  BY <1>0 DEF Destroy, Goto, Live, TypeOK, Labels, Erasing, Requesting
<1>2. /\ pc' = [u \in Threads |-> IF u = t THEN "erase_lock" ELSE pc[u]]
      /\ life' = [x \in Callbacks |-> IF x = c THEN "destroying" ELSE life[x]]
      /\ target' = [u \in Threads |-> IF u = t THEN c ELSE target[u]]
      /\ UNCHANGED <<stop_requested, locked, tokens, sources, thread_id_,
                     current, empty, removed, list, is_removed_, finished,
                     executions, holdsSource, holdsToken>>
  BY <1>0, <1>1 DEF Destroy, TypeOK, Goto, Live, Aim, Caller, word, request, nodes, callers
<1>3. LockHeld'
  BY <1>0, <1>1, <1>2 DEF LockHeld, Holding
<1>4. OneRequest'
  <2>1. \A u \in Threads : pc'[u] \in Requesting => pc'[u] = pc[u]
    BY <1>1, <1>2 DEF Requesting
  <2>2. current # NoCallback =>
            pc'[thread_id_] \in {"execute", "in_callback"} \cup Erasing
    BY <1>0, <1>1, <1>2 DEF OneRequest, TypeOK, Erasing
  <2>3. /\ "execute" \in Requesting /\ "in_callback" \in Requesting
        /\ "pop" \in Requesting /\ "relock" \in Requesting
    BY DEF Requesting
  <2> QED
    BY <1>0, <1>2, <2>1, <2>2, <2>3 DEF OneRequest
<1>5. Targets'
  <2>1. \A u \in Threads : pc[u] \in {"push"} \cup Erasing =>
          target[u] \in Callbacks /\ target[u] # c
    BY <1>0, <1>1 DEF TypeOK, Targets, Erasing
  <2> QED
    BY <1>0, <1>1, <1>2, <2>1 DEF Targets, Erasing
<1>6. Listed'
  BY <1>0, <1>1, <1>2 DEF Listed
<1>7. Running'
  BY <1>0, <1>1, <1>2 DEF Running, OneRequest, Requesting, Erasing, TypeOK
<1>8. TokensCounted'
  <2>1. Registered' = Registered
    BY <1>1, <1>2 DEF Registered
  <2> QED
    BY <1>0, <1>1, <1>2, <2>1, TokensCount DEF TypeOK
<1>9. SourcesCounted'
  BY <1>0, <1>2 DEF SourcesCounted
<1>10. TypeOK'
  <2>1. holdsSource' \subseteq Threads /\ holdsToken' \subseteq Threads
    BY <1>0, <1>2 DEF TypeOK
  <2>2. /\ tokens' \in 0 .. Cardinality(Threads) + Cardinality(Callbacks)
        /\ sources' \in 1 .. 2 * Cardinality(Threads)
    BY <2>1, <1>8, <1>9, CountsBounded
  <2> QED
    BY <1>0, <1>1, <1>2, <2>1, <2>2 DEF TypeOK, Labels
<1> QED
  BY <1>3, <1>4, <1>5, <1>6, <1>7, <1>8, <1>9, <1>10 DEF StateInv

\* It locks the list.
LEMMA EraseLockKept ==
    ASSUME StateInv, NEW t \in Threads, EraseLock(t)
    PROVE  StateInv'
<1>0. /\ TypeOK /\ LockHeld /\ OneRequest /\ Targets /\ Listed /\ Running
      /\ TokensCounted /\ SourcesCounted
  BY DEF StateInv
<1>1. /\ pc[t] = "erase_lock"
      /\ ~locked
  BY <1>0 DEF EraseLock, Goto, Live, TypeOK, Labels, Erasing, Requesting
<1>2. /\ locked' = TRUE
      /\ pc' = [u \in Threads |-> IF u = t THEN "erase" ELSE pc[u]]
      /\ UNCHANGED <<stop_requested, tokens, sources, thread_id_, current, empty,
                     removed, list, is_removed_, finished, executions, life,
                     holdsSource, holdsToken, target>>
  BY <1>0, <1>1 DEF EraseLock, TypeOK, Goto, Live, Aim, Caller, word, request, nodes, callers
<1>3. LockHeld'
  BY <1>0, <1>1, <1>2 DEF LockHeld, Holding
<1>4. OneRequest'
  <2>1. \A u \in Threads : pc'[u] \in Requesting => pc'[u] = pc[u]
    BY <1>1, <1>2 DEF Requesting
  <2>2. current # NoCallback =>
            pc'[thread_id_] \in {"execute", "in_callback"} \cup Erasing
    BY <1>0, <1>1, <1>2 DEF OneRequest, TypeOK, Erasing
  <2>3. /\ "execute" \in Requesting /\ "in_callback" \in Requesting
        /\ "pop" \in Requesting /\ "relock" \in Requesting
    BY DEF Requesting
  <2> QED
    BY <1>0, <1>2, <2>1, <2>2, <2>3 DEF OneRequest
<1>5. Targets'
  BY <1>0, <1>1, <1>2 DEF Targets, Erasing
<1>6. Listed'
  BY <1>0, <1>1, <1>2 DEF Listed
<1>7. Running'
  BY <1>0, <1>1, <1>2 DEF Running, OneRequest, Requesting, Erasing, TypeOK
<1>8. TokensCounted'
  BY <1>0, <1>2 DEF TokensCounted
<1>9. SourcesCounted'
  BY <1>0, <1>2 DEF SourcesCounted
<1>10. TypeOK'
  <2>1. holdsSource' \subseteq Threads /\ holdsToken' \subseteq Threads
    BY <1>0, <1>2 DEF TypeOK
  <2>2. /\ tokens' \in 0 .. Cardinality(Threads) + Cardinality(Callbacks)
        /\ sources' \in 1 .. 2 * Cardinality(Threads)
    BY <2>1, <1>8, <1>9, CountsBounded
  <2> QED
    BY <1>0, <1>1, <1>2, <2>1, <2>2 DEF TypeOK, Labels
<1> QED
  BY <1>3, <1>4, <1>5, <1>6, <1>7, <1>8, <1>9, <1>10 DEF StateInv

\* Its callback was taken from the list.
LEMMA EraseTakenKept ==
    ASSUME StateInv, NEW t \in Threads, EraseTaken(t)
    PROVE  StateInv'
<1>0. /\ TypeOK /\ LockHeld /\ OneRequest /\ Targets /\ Listed /\ Running
      /\ TokensCounted /\ SourcesCounted
  BY DEF StateInv
<1>1. /\ pc[t] = "erase"
      /\ ~Contains(list, target[t])
  BY <1>0 DEF EraseTaken, Goto, Live, TypeOK, Labels, Erasing, Requesting
<1>2. /\ locked' = FALSE
      /\ pc' = [u \in Threads |-> IF u = t THEN "erase_sync" ELSE pc[u]]
      /\ UNCHANGED <<stop_requested, tokens, sources, thread_id_, current, empty,
                     removed, list, is_removed_, finished, executions, life,
                     holdsSource, holdsToken, target>>
  BY <1>0, <1>1 DEF EraseTaken, TypeOK, Goto, Live, Aim, Caller, word, request, nodes, callers
<1>3. LockHeld'
  BY <1>0, <1>1, <1>2 DEF LockHeld, Holding
<1>4. OneRequest'
  <2>1. \A u \in Threads : pc'[u] \in Requesting => pc'[u] = pc[u]
    BY <1>1, <1>2 DEF Requesting
  <2>2. current # NoCallback =>
            pc'[thread_id_] \in {"execute", "in_callback"} \cup Erasing
    BY <1>0, <1>1, <1>2 DEF OneRequest, TypeOK, Erasing
  <2>3. /\ "execute" \in Requesting /\ "in_callback" \in Requesting
        /\ "pop" \in Requesting /\ "relock" \in Requesting
    BY DEF Requesting
  <2> QED
    BY <1>0, <1>2, <2>1, <2>2, <2>3 DEF OneRequest
<1>5. Targets'
  BY <1>0, <1>1, <1>2 DEF Targets, Erasing
<1>6. Listed'
  BY <1>0, <1>1, <1>2 DEF Listed
<1>7. Running'
  BY <1>0, <1>1, <1>2 DEF Running, OneRequest, Requesting, Erasing, TypeOK
<1>8. TokensCounted'
  BY <1>0, <1>2 DEF TokensCounted
<1>9. SourcesCounted'
  BY <1>0, <1>2 DEF SourcesCounted
<1>10. TypeOK'
  <2>1. holdsSource' \subseteq Threads /\ holdsToken' \subseteq Threads
    BY <1>0, <1>2 DEF TypeOK
  <2>2. /\ tokens' \in 0 .. Cardinality(Threads) + Cardinality(Callbacks)
        /\ sources' \in 1 .. 2 * Cardinality(Threads)
    BY <2>1, <1>8, <1>9, CountsBounded
  <2> QED
    BY <1>0, <1>1, <1>2, <2>1, <2>2 DEF TypeOK, Labels
<1> QED
  BY <1>3, <1>4, <1>5, <1>6, <1>7, <1>8, <1>9, <1>10 DEF StateInv

\* It returns, and if the callback ran when it did, the request knows.
LEMMA EraseDerefKept ==
    ASSUME StateInv, NEW t \in Threads, EraseDeref(t)
    PROVE  StateInv'
<1>0. /\ TypeOK /\ LockHeld /\ OneRequest /\ Targets /\ Listed /\ Running
      /\ TokensCounted /\ SourcesCounted
  BY DEF StateInv
<1>1. /\ pc[t] = "erase_deref"
      /\ target[t] \in Callbacks
      /\ life[target[t]] = "destroying"
  BY <1>0 DEF EraseDeref, Targets, Goto, Live, TypeOK, Labels, Erasing, Requesting
<1>2. /\ tokens' = tokens - 1
      /\ pc' = [u \in Threads |-> IF u = t THEN IF t = thread_id_ /\ current # NoCallback THEN "in_callback" ELSE "idle" ELSE pc[u]]
      /\ life' = [x \in Callbacks |-> IF x = target[t] THEN "gone" ELSE life[x]]
      /\ target' = [u \in Threads |-> IF u = t THEN NoCallback ELSE target[u]]
      /\ UNCHANGED <<stop_requested, locked, sources, thread_id_, current, empty,
                     removed, list, is_removed_, finished, executions,
                     holdsSource, holdsToken>>
  BY <1>0, <1>1 DEF EraseDeref, TypeOK, Goto, Live, Aim, Caller, word, request, nodes, callers
<1>3. LockHeld'
  BY <1>0, <1>1, <1>2 DEF LockHeld, Holding
<1>4. OneRequest'
  BY <1>0, <1>1, <1>2 DEF OneRequest, Requesting, Erasing, TypeOK
<1>5. Targets'
  BY <1>0, <1>1, <1>2 DEF Targets, Erasing, TypeOK
<1>6. Listed'
  BY <1>0, <1>1, <1>2 DEF Listed, Targets, Erasing
<1>7. Running'
  BY <1>0, <1>1, <1>2 DEF Running, OneRequest, Requesting, Erasing, Targets, Erasing, TypeOK
<1>8. TokensCounted'
  <2>1. Registered' = Registered \ {target[t]} /\ target[t] \in Registered
    BY <1>1, <1>2 DEF Registered
  <2> QED
    BY <1>0, <1>1, <1>2, <2>1, TokensCount DEF TypeOK
<1>9. SourcesCounted'
  BY <1>0, <1>2 DEF SourcesCounted
<1>10. TypeOK'
  <2>1. holdsSource' \subseteq Threads /\ holdsToken' \subseteq Threads
    BY <1>0, <1>2 DEF TypeOK
  <2>2. /\ tokens' \in 0 .. Cardinality(Threads) + Cardinality(Callbacks)
        /\ sources' \in 1 .. 2 * Cardinality(Threads)
    BY <2>1, <1>8, <1>9, CountsBounded
  <2> QED
    BY <1>0, <1>1, <1>2, <2>1, <2>2 DEF TypeOK, Labels
<1> QED
  BY <1>3, <1>4, <1>5, <1>6, <1>7, <1>8, <1>9, <1>10 DEF StateInv

\* A callback is taken off the list by the one thread that may, or there is none
\* left and the request returns.
LEMMA PopKept ==
    ASSUME StateInv, NEW t \in Threads, Pop(t)
    PROVE  StateInv'
<1>0. /\ TypeOK /\ LockHeld /\ OneRequest /\ Targets /\ Listed /\ Running
      /\ TokensCounted /\ SourcesCounted
  BY DEF StateInv
<1>1. /\ pc[t] = "pop" /\ current = NoCallback /\ stop_requested
      /\ thread_id_ \in {t, NoThread}
      /\ \A u \in Threads : u # t => pc[u] \notin Requesting /\ pc[u] \notin Holding
  BY <1>0 DEF Pop, Goto, LockHeld, OneRequest, Requesting, Holding
<1>2. /\ thread_id_' = t /\ locked' = FALSE
      /\ UNCHANGED <<stop_requested, tokens, sources, removed, is_removed_,
                     finished, executions, life, holdsSource, holdsToken, target>>
  BY DEF Pop
<1>3. TokensCounted' /\ SourcesCounted'
  BY <1>0, <1>2 DEF TokensCounted, SourcesCounted
<1>4. CASE list = <<>>
  <2>1. /\ pc' = [u \in Threads |-> IF u = t THEN "idle" ELSE pc[u]]
        /\ list' = list /\ current' = current /\ empty' = empty
    BY <1>0, <1>4 DEF Pop, Goto, TypeOK
  <2>2. TypeOK'
    BY <1>0, <1>2, <2>1 DEF TypeOK, Labels
  <2>3. LockHeld'
    BY <1>0, <1>1, <1>2, <2>1 DEF LockHeld, Holding
  <2>4. OneRequest'
    BY <1>0, <1>1, <1>2, <2>1 DEF OneRequest, Requesting, Erasing
  <2>5. Targets'
    BY <1>0, <1>1, <1>2, <2>1 DEF Targets, Erasing
  <2>6. Listed' /\ Running'
    BY <1>0, <1>1, <1>2, <2>1 DEF Listed, Running
  <2> QED
    BY <1>3, <2>2, <2>3, <2>4, <2>5, <2>6 DEF StateInv
<1>5. CASE list # <<>>
  <2> DEFINE h == Head(list)
  <2>1. /\ pc' = [u \in Threads |-> IF u = t THEN "execute" ELSE pc[u]]
        /\ list' = Tail(list) /\ current' = h /\ empty' = (Tail(list) = <<>>)
    BY <1>0, <1>5 DEF Pop, Goto, TypeOK
  <2>2. /\ h \in Callbacks /\ Contains(list, h)
        /\ list' \in Seq(Callbacks) /\ IsInjective(list')
        /\ \A c : Contains(list', c) <=> Contains(list, c) /\ c # h
    BY <1>0, <1>5, <2>1, TailOf DEF TypeOK
  <2> HIDE DEF h
  <2>3. TypeOK'
    <3>1. empty' \in BOOLEAN /\ thread_id_' \in Threads \cup {NoThread}
      BY <1>2, <2>1
    <3>2. pc' \in [Threads -> Labels] /\ current' \in Callbacks \cup {NoCallback}
      BY <1>0, <2>1, <2>2 DEF TypeOK, Labels
    <3> QED
      BY <1>0, <1>2, <2>2, <3>1, <3>2 DEF TypeOK
  <2>4. LockHeld'
    BY <1>0, <1>1, <1>2, <2>1 DEF LockHeld, Holding
  <2>5. OneRequest'
    BY <1>0, <1>1, <1>2, <2>1, <2>2 DEF OneRequest, Requesting, Erasing
  <2>6. Targets'
    BY <1>0, <1>1, <1>2, <2>1 DEF Targets, Erasing
  <2>7. life[h] \in {"alive", "destroying"} /\ h \notin finished /\ executions[h] = 0
    BY <1>0, <2>2 DEF Listed
  <2>8. Listed'
    BY <1>0, <1>1, <1>2, <2>1, <2>2, <2>7 DEF Listed
  <2>9. Running'
    <3>1. \A u \in Threads : pc'[u] = "erase_deref" => target[u] # h
      BY <1>0, <2>1, <2>2 DEF Listed
    <3>2. pc'[thread_id_'] = "execute"
      BY <1>2, <2>1
    <3>3. empty' => list' = <<>>
      BY <2>1
    <3> QED
      BY <1>2, <2>1, <2>7, <3>1, <3>2, <3>3 DEF Running
  <2> QED
    BY <1>3, <2>3, <2>4, <2>5, <2>6, <2>8, <2>9 DEF StateInv
<1> QED
  BY <1>4, <1>5

\* The callback returns: it is finished, unless it destroyed itself.
LEMMA FinishKept ==
    ASSUME StateInv, NEW t \in Threads, Finish(t)
    PROVE  StateInv'
<1>0. /\ TypeOK /\ LockHeld /\ OneRequest /\ Targets /\ Listed /\ Running
      /\ TokensCounted /\ SourcesCounted
  BY DEF StateInv
<1>1. /\ pc[t] = "in_callback" /\ current # NoCallback /\ current \in Callbacks
      /\ stop_requested /\ thread_id_ = t
      /\ \A u \in Threads : u # t => pc[u] \notin Requesting
  BY <1>0 DEF Finish, Goto, OneRequest, Requesting, TypeOK
<1>2. /\ pc' = [u \in Threads |-> IF u = t THEN IF empty THEN "idle" ELSE "relock"
                                  ELSE pc[u]]
      /\ current' = NoCallback
      /\ is_removed_' \subseteq is_removed_ /\ finished \subseteq finished'
      /\ finished' \subseteq finished \cup {current}
      /\ UNCHANGED <<stop_requested, locked, tokens, sources, thread_id_, empty,
                     removed, list, executions, life, holdsSource, holdsToken, target>>
  BY <1>0 DEF Finish, Goto, TypeOK, word
<1>3. TokensCounted' /\ SourcesCounted'
  BY <1>0, <1>2 DEF TokensCounted, SourcesCounted
<1>4. TypeOK'
  BY <1>0, <1>1, <1>2 DEF TypeOK, Labels
<1>5. LockHeld'
  BY <1>0, <1>1, <1>2 DEF LockHeld, Holding
<1>6. OneRequest'
  BY <1>0, <1>1, <1>2 DEF OneRequest, Requesting
<1>7. Targets'
  BY <1>0, <1>1, <1>2 DEF Targets, Erasing
<1>8. Listed'
  BY <1>0, <1>1, <1>2 DEF Listed
<1>9. Running'
  BY <1>2 DEF Running
<1> QED
  BY <1>3, <1>4, <1>5, <1>6, <1>7, <1>8, <1>9 DEF StateInv

\* A callback is registered: it comes to the front of the list, and takes a token.
LEMMA PushKept ==
    ASSUME StateInv, NEW t \in Threads, Push(t)
    PROVE  StateInv'
<1> DEFINE c == target[t]
<1>0. /\ TypeOK /\ LockHeld /\ OneRequest /\ Targets /\ Listed /\ Running
      /\ TokensCounted /\ SourcesCounted
  BY DEF StateInv
<1>1. /\ pc[t] = "push" /\ c \in Callbacks /\ life[c] = "constructing"
      /\ t \in holdsToken /\ ~stop_requested
      /\ \A u \in Threads : u # t => pc[u] \notin Holding
      /\ \A u \in Threads : u # t => target[u] # c
  BY <1>0 DEF Push, Goto, Targets, LockHeld, Holding, TypeOK
<1>2. /\ pc' = [u \in Threads |-> IF u = t THEN "idle" ELSE pc[u]]
      /\ target' = [u \in Threads |-> IF u = t THEN NoCallback ELSE target[u]]
      /\ life' = [x \in Callbacks |-> IF x = c THEN "alive" ELSE life[x]]
      /\ list' = <<c>> \o list /\ locked' = FALSE
      /\ UNCHANGED <<stop_requested, sources, thread_id_, current, empty, removed,
                     is_removed_, finished, executions, holdsSource>>
  BY <1>0 DEF Push, Goto, Live, Aim, TypeOK, request
<1>3. \/ tokens' = tokens + 1 /\ holdsToken' = holdsToken
      \/ tokens' = tokens /\ holdsToken' = holdsToken \ {t}
  BY DEF Push
<1> HIDE DEF c
<1>4. ~Contains(list, c) /\ c \notin finished /\ executions[c] = 0 /\ c # current
  BY <1>0, <1>1 DEF Listed
<1>5. /\ list' \in Seq(Callbacks) /\ IsInjective(list')
      /\ \A d : Contains(list', d) <=> Contains(list, d) \/ d = c
  BY <1>0, <1>1, <1>2, <1>4, PutInFront DEF TypeOK
<1>6. current = NoCallback
  BY <1>0, <1>1 DEF OneRequest
<1>7. TokensCounted'
  <2>1. Registered' = Registered \cup {c} /\ c \notin Registered
    BY <1>1, <1>2 DEF Registered
  <2>2. holdsToken \subseteq Threads
    BY <1>0 DEF TypeOK
  <2>3. tokens = Cardinality(holdsToken) + Cardinality(Registered)
    BY <1>0, TokensCount
  <2>4. Cardinality(Registered') = Cardinality(Registered) + 1
    BY <2>1, TokensCount
  <2>5. Cardinality(holdsToken \ {t}) = Cardinality(holdsToken) - 1
    BY <1>1, <2>2, TokensCount
  <2>6. Cardinality(holdsToken) \in Nat /\ Cardinality(Registered) \in Nat
    BY <2>2, TokensCount
  <2>7. tokens' = Cardinality(holdsToken') + Cardinality(Registered')
    <3>1. CASE tokens' = tokens + 1 /\ holdsToken' = holdsToken
      BY <3>1, <2>3, <2>4, <2>6
    <3>2. CASE tokens' = tokens /\ holdsToken' = holdsToken \ {t}
      <4>1. Cardinality(holdsToken') = Cardinality(holdsToken) - 1
        BY <3>2, <2>5
      <4> QED
        BY <3>2, <4>1, <2>3, <2>4, <2>6
    <3> QED
      BY <1>3, <3>1, <3>2
  <2> QED
    BY <2>7, TokensCount
<1>8. SourcesCounted'
  BY <1>0, <1>2 DEF SourcesCounted
<1>9. TypeOK'
  <2>1. holdsSource' \subseteq Threads /\ holdsToken' \subseteq Threads
    BY <1>0, <1>2, <1>3 DEF TypeOK
  <2>2. /\ tokens' \in 0 .. Cardinality(Threads) + Cardinality(Callbacks)
        /\ sources' \in 1 .. 2 * Cardinality(Threads)
    BY <2>1, <1>7, <1>8, CountsBounded
  <2> QED
    BY <1>0, <1>2, <1>5, <2>1, <2>2 DEF TypeOK, Labels
<1>10. LockHeld'
  BY <1>0, <1>1, <1>2 DEF LockHeld, Holding
<1>11. OneRequest'
  BY <1>0, <1>1, <1>2, <1>6 DEF OneRequest, Requesting
<1>12. Targets'
  <2>1. \A u \in Threads : u # t => pc'[u] = pc[u] /\ target'[u] = target[u]
    BY <1>2
  <2>2. pc'[t] \notin {"push"} \cup Erasing /\ target'[t] = NoCallback
    BY <1>2 DEF Erasing
  <2>3. \A u \in Threads : pc[u] = "push" => u = t
    BY <1>1 DEF Holding
  <2>4. \A u \in Threads : u # t /\ pc[u] \in Erasing => life'[target[u]] = life[target[u]]
    <3>1. \A u \in Threads : pc[u] \in Erasing => target[u] \in Callbacks
      BY <1>0 DEF Targets, TypeOK
    <3> QED
      BY <1>1, <1>2, <3>1
  <2> QED
    BY <1>0, <1>1, <2>1, <2>2, <2>3, <2>4 DEF Targets, Erasing
<1>13. Listed'
  BY <1>0, <1>1, <1>2, <1>4, <1>5 DEF Listed
<1>14. Running'
  BY <1>2, <1>6 DEF Running
<1> QED
  BY <1>7, <1>8, <1>9, <1>10, <1>11, <1>12, <1>13, <1>14 DEF StateInv

\* A destructor finds its callback in the list: nobody runs it then.
LEMMA EraseListedKept ==
    ASSUME StateInv, NEW t \in Threads, EraseListed(t)
    PROVE  StateInv'
<1> DEFINE c == target[t]
           back == IF t = thread_id_ /\ current # NoCallback
                   THEN "in_callback" ELSE "idle"
<1>0. /\ TypeOK /\ LockHeld /\ OneRequest /\ Targets /\ Listed /\ Running
      /\ TokensCounted /\ SourcesCounted
  BY DEF StateInv
<1>1. /\ pc[t] = "erase" /\ c \in Callbacks /\ life[c] = "destroying"
      /\ \A u \in Threads : u # t => pc[u] \notin Holding
      /\ \A u \in Threads : u # t => target[u] # c
  BY <1>0 DEF EraseListed, Goto, Targets, LockHeld, Holding, Erasing, TypeOK
<1>2. /\ pc' = [u \in Threads |-> IF u = t THEN back ELSE pc[u]]
      /\ target' = [u \in Threads |-> IF u = t THEN NoCallback ELSE target[u]]
      /\ life' = [x \in Callbacks |-> IF x = c THEN "gone" ELSE life[x]]
      /\ locked' = FALSE /\ tokens' = tokens - 1
      /\ UNCHANGED <<stop_requested, sources, thread_id_, current, empty, removed,
                     is_removed_, finished, executions, holdsSource, holdsToken>>
  BY <1>0 DEF EraseListed, Goto, Caller, Live, Aim, TypeOK, request
<1>3. /\ list' \in Seq(Callbacks) /\ IsInjective(list') /\ Contains(list, c)
      /\ \A d : Contains(list', d) <=> Contains(list, d) /\ d # c
  <2>1. PICK i \in 1 .. Len(list) : list[i] = c /\ list' = RemoveAt(list, i)
    BY DEF EraseListed
  <2> QED
    BY <1>0, <2>1, Unlinked DEF TypeOK
<1> HIDE DEF c, back
<1>4. list # <<>>
  BY <1>3 DEF Contains
<1>5. c # current /\ c \notin finished
  BY <1>0, <1>1, <1>3 DEF Listed
<1>6. TokensCounted'
  <2>1. Registered' = Registered \ {c} /\ c \in Registered
    BY <1>1, <1>2 DEF Registered
  <2>2. holdsToken \subseteq Threads
    BY <1>0 DEF TypeOK
  <2> QED
    BY <1>0, <1>2, <2>1, <2>2, TokensCount
<1>7. SourcesCounted'
  BY <1>0, <1>2 DEF SourcesCounted
<1>8. TypeOK'
  <2>1. holdsSource' \subseteq Threads /\ holdsToken' \subseteq Threads
    BY <1>0, <1>2 DEF TypeOK
  <2>2. /\ tokens' \in 0 .. Cardinality(Threads) + Cardinality(Callbacks)
        /\ sources' \in 1 .. 2 * Cardinality(Threads)
    BY <2>1, <1>6, <1>7, CountsBounded
  <2>3. back \in Labels
    BY DEF back, Labels
  <2>4. life' \in [Callbacks -> {"none", "constructing", "alive", "destroying", "gone"}]
    BY <1>0, <1>2 DEF TypeOK
  <2> QED
    BY <1>0, <1>2, <1>3, <2>1, <2>2, <2>3, <2>4 DEF TypeOK
<1>9. LockHeld'
  <2>1. back \notin Holding /\ back # "push"
    BY DEF back, Holding
  <2> QED
    BY <1>0, <1>1, <1>2, <2>1 DEF LockHeld
<1>10. OneRequest'
  BY <1>0, <1>1, <1>2 DEF OneRequest, Requesting, Erasing, TypeOK, back
<1>11. Targets'
  <2>1. \A u \in Threads : u # t => pc'[u] = pc[u] /\ target'[u] = target[u]
    BY <1>2
  <2>2. pc'[t] \notin {"push"} \cup Erasing /\ target'[t] = NoCallback
    BY <1>2 DEF Erasing, back
  <2>3. \A u \in Threads : u # t /\ pc[u] \in {"push"} \cup Erasing =>
            life'[target[u]] = life[target[u]]
    <3>1. \A u \in Threads : pc[u] \in {"push"} \cup Erasing => target[u] \in Callbacks
      BY <1>0 DEF Targets, TypeOK
    <3> QED
      BY <1>1, <1>2, <3>1
  <2> QED
    BY <1>0, <1>2, <2>1, <2>2, <2>3 DEF Targets
<1>12. Listed'
  BY <1>0, <1>1, <1>2, <1>3 DEF Listed, back
<1>13. Running'
  <2> SUFFICES ASSUME current # NoCallback PROVE Running'
    BY <1>2 DEF Running
  <2>1. thread_id_ \in Threads /\ current \in Callbacks
        /\ pc[thread_id_] \in {"execute", "in_callback"} \cup Erasing
    BY <1>0 DEF OneRequest, TypeOK
  <2>2. /\ current \notin finished /\ (life[current] = "gone" => removed) /\ ~empty
        /\ pc[thread_id_] = "execute" => executions[current] = 0 /\ life[current] # "gone"
        /\ pc[thread_id_] # "execute" => current \in is_removed_
        /\ \A u \in Threads : pc[u] = "erase_deref" /\ target[u] = current =>
            u = thread_id_ /\ removed
    BY <1>0, <1>4 DEF Running
  <2>3. life'[current] = life[current]
    BY <1>2, <1>5, <2>1
  <2>4. /\ pc'[thread_id_] = "execute" <=> pc[thread_id_] = "execute"
        /\ \A u \in Threads : pc'[u] = "erase_deref" => pc'[u] = pc[u] /\ u # t
    BY <1>1, <1>2, <2>1 DEF back
  <2> QED
    BY <1>2, <2>2, <2>3, <2>4 DEF Running
<1> QED
  BY <1>6, <1>7, <1>8, <1>9, <1>10, <1>11, <1>12, <1>13 DEF StateInv

\* A destructor whose callback was taken goes on: its own thread runs the
\* callback, and is told, or it has run.
LEMMA EraseSyncKept ==
    ASSUME StateInv, NEW t \in Threads, EraseSync(t)
    PROVE  StateInv'
<1>0. /\ TypeOK /\ LockHeld /\ OneRequest /\ Targets /\ Listed /\ Running
      /\ TokensCounted /\ SourcesCounted
  BY DEF StateInv
<1>1. /\ pc[t] = "erase_sync"
      /\ IF thread_id_ = t THEN removed' = (removed \/ target[t] \in is_removed_)
                           ELSE target[t] \in finished /\ removed' = removed
  BY DEF EraseSync, Goto
<1>2. /\ pc' = [u \in Threads |-> IF u = t THEN "erase_deref" ELSE pc[u]]
      /\ UNCHANGED <<stop_requested, locked, tokens, sources, thread_id_, current,
                     empty, list, is_removed_, finished, executions, life,
                     holdsSource, holdsToken, target>>
  BY <1>0 DEF EraseSync, Goto, TypeOK, word, nodes
<1>3. removed' \in BOOLEAN /\ (removed => removed')
  BY <1>0, <1>1 DEF TypeOK
<1>4. TokensCounted' /\ SourcesCounted'
  BY <1>0, <1>2 DEF TokensCounted, SourcesCounted
<1>5. TypeOK'
  BY <1>0, <1>2, <1>3 DEF TypeOK, Labels
<1>6. LockHeld'
  BY <1>0, <1>1, <1>2 DEF LockHeld, Holding
<1>7. OneRequest'
  BY <1>0, <1>1, <1>2 DEF OneRequest, Requesting, Erasing, TypeOK
<1>8. Targets'
  BY <1>0, <1>1, <1>2 DEF Targets, Erasing
<1>9. Listed'
  BY <1>0, <1>1, <1>2 DEF Listed
<1>10. Running'
  <2> SUFFICES ASSUME current # NoCallback PROVE Running'
    BY <1>2 DEF Running
  <2>1. thread_id_ \in Threads
    BY <1>0 DEF OneRequest, TypeOK
  <2>2. /\ current \notin finished /\ (life[current] = "gone" => removed)
        /\ empty => list = <<>>
        /\ pc[thread_id_] = "execute" => executions[current] = 0 /\ life[current] # "gone"
        /\ pc[thread_id_] # "execute" => current \in is_removed_
        /\ \A u \in Threads : pc[u] = "erase_deref" /\ target[u] = current =>
            u = thread_id_ /\ removed
    BY <1>0 DEF Running
  <2>3. target[t] = current => thread_id_ = t /\ removed'
    BY <1>1, <2>2
  <2>4. /\ pc'[thread_id_] = "execute" <=> pc[thread_id_] = "execute"
        /\ \A u \in Threads : u # t => pc'[u] = pc[u]
    BY <1>1, <1>2, <2>1
  <2> QED
    BY <1>2, <1>3, <2>2, <2>3, <2>4 DEF Running
<1> QED
  BY <1>4, <1>5, <1>6, <1>7, <1>8, <1>9, <1>10 DEF StateInv

\* Every step keeps the invariant of the state.
LEMMA StateKept == StateInv /\ [Next]_vars => StateInv'
<1> SUFFICES ASSUME StateInv, [Next]_vars PROVE StateInv'
  OBVIOUS
<1>1. ASSUME NEW t \in Threads,
             GetToken(t) \/ DestroyToken(t) \/ DestroySource(t)
      PROVE  StateInv'
  BY <1>1, GetTokenKept, DestroyTokenKept, DestroySourceKept
<1>2. ASSUME NEW t \in Threads,
             RequestStop(t) \/ Pop(t) \/ Execute(t) \/ Finish(t) \/ Relock(t)
      PROVE  StateInv'
  BY <1>2, RequestStopKept, PopKept, ExecuteKept, FinishKept, RelockKept
<1>3. ASSUME NEW t \in Threads, NEW c \in Callbacks,
             Register(t, c) \/ RegisterLate(t, c) \/ Destroy(t, c)
      PROVE  StateInv'
  BY <1>3, RegisterKept, RegisterLateKept, DestroyKept
<1>4. ASSUME NEW t \in Threads, Push(t) PROVE StateInv'
  BY <1>4, PushKept
<1>5. ASSUME NEW t \in Threads,
             \/ EraseLock(t) \/ EraseListed(t) \/ EraseTaken(t) \/ EraseSync(t)
             \/ EraseDeref(t)
      PROVE  StateInv'
  BY <1>5, EraseLockKept, EraseListedKept, EraseTakenKept, EraseSyncKept, EraseDerefKept
<1>6. CASE UNCHANGED vars
  <2>1. /\ UNCHANGED word /\ UNCHANGED request /\ UNCHANGED nodes /\ UNCHANGED callers
    BY <1>6 DEF vars
  <2>2. UNCHANGED <<stop_requested, locked, tokens, sources, thread_id_, current, empty,
                    removed, list, is_removed_, finished, executions, life, holdsSource,
                    holdsToken, pc, target>>
    BY <2>1 DEF word, request, nodes, callers
  <2>3. TypeOK' /\ LockHeld' /\ OneRequest'
    BY <2>2 DEF StateInv, TypeOK, LockHeld, OneRequest
  <2>4. Targets' /\ Listed' /\ Running'
    BY <2>2 DEF StateInv, Targets, Listed, Running
  <2>5. TokensCounted' /\ SourcesCounted'
    BY <2>2 DEF StateInv, TokensCounted, SourcesCounted
  <2> QED
    BY <2>3, <2>4, <2>5 DEF StateInv
<1> QED
  BY <1>1, <1>2, <1>3, <1>4, <1>5, <1>6 DEF Next

\* What the invariant says of a callback that is run, and of the list.
LEMMA StateSafe == StateInv => NoUseAfterDestroy
<1> SUFFICES ASSUME StateInv PROVE NoUseAfterDestroy
  OBVIOUS
<1>1. \A c \in Callbacks : Contains(list, c) => life[c] \in {"alive", "destroying"}
  BY DEF StateInv, Listed
<1>2. current # NoCallback /\ life[current] = "gone" => removed /\ pc[thread_id_] # "execute"
  BY DEF StateInv, Running
<1> QED
  BY <1>1, <1>2 DEF NoUseAfterDestroy

\* When the thread that runs the callbacks returns, the list is empty: it saw
\* none left, or saw that the last it took was the last.
LEMMA StateReturns ==
    ASSUME StateInv, [Next]_vars,
           NEW t \in Threads, pc[t] \in {"pop", "in_callback"}, pc'[t] = "idle"
    PROVE  list' = <<>>
<1>0. pc \in [Threads -> Labels] /\ OneRequest /\ Running
  BY DEF StateInv, TypeOK
<1>1. ASSUME NEW u \in Threads,
             GetToken(u) \/ DestroyToken(u) \/ DestroySource(u)
      PROVE  FALSE
  BY <1>0, <1>1 DEF GetToken, DestroyToken, DestroySource
<1>2. ASSUME NEW u \in Threads, RequestStop(u) PROVE FALSE
  BY <1>0, <1>2 DEF RequestStop, Goto
<1>3. ASSUME NEW u \in Threads, Execute(u) PROVE FALSE
  BY <1>0, <1>3 DEF Execute, Goto
<1>4. ASSUME NEW u \in Threads, Relock(u) PROVE FALSE
  BY <1>0, <1>4 DEF Relock, Goto
<1>5. ASSUME NEW u \in Threads, Push(u) PROVE FALSE
  BY <1>0, <1>5 DEF Push, Goto
<1>6. ASSUME NEW u \in Threads, EraseLock(u) PROVE FALSE
  BY <1>0, <1>6 DEF EraseLock, Goto
<1>7. ASSUME NEW u \in Threads, EraseListed(u) PROVE FALSE
  BY <1>0, <1>7 DEF EraseListed, Goto
<1>8. ASSUME NEW u \in Threads, EraseTaken(u) PROVE FALSE
  BY <1>0, <1>8 DEF EraseTaken, Goto
<1>9. ASSUME NEW u \in Threads, EraseSync(u) PROVE FALSE
  BY <1>0, <1>9 DEF EraseSync, Goto
<1>10. ASSUME NEW u \in Threads, EraseDeref(u) PROVE FALSE
  BY <1>0, <1>10 DEF EraseDeref, Goto
<1>11. ASSUME NEW u \in Threads, NEW c \in Callbacks,
             Register(u, c) \/ RegisterLate(u, c) \/ Destroy(u, c)
      PROVE  FALSE
  <2>1. CASE Register(u, c)
    BY <1>0, <2>1 DEF Register, Goto
  <2>2. CASE RegisterLate(u, c)
    BY <1>0, <2>2 DEF RegisterLate, callers
  <2>3. CASE Destroy(u, c)
    BY <1>0, <2>3 DEF Destroy
  <2> QED
    BY <1>11, <2>1, <2>2, <2>3
<1>12. PICK u \in Threads : Pop(u) \/ Finish(u)
  <2>1. ~UNCHANGED vars
    BY DEF vars, callers
  <2> QED
    BY <2>1, <1>1, <1>2, <1>3, <1>4, <1>5, <1>6, <1>7, <1>8, <1>9, <1>10, <1>11 DEF Next
<1>13. u = t
  BY <1>0, <1>12 DEF Pop, Finish, Goto
<1>14. CASE Pop(t)
  BY <1>0, <1>14 DEF Pop, Goto
<1>15. CASE Finish(t)
  <2>1. empty /\ list' = list /\ pc[t] = "in_callback"
    BY <1>0, <1>15 DEF Finish, Goto
  <2>2. current # NoCallback
    BY <1>0, <2>1 DEF OneRequest
  <2> QED
    BY <1>0, <2>1, <2>2 DEF Running
<1> QED
  BY <1>12, <1>13, <1>14, <1>15

------------------------------------------------------------------------------
(* The objects that share states                                           *)

Objects == Handles!Objects

\* The objects of a class that refer to state s.
Refs(f, class, s) == {h \in class : f[h] = s}
Count(f, class, s) == Cardinality(Refs(f, class, s))
One(h, class, r, s) == IF h \in class /\ r = s THEN 1 ELSE 0
Same(r, s) == IF r = s THEN 1 ELSE 0

\* Only h and g may refer to another state than before.
Differ(f, e, h, g) == \A k \in Objects : k # h /\ k # g => e[k] = f[k]
Gives(h, g) == Handles!SameClass(h, g) /\ h_state'[h] = h_state[g]
    /\ Differ(h_state, h_state', h, g)

\* A call takes from each state the reference of h to r and adds the one to s.
Shifts(h, r, s) == \A class \in {Tokens, Sources}, x \in States :
    Count(h_state', class, x) = Count(h_state, class, x)
        - One(h, class, r, x) + One(h, class, s, x)

\* What a call that refers h to s may do to the states that were made.
Makes(h, s) == h_made \subseteq h_made' /\ h_made' \subseteq States
    /\ \A x \in h_made' \ h_made : x = s /\ h \in Sources

\* An object refers to a state that was made, or to none; one that does not
\* exist to none.
Placed == \A h \in Objects :
    /\ h_state[h] \in h_made \cup {NoCallback}
    /\ h \notin h_live => h_state[h] = NoCallback

\* Each state counts its tokens, and no fewer sources than it has; and as none
\* is ever taken off, one that was made has a source counted.
CountsRight == \A s \in States :
    /\ h_tokens[s] = Count(h_state, Tokens, s)
    /\ h_sources[s] >= Count(h_state, Sources, s)
    /\ s \in h_made => h_sources[s] # 0

HandlesInv == Handles!TypeOK /\ h_deleted = {} /\ Placed /\ CountsRight

\* The Cardinality that the instance sees is that of FiniteSets.
LEMMA SameCardinality == \A S : Handles!Cardinality(S) = Cardinality(S)
BY DEF Handles!Cardinality, Cardinality, Handles!IsFiniteSet, IsFiniteSet

\* An object that comes to refer to s counts there, and no more where it did.
LEMMA CountOfOne ==
    ASSUME NEW f, NEW e, NEW h \in Objects, NEW class \in {Tokens, Sources}, NEW x,
           Differ(f, e, h, h)
    PROVE  /\ Count(f, class, x) \in Nat
           /\ Count(e, class, x) = Count(f, class, x)
                - One(h, class, f[h], x) + One(h, class, e[h], x)
<1> DEFINE F == Refs(f, class, x)
           G == Refs(e, class, x)
           s == e[h]
<1>1. F \subseteq class /\ IsFiniteSet(class) /\ class \subseteq Objects
  BY DEF Refs, Objects, Handles!Objects
<1>2. /\ h \in F <=> h \in class /\ f[h] = x
      /\ G = IF h \in class /\ s = x THEN F \cup {h} ELSE F \ {h}
  BY <1>1 DEF Refs, Differ
<1> HIDE DEF F, G, s
<1>3. /\ Cardinality(F) \in Nat
      /\ h \notin F => Cardinality(F \cup {h}) = Cardinality(F) + 1
      /\ h \in F => Cardinality(F \ {h}) = Cardinality(F) - 1
  BY <1>1, OneMore
<1>4. /\ h \in F => F \cup {h} = F
      /\ h \notin F => F \ {h} = F
  OBVIOUS
<1>5. Cardinality(G) = Cardinality(F) - One(h, class, f[h], x) + One(h, class, s, x)
  <2>1. CASE h \in F /\ h \in class /\ s = x
    <3>1. G = F /\ One(h, class, f[h], x) = 1 /\ One(h, class, s, x) = 1
      BY <2>1, <1>2, <1>4 DEF One
    <3> QED
      BY <3>1, <1>3
  <2>2. CASE h \in F /\ ~(h \in class /\ s = x)
    <3>1. G = F \ {h} /\ One(h, class, f[h], x) = 1 /\ One(h, class, s, x) = 0
      BY <2>2, <1>2 DEF One
    <3> QED
      BY <2>2, <3>1, <1>3
  <2>3. CASE h \notin F /\ h \in class /\ s = x
    <3>1. G = F \cup {h} /\ One(h, class, f[h], x) = 0 /\ One(h, class, s, x) = 1
      BY <2>3, <1>2 DEF One
    <3> QED
      BY <2>3, <3>1, <1>3
  <2>4. CASE h \notin F /\ ~(h \in class /\ s = x)
    <3>1. G = F /\ One(h, class, f[h], x) = 0 /\ One(h, class, s, x) = 0
      BY <2>4, <1>2, <1>4 DEF One
    <3> QED
      BY <3>1, <1>3
  <2> QED
    BY <2>1, <2>2, <2>3, <2>4
<1> QED
  BY <1>3, <1>5 DEF Count, F, G, s

\* Two objects of a class may exchange what they refer to.
LEMMA CountOfTwo ==
    ASSUME NEW h \in Objects, NEW g \in Objects, Gives(h, g)
    PROVE  Shifts(h, h_state[h], h_state'[g])
<1> SUFFICES ASSUME NEW class \in {Tokens, Sources}, NEW x \in States
             PROVE  Count(h_state', class, x) = Count(h_state, class, x)
                      - One(h, class, h_state[h], x) + One(h, class, h_state'[g], x)
  BY DEF Shifts
<1>1. /\ h # g /\ (h \in class <=> g \in class)
      /\ h_state'[h] = h_state[g] /\ Differ(h_state, h_state', h, g)
  BY DEF Gives, Handles!SameClass, Objects, Handles!Objects
<1> DEFINE f == [k \in Objects |-> IF k = h THEN h_state[g] ELSE h_state[k]]
<1>2. /\ f[h] = h_state[g] /\ f[g] = h_state[g]
      /\ Differ(h_state, f, h, h) /\ Differ(f, h_state', g, g)
  BY <1>1 DEF Differ
<1> HIDE DEF f
<1>3. /\ Count(h_state, class, x) \in Nat
      /\ Count(f, class, x) = Count(h_state, class, x)
            - One(h, class, h_state[h], x) + One(h, class, h_state[g], x)
  <2>1. /\ Count(h_state, class, x) \in Nat
        /\ Count(f, class, x) = Count(h_state, class, x)
            - One(h, class, h_state[h], x) + One(h, class, f[h], x)
    BY <1>2, CountOfOne
  <2> QED
    BY <1>2, <2>1
<1>4. Count(h_state', class, x) = Count(f, class, x)
        - One(g, class, h_state[g], x) + One(g, class, h_state'[g], x)
  <2>1. Count(h_state', class, x) = Count(f, class, x)
        - One(g, class, f[g], x) + One(g, class, h_state'[g], x)
    BY <1>2, CountOfOne
  <2> QED
    BY <1>2, <2>1
<1>5. /\ One(g, class, h_state[g], x) = One(h, class, h_state[g], x)
      /\ One(g, class, h_state'[g], x) = One(h, class, h_state'[g], x)
      /\ One(h, class, h_state[h], x) \in Nat /\ One(h, class, h_state[g], x) \in Nat
      /\ One(h, class, h_state'[g], x) \in Nat
  BY <1>1 DEF One
<1> QED
  BY <1>3, <1>4, <1>5

\* Recount adds where the object refers now and, of tokens, takes off where it
\* did; and a state that was made keeps a source, so that none is freed.
LEMMA Recounted ==
    ASSUME HandlesInv, NEW h \in Objects, NEW s \in States \cup {NoCallback},
           NEW r \in h_made \cup {NoCallback}, Handles!Recount(h, s, r)
    PROVE  /\ h_deleted' = {} /\ DOMAIN h_tokens' = States
           /\ h_tokens' = [x \in States |-> h_tokens'[x]]
           /\ h_sources' \in [States -> 0 .. MaxSources]
           /\ \A x \in States :
                /\ h_tokens'[x] = h_tokens[x] - One(h, Tokens, r, x)
                                    + One(h, Tokens, s, x)
                /\ h_sources'[x] >= h_sources[x] + One(h, Sources, s, x)
<1>0. /\ h_tokens \in [States -> Nat] /\ h_sources \in [States -> 0 .. MaxSources]
      /\ r \in States \cup {NoCallback} /\ NoCallback \notin States
      /\ (r # NoCallback => h_sources[r] # 0) /\ h_deleted = {} /\ MaxSources \in Nat
  BY DEF HandlesInv, Handles!TypeOK, CountsRight
<1>1. ASSUME NEW count \in [States -> Nat], NEW q \in States \cup {NoCallback}
      PROVE  /\ Handles!Increment(count, q) \in [States -> Nat]
             /\ \A x \in States : Handles!Increment(count, q)[x] = count[x] + Same(q, x)
  <2>1. CASE q = NoCallback
    BY <1>0, <2>1 DEF Handles!Increment, Same
  <2>2. CASE q # NoCallback
    <3>1. Handles!Increment(count, q) = [count EXCEPT ![q] = @ + 1]
      BY <2>2 DEF Handles!Increment
    <3>2. q \in States /\ [count EXCEPT ![q] = @ + 1] \in [States -> Nat]
      BY <2>2
    <3>3. \A x \in States : [count EXCEPT ![q] = @ + 1][x] = count[x] + Same(q, x)
      BY <3>2 DEF Same
    <3> QED
      BY <3>1, <3>2, <3>3
  <2> QED
    BY <2>1, <2>2
<1>2. CASE h \in Tokens
  <2> DEFINE c == Handles!Increment(h_tokens, s)
  <2>1. h \notin Sources
    BY <1>2
  <2>2. c \in [States -> Nat] /\ \A x \in States : c[x] = h_tokens[x] + Same(s, x)
    BY <1>0, <1>1
  <2>3. /\ h_tokens' = IF r = NoCallback THEN c ELSE [c EXCEPT ![r] = @ - 1]
        /\ h_deleted' = {} /\ h_sources' = h_sources
    BY <1>0, <1>2 DEF Handles!Recount
  <2> HIDE DEF c
  <2>4. /\ DOMAIN h_tokens' = States /\ h_tokens' = [x \in States |-> h_tokens'[x]]
        /\ \A x \in States : h_tokens'[x] = c[x] - Same(r, x)
    <3>1. CASE r = NoCallback
      BY <1>0, <2>2, <2>3, <3>1 DEF Same
    <3>2. CASE r # NoCallback
      <4>1. r \in States /\ h_tokens' = [c EXCEPT ![r] = @ - 1]
        BY <1>0, <2>3, <3>2
      <4>2. [c EXCEPT ![r] = @ - 1] \in [States -> Int]
        BY <2>2, <4>1
      <4>3. \A x \in States : [c EXCEPT ![r] = @ - 1][x] = c[x] - Same(r, x)
        BY <2>2, <4>1 DEF Same
      <4> QED
        BY <4>1, <4>2, <4>3
    <3> QED
      BY <3>1, <3>2
  <2>5. \A x \in States : /\ h_tokens[x] \in Nat
                          /\ One(h, Tokens, r, x) = Same(r, x) /\ Same(r, x) \in {0, 1}
                          /\ One(h, Tokens, s, x) = Same(s, x) /\ Same(s, x) \in {0, 1}
                          /\ One(h, Sources, s, x) = 0 /\ h_sources[x] \in Nat
    BY <1>0, <1>2, <2>1 DEF One, Same
  <2> QED
    BY <1>0, <2>2, <2>3, <2>4, <2>5
<1>3. CASE h \in Sources
  <2> DEFINE d == Handles!Increment(h_sources, s)
             e == Handles!Increment(d, r)
  <2>1. h \notin Tokens
    BY <1>3
  <2>2. /\ h_sources' = e
        /\ \A x \in States : h_sources'[x] <= MaxSources
        /\ h_tokens' = h_tokens /\ h_deleted' = h_deleted
    BY <2>1 DEF Handles!Recount
  <2>3. h_sources \in [States -> Nat]
    BY <1>0
  <2>4. d \in [States -> Nat] /\ \A x \in States : d[x] = h_sources[x] + Same(s, x)
    BY <1>1, <2>3
  <2> HIDE DEF d
  <2>5. e \in [States -> Nat] /\ \A x \in States : e[x] = d[x] + Same(r, x)
    BY <1>0, <1>1, <2>4
  <2> HIDE DEF e
  <2>6. h_sources' \in [States -> 0 .. MaxSources]
    BY <1>0, <2>2, <2>5
  <2>7. \A x \in States :
        /\ h_tokens[x] \in Nat /\ h_sources[x] \in Nat
        /\ Same(r, x) \in {0, 1} /\ Same(s, x) \in {0, 1}
        /\ One(h, Tokens, r, x) = 0 /\ One(h, Tokens, s, x) = 0
        /\ One(h, Sources, s, x) = Same(s, x)
    BY <1>0, <1>3, <2>1, <2>3 DEF One, Same
  <2>8. \A x \in States :
        /\ h_sources'[x] >= h_sources[x] + One(h, Sources, s, x)
        /\ h_tokens'[x] = h_tokens[x] - One(h, Tokens, r, x) + One(h, Tokens, s, x)
    BY <2>2, <2>4, <2>5, <2>7
  <2> QED
    BY <1>0, <2>2, <2>6, <2>8
<1> QED
  BY <1>2, <1>3 DEF Objects, Handles!Objects

\* A call that leaves the counts of a state right, with what it does to them.
LEMMA HandlesStep ==
    ASSUME HandlesInv, NEW h \in Objects, NEW s \in States \cup {NoCallback},
           NEW r \in h_made \cup {NoCallback}, Handles!Recount(h, s, r),
           h_live' \subseteq Objects,
           h_state' \in [Objects -> States \cup {NoCallback}], Placed',
           Makes(h, s), Shifts(h, r, s)
    PROVE  HandlesInv'
<1>0. /\ Handles!TypeOK /\ CountsRight
      /\ h_tokens \in [States -> Nat] /\ h_sources \in [States -> 0 .. MaxSources]
  BY DEF HandlesInv, Handles!TypeOK
<1>1. /\ h_deleted' = {} /\ h_tokens' = [x \in States |-> h_tokens'[x]]
      /\ h_sources' \in [States -> 0 .. MaxSources]
      /\ \A x \in States :
            /\ h_tokens'[x] = h_tokens[x] - One(h, Tokens, r, x) + One(h, Tokens, s, x)
            /\ h_sources'[x] >= h_sources[x] + One(h, Sources, s, x)
  BY Recounted
<1>2. Tokens \subseteq Objects /\ Sources \subseteq Objects
  BY DEF Objects, Handles!Objects
<1>3. ASSUME NEW f, NEW class \in {Tokens, Sources}, NEW x
      PROVE  Count(f, class, x) \in Nat
  BY OneMore DEF Count, Refs
<1>4. \A class, v, x : One(h, class, v, x) \in {0, 1}
  BY DEF One
<1>5. ASSUME NEW x \in States
      PROVE  /\ h_tokens'[x] = Count(h_state', Tokens, x)
             /\ h_sources'[x] >= Count(h_state', Sources, x)
             /\ x \in h_made' => h_sources'[x] # 0
  <2>1. /\ h_tokens[x] = Count(h_state, Tokens, x)
        /\ h_sources[x] >= Count(h_state, Sources, x)
        /\ x \in h_made => h_sources[x] # 0
        /\ h_sources[x] \in Nat /\ h_sources'[x] \in Nat
    BY <1>0, <1>1 DEF CountsRight
  <2>2. /\ Count(h_state', Tokens, x) = Count(h_state, Tokens, x)
                - One(h, Tokens, r, x) + One(h, Tokens, s, x)
        /\ Count(h_state', Sources, x) = Count(h_state, Sources, x)
                - One(h, Sources, r, x) + One(h, Sources, s, x)
        /\ Count(h_state, Sources, x) \in Nat
    BY <1>3 DEF Shifts
  <2>3. x \in h_made' \ h_made => One(h, Sources, s, x) = 1
    BY DEF One, Makes
  <2>4. h_sources'[x] >= h_sources[x] + One(h, Sources, s, x)
    BY <1>1
  <2>5. One(h, Sources, s, x) \in {0, 1} /\ One(h, Sources, r, x) \in {0, 1}
    BY <1>4
  <2>6. h_tokens'[x] = Count(h_state', Tokens, x)
    BY <1>1, <2>1, <2>2
  <2>7. h_sources'[x] >= Count(h_state', Sources, x)
    BY <2>1, <2>2, <2>4, <2>5
  <2>8. x \in h_made' => h_sources'[x] # 0
    BY <2>1, <2>3, <2>4, <2>5 DEF Makes
  <2> QED
    BY <2>6, <2>7, <2>8
<1>6. CountsRight'
  BY <1>5 DEF CountsRight
<1>7. \A x \in States : h_tokens'[x] \in Nat
  BY <1>3, <1>5
<1>8. h_tokens' \in [States -> Nat]
  BY <1>1, <1>7
<1>9. Handles!TypeOK'
  BY <1>0, <1>1, <1>8 DEF Makes, Handles!TypeOK, Objects, Handles!Objects
<1> QED
  BY <1>1, <1>6, <1>9 DEF HandlesInv

\* A call that counts nothing anew.
LEMMA HandlesMoved ==
    ASSUME HandlesInv, UNCHANGED <<h_made, h_deleted, h_tokens, h_sources>>,
           h_live' \subseteq Objects,
           h_state' \in [Objects -> States \cup {NoCallback}], Placed',
           \A class \in {Tokens, Sources}, x \in States :
             Count(h_state', class, x) = Count(h_state, class, x)
    PROVE  HandlesInv'
<1>1. Handles!TypeOK'
  BY DEF HandlesInv, Handles!TypeOK, Objects, Handles!Objects
<1>2. h_deleted' = {}
  BY DEF HandlesInv
<1>3. CountsRight'
  BY DEF HandlesInv, CountsRight
<1> QED
  BY <1>1, <1>2, <1>3 DEF HandlesInv

\* At first there is no object and no state.
LEMMA HandlesStart == Handles!Init => HandlesInv
<1> SUFFICES ASSUME Handles!Init PROVE HandlesInv
  OBVIOUS
<1>1. /\ h_live = {} /\ h_made = {} /\ h_deleted = {}
      /\ h_state = [h \in Objects |-> NoCallback]
      /\ h_tokens = [s \in States |-> 0] /\ h_sources = [s \in States |-> 0]
  BY DEF Handles!Init, Objects
<1>2. Handles!TypeOK
  BY <1>1 DEF Handles!TypeOK, Objects
<1>3. Placed
  BY <1>1 DEF Placed
<1>4. ASSUME NEW class \in {Tokens, Sources}, NEW x \in States
      PROVE  Count(h_state, class, x) = 0
  <2>1. class \subseteq Objects
    BY DEF Objects, Handles!Objects
  <2>2. Refs(h_state, class, x) = {}
    BY <1>1, <2>1 DEF Refs
  <2> QED
    BY <2>2, FS_EmptySet DEF Count
<1>5. CountsRight
  BY <1>1, <1>4 DEF CountsRight
<1> QED
  BY <1>1, <1>2, <1>3, <1>5 DEF HandlesInv

\* One object comes to refer to s: it is made, copied from another one, assigned
\* to or destroyed.
LEMMA ReferKept ==
    ASSUME HandlesInv, NEW h \in Objects, NEW s \in States \cup {NoCallback},
           Handles!Refer(h, s), Handles!Recount(h, s, h_state[h]),
           h_live \ {h} \subseteq h_live', h_live' \subseteq h_live \cup {h},
           s # NoCallback => h \in h_live',
           s \in h_made' \cup {NoCallback}, Makes(h, s)
    PROVE  HandlesInv'
<1>0. /\ h_state \in [Objects -> States \cup {NoCallback}] /\ Placed
      /\ h_live \subseteq Objects /\ h_made \subseteq States
  BY DEF HandlesInv, Handles!TypeOK, Objects
<1>1. /\ h_state' \in [Objects -> States \cup {NoCallback}] /\ h_state'[h] = s
      /\ \A k \in Objects \ {h} : h_state'[k] = h_state[k]
      /\ Differ(h_state, h_state', h, h)
  BY <1>0 DEF Handles!Refer, Differ
<1>2. h_state[h] \in h_made \cup {NoCallback}
  BY <1>0 DEF Placed
<1>3. Shifts(h, h_state[h], s)
  <2> SUFFICES ASSUME NEW class \in {Tokens, Sources}, NEW x \in States
               PROVE  Count(h_state', class, x) = Count(h_state, class, x)
                        - One(h, class, h_state[h], x) + One(h, class, s, x)
    BY DEF Shifts
  <2>1. Count(h_state', class, x) = Count(h_state, class, x)
            - One(h, class, h_state[h], x) + One(h, class, h_state'[h], x)
    BY <1>1, CountOfOne
  <2> QED
    BY <1>1, <2>1
<1>4. Placed'
  BY <1>0, <1>1 DEF Placed, Makes, Objects, Handles!Objects
<1>5. h_live' \subseteq Objects
  BY <1>0
<1> QED
  BY <1>1, <1>2, <1>3, <1>4, <1>5, HandlesStep

\* Every call leaves the counts right.
LEMMA HandlesKept == HandlesInv /\ [Handles!Next]_(Handles!vars) => HandlesInv'
<1> SUFFICES ASSUME HandlesInv, [Handles!Next]_(Handles!vars) PROVE HandlesInv'
  OBVIOUS
<1>0. /\ h_state \in [Objects -> States \cup {NoCallback}] /\ Placed
      /\ h_live \subseteq Objects /\ h_made \subseteq States
      /\ Tokens \subseteq Objects /\ Sources \subseteq Objects
      /\ NoCallback \notin States
  BY DEF HandlesInv, Handles!TypeOK, Objects, Handles!Objects
<1>1. \A k \in Objects : /\ h_state[k] \in h_made \cup {NoCallback}
                         /\ h_state[k] \in States \cup {NoCallback}
                         /\ k \notin h_live => h_state[k] = NoCallback
  BY <1>0 DEF Placed
<1>2. ASSUME NEW h \in Objects, Handles!ConstructEmpty(h) PROVE HandlesInv'
  <2>1. /\ h_live' = h_live \cup {h}
        /\ UNCHANGED <<h_state, h_made, h_deleted, h_tokens, h_sources>>
    BY <1>2 DEF Handles!ConstructEmpty, Handles!New
  <2>2. Placed'
    BY <1>1, <2>1 DEF Placed, Objects, Handles!Objects
  <2> QED
    BY <1>0, <2>1, <2>2, HandlesMoved
<1>3. ASSUME NEW h \in Objects, NEW s \in States, Handles!ConstructSource(h, s)
      PROVE  HandlesInv'
  <2>1. /\ h \in Sources /\ h_state[h] = NoCallback /\ h_live' = h_live \cup {h}
        /\ Handles!Refer(h, s) /\ Handles!Recount(h, s, NoCallback)
        /\ h_made' = h_made \cup {s}
    BY <1>1, <1>3 DEF Handles!ConstructSource, Handles!New
  <2>2. /\ h_live \ {h} \subseteq h_live' /\ h_live' \subseteq h_live \cup {h}
        /\ h \in h_live' /\ s \in h_made' /\ Makes(h, s)
        /\ Handles!Recount(h, s, h_state[h])
    BY <1>0, <2>1 DEF Makes
  <2> QED
    BY <2>1, <2>2, ReferKept
<1>4. ASSUME NEW h \in Objects, NEW g \in Objects,
             Handles!GetToken(h, g) \/ Handles!CopyConstruct(h, g)
      PROVE  HandlesInv'
  <2>1. /\ h_state[h] = NoCallback /\ h_live' = h_live \cup {h}
        /\ Handles!Refer(h, h_state[g]) /\ Handles!Recount(h, h_state[g], NoCallback)
        /\ h_made' = h_made
    BY <1>1, <1>4 DEF Handles!GetToken, Handles!CopyConstruct, Handles!New
  <2>2. /\ h_live \ {h} \subseteq h_live' /\ h_live' \subseteq h_live \cup {h}
        /\ h \in h_live' /\ Makes(h, h_state[g])
        /\ h_state[g] \in h_made' \cup {NoCallback}
        /\ Handles!Recount(h, h_state[g], h_state[h])
    BY <1>0, <1>1, <2>1 DEF Makes
  <2> QED
    BY <1>1, <2>1, <2>2, ReferKept
<1>5. ASSUME NEW h \in Objects, NEW g \in Objects, Handles!CopyAssign(h, g)
      PROVE  HandlesInv'
  <2>1. /\ h_live' = h_live /\ h \in h_live /\ h_made' = h_made
        /\ Handles!Refer(h, h_state[g]) /\ Handles!Recount(h, h_state[g], h_state[h])
    BY <1>5 DEF Handles!CopyAssign
  <2>2. /\ h_live \ {h} \subseteq h_live' /\ h_live' \subseteq h_live \cup {h}
        /\ Makes(h, h_state[g]) /\ h_state[g] \in h_made' \cup {NoCallback}
    BY <1>0, <1>1, <2>1 DEF Makes
  <2> QED
    BY <1>1, <2>1, <2>2, ReferKept
<1>6. ASSUME NEW h \in Objects, Handles!Destroy(h) PROVE HandlesInv'
  <2>1. /\ h_live' = h_live \ {h} /\ h_made' = h_made
        /\ Handles!Refer(h, NoCallback) /\ Handles!Recount(h, NoCallback, h_state[h])
    BY <1>6 DEF Handles!Destroy
  <2>2. /\ h_live \ {h} \subseteq h_live' /\ h_live' \subseteq h_live \cup {h}
        /\ Makes(h, NoCallback)
    BY <1>0, <2>1 DEF Makes
  <2> QED
    BY <1>1, <2>1, <2>2, ReferKept
<1>7. ASSUME NEW h \in Objects, NEW g \in Objects,
             Handles!MoveConstruct(h, g) \/ Handles!Swap(h, g)
      PROVE  HandlesInv'
  <2>1. /\ Handles!SameClass(h, g) /\ h # g /\ g \in h_live
        /\ h_live' = h_live \cup {h}
        /\ h_state' = [h_state EXCEPT ![h] = h_state[g], ![g] = h_state[h]]
        /\ UNCHANGED <<h_made, h_deleted, h_tokens, h_sources>>
    <3>1. CASE Handles!MoveConstruct(h, g)
      BY <1>1, <3>1 DEF Handles!MoveConstruct, Handles!SameClass, Handles!New
    <3>2. CASE Handles!Swap(h, g)
      BY <3>2 DEF Handles!Swap, Handles!SameClass
    <3> QED
      BY <1>7, <3>1, <3>2
  <2>2. /\ h_state' \in [Objects -> States \cup {NoCallback}]
        /\ h_state'[h] = h_state[g] /\ h_state'[g] = h_state[h]
        /\ \A k \in Objects \ {h, g} : h_state'[k] = h_state[k]
        /\ Gives(h, g)
    BY <1>0, <2>1 DEF Gives, Differ
  <2>3. \A class \in {Tokens, Sources}, x \in States :
            Count(h_state', class, x) = Count(h_state, class, x)
    <3> SUFFICES ASSUME NEW class \in {Tokens, Sources}, NEW x \in States
                 PROVE  Count(h_state', class, x) = Count(h_state, class, x)
      OBVIOUS
    <3>1. Count(h_state', class, x) = Count(h_state, class, x)
            - One(h, class, h_state[h], x) + One(h, class, h_state'[g], x)
      BY <2>2, CountOfTwo DEF Shifts
    <3>2. One(h, class, h_state[h], x) \in Nat /\ Count(h_state, class, x) \in Nat
      BY OneMore DEF One, Count, Refs
    <3> QED
      BY <2>2, <3>1, <3>2
  <2>4. Placed'
    BY <1>1, <2>1, <2>2 DEF Placed, Objects, Handles!Objects
  <2> QED
    BY <1>0, <2>1, <2>2, <2>3, <2>4, HandlesMoved
<1>8. ASSUME NEW h \in Objects, NEW g \in Objects, Handles!MoveAssign(h, g)
      PROVE  HandlesInv'
  <2>1. /\ Handles!SameClass(h, g) /\ h # g /\ h_live' = h_live /\ h_made' = h_made
        /\ h_state' = [h_state EXCEPT ![h] = h_state[g], ![g] = NoCallback]
        /\ Handles!Recount(h, NoCallback, h_state[h]) /\ {h, g} \subseteq h_live
    BY <1>8 DEF Handles!MoveAssign, Handles!SameClass
  <2>2. /\ h_state' \in [Objects -> States \cup {NoCallback}]
        /\ h_state'[h] = h_state[g] /\ h_state'[g] = NoCallback
        /\ \A k \in Objects \ {h, g} : h_state'[k] = h_state[k]
        /\ Gives(h, g)
    BY <1>0, <2>1 DEF Gives, Differ
  <2>3. Shifts(h, h_state[h], NoCallback)
    BY <2>2, CountOfTwo
  <2>4. Placed' /\ Makes(h, NoCallback) /\ h_live' \subseteq Objects
    BY <1>0, <1>1, <2>1, <2>2 DEF Placed, Makes, Objects, Handles!Objects
  <2> QED
    BY <1>1, <2>1, <2>2, <2>3, <2>4, HandlesStep
<1>9. CASE UNCHANGED Handles!vars
  <2>1. UNCHANGED <<h_live, h_state, h_made, h_deleted, h_tokens, h_sources>>
    BY <1>9 DEF Handles!vars
  <2>2. Placed'
    BY <1>0, <2>1 DEF Placed, Objects, Handles!Objects
  <2> QED
    BY <1>0, <2>1, <2>2, HandlesMoved
<1> QED
  BY <1>2, <1>3, <1>4, <1>5, <1>6, <1>7, <1>8, <1>9 DEF Handles!Next, Objects

\* What the invariant says of the counts.
LEMMA HandlesSafe == HandlesInv => Handles!ReferencesCounted
<1> SUFFICES ASSUME HandlesInv PROVE Handles!ReferencesCounted
  OBVIOUS
<1>0. /\ h_made \subseteq States /\ NoCallback \notin States /\ h_deleted = {}
      /\ Placed /\ CountsRight /\ h_live \subseteq Objects
  BY DEF HandlesInv, Handles!TypeOK, Objects
<1>1. ASSUME NEW s \in h_made, NEW class \in {Tokens, Sources}
      PROVE  Handles!Referring(class, s) = Count(h_state, class, s)
  <2>1. {h \in h_live \cap class : h_state[h] = s} = Refs(h_state, class, s)
    BY <1>0 DEF Refs, Placed, Objects, Handles!Objects
  <2> QED
    BY <2>1, SameCardinality DEF Handles!Referring, Count
<1> QED
  BY <1>0, <1>1 DEF Handles!ReferencesCounted, CountsRight

------------------------------------------------------------------------------
(* The theorems                                                            *)

\* What a step of each component keeps, a step of the whole keeps.
LEMMA EachSteps ==
    ASSUME [AllNext]_<<component, vars, h_vars>>
    PROVE  [Next]_vars /\ [Handles!Next]_(Handles!vars)
BY DEF AllNext, h_vars, Handles!vars

\* Both keep their invariants.
LEMMA BothKept == AllSpec => [](StateInv /\ HandlesInv)
<1>1. AllInit => StateInv /\ HandlesInv
  BY StateStart, HandlesStart DEF AllInit
<1>2. StateInv /\ HandlesInv /\ [AllNext]_<<component, vars, h_vars>>
        => (StateInv /\ HandlesInv)'
  BY EachSteps, StateKept, HandlesKept
<1> QED
  BY <1>1, <1>2, PTL DEF AllSpec

\* Types, and the reference counts: every token and registered callback is
\* counted where it refers to, and a state counts no fewer sources than refer to
\* it, through every mix of copies, moves, swaps and assignments; no object is
\* left with a state that was freed (stdlib/stop_token.hpp).
THEOREM ReferencesRight == AllSpec => []Consistent
<1>1. StateInv /\ HandlesInv => Consistent
  BY HandlesSafe DEF Consistent, StateInv, HandlesInv
<1> QED
  BY <1>1, BothKept, PTL

\* request_stop() never touches a stop_callback that is gone, whichever thread
\* destroys it while it runs or waits to be run, and the list holds none.
THEOREM CallbacksExist == AllSpec => []NoUseAfterDestroy
BY BothKept, StateSafe, PTL

\* When request_stop() returns true no callback is left in the list, although it
\* returns on what it saw of the list before the last callback ran.
THEOREM NoneLeft == AllSpec => RequestLeavesNothing
<1>1. StateInv /\ [AllNext]_<<component, vars, h_vars>> =>
        [\A t \in Threads :
            pc[t] \in {"pop", "in_callback"} /\ pc'[t] = "idle" => list' = <<>>]_vars
  BY EachSteps, StateReturns
<1> QED
  BY <1>1, BothKept, PTL DEF AllSpec, RequestLeavesNothing
==============================================================================
