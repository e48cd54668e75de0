------------------------ MODULE FastSharedMutexProofs ------------------------
(***************************************************************************)
(* What is proved of sync::fast_shared_mutex for any finite set of threads *)
(* and any number of failed attempts that the long counter has room for:   *)
(* readers and a writer are never inside together, a writer never waits    *)
(* for fewer readers than are still to leave, and it waits for exactly     *)
(* those as long as the int of unlock() has room for the failed attempts.  *)
(***************************************************************************)
EXTENDS FastSharedMutex, FiniteSetTheorems, TLAPS

USE ThreadsAssumption, MaxReadersAssumption

\* How many threads are at a label.
N(label) == Cardinality(At(label))

\* Where the holder of wrmtx_ may be in its call.
Stages == {"rdcount_sub", "rdwait_add", "wrsem_wait", "writing", "rdsem_post",
           "wrmtx_unlock", "try_sub", "try_add", "try_restore"}

\* Where a thread is between taking MaxReaders off rdcount_ and adding it.
ClaimLabels == {"rdwait_add", "wrsem_wait", "writing", "try_add", "try_restore"}

\* The tokens for the writer, those on their way included.
Posts == wrsem_ + N("wrsem_post")

------------------------------------------------------------------------------
(* Counting threads                                                        *)

\* The numbers of threads are natural numbers, in this state and the next one.
LEMMA Counting ==
    /\ Cardinality(Threads) \in Nat
    /\ \A label : N(label) \in Nat /\ N(label)' \in Nat
<1>1. \A label : At(label) \in SUBSET Threads /\ At(label)' \in SUBSET Threads
  BY DEF At
<1>2. \A S \in SUBSET Threads : Cardinality(S) \in Nat
  BY FS_Subset, FS_CardinalityType
<1> QED
  BY <1>1, <1>2, FS_CardinalityType DEF N

\* A thread that goes on changes the numbers of threads at two labels.
LEMMA Moves ==
    ASSUME pc \in [Threads -> Labels], NEW t \in Threads,
           NEW from, NEW to \in Labels, from # to, Goto(t, from, to)
    PROVE  /\ N(from) > 0 /\ N(from)' = N(from) - 1
           /\ N(to)' = N(to) + 1
           /\ \A l : l # from /\ l # to => N(l)' = N(l)
<1>1. At(from)' = At(from) \ {t} /\ t \in At(from)
  BY DEF At, Goto
<1>2. At(to)' = At(to) \cup {t} /\ t \notin At(to)
  BY DEF At, Goto
<1>3. \A l : l # from /\ l # to => At(l)' = At(l)
  BY DEF At, Goto
<1>4. IsFiniteSet(At(from)) /\ IsFiniteSet(At(to))
  BY FS_Subset DEF At
<1>5. Cardinality(At(from) \ {t}) = Cardinality(At(from)) - 1
  BY <1>1, <1>4, FS_RemoveElement
<1>6. Cardinality(At(to) \cup {t}) = Cardinality(At(to)) + 1
  BY <1>2, <1>4, FS_AddElement
<1>7. N(from)' = N(from) - 1 /\ N(from)' \in Nat /\ N(from) \in Nat
  BY <1>1, <1>5, Counting DEF N
<1> QED
  BY <1>2, <1>3, <1>6, <1>7 DEF N

\* A thread that stays where it is changes none.
LEMMA Stays ==
    ASSUME pc' = pc
    PROVE  /\ \A l : N(l)' = N(l)
           /\ Claimed' = Claimed
BY DEF N, At, Claimed

\* Claimed, told by labels.
LEMMA ClaimedIs ==
    /\ Claimed = {u \in Threads : pc[u] \in ClaimLabels}
    /\ Claimed' = {u \in Threads : pc'[u] \in ClaimLabels}
BY DEF Claimed, ClaimLabels, At

------------------------------------------------------------------------------
(* The invariant                                                           *)

Types ==
    /\ rdcount_ \in Int /\ rdwait_ \in Int /\ count \in Int
    /\ rdsem_ \in Nat /\ wrsem_ \in Nat
    /\ wrmtx_ \in SUBSET Threads
    /\ pc \in [Threads -> Labels]

\* Whoever is in a writer's call, past wrmtx_, is its only holder.
OneWriter ==
    /\ \A t \in Threads : pc[t] \in Stages => wrmtx_ = {t}
    /\ \A t, u \in wrmtx_ : t = u

\* No token of rdsem_ without a reader that waits for one or a failed call,
\* which uses up a place as a reader does.
TokensWanted ==
    /\ Phantoms \in 0 .. MaxPhantoms
    /\ rdsem_ <= N("rdsem_wait") + Phantoms

\* One token at most goes to a writer, and only when nobody is left to leave;
\* rdwait_ is behind the readers that are leaving only until the writer has
\* added those it found.
OnePost ==
    /\ Posts <= 1
    /\ rdwait_ > 0 => Posts = 0
    /\ (\A t \in Threads : pc[t] \notin {"rdwait_add", "try_add"})
            => rdwait_ >= N("rdwait_sub")

\* While no writer has claimed the lock nothing is on its way: every waiting
\* reader, and every failed call, has its token unless an int was too small.
Nothing ==
    /\ rdwait_ = 0
    /\ N("rdwait_sub") = 0
    /\ Posts = 0

Quiet ==
    (\A t \in wrmtx_ : pc[t] \in {"rdcount_sub", "try_sub", "wrmtx_unlock"})
    => Nothing /\ Covers(N("rdsem_wait") + Phantoms, rdsem_)

\* The account of the writer under way, at each step of its call.
Stage(t) ==
    /\ pc[t] = "rdsem_post" =>
        /\ Nothing
        /\ count < 0
        /\ Covers(N("rdsem_wait") + Phantoms, rdsem_ - count)
    /\ pc[t] \in {"rdwait_add", "try_add"} =>
        /\ count \in 0 .. MaxReaders
        /\ rdwait_ <= 0
        /\ Covers(rdwait_ + (MaxReaders - count), ToDrain)
        /\ Posts = 0
    /\ pc[t] = "wrsem_wait" =>
        /\ Covers(rdwait_, ToDrain)
        /\ Posts = IF rdwait_ = 0 THEN 1 ELSE 0
    /\ pc[t] = "writing" => Nothing /\ ToDrain = 0
    /\ pc[t] = "try_restore" => rdwait_ >= ToDrain

Inv ==
    /\ Types
    /\ OneWriter
    /\ TokensWanted
    /\ OnePost
    /\ Quiet
    /\ \A t \in Threads : Stage(t)

\* What Phantoms says with at most one claim: rdcount_ lacks MaxReaders for a
\* claim and one for every reader and every failed call.
Lacking == (IF Claimed = {} THEN MaxReaders ELSE 0)
           - N("reading") - N("rdsem_wait") - rdcount_

\* Phantoms is what the sizes of the other sets leave over.
LEMMA Count == Types /\ OneWriter => Phantoms = Lacking
<1> SUFFICES ASSUME Types, OneWriter PROVE Phantoms = Lacking
  OBVIOUS
<1> USE DEF Lacking
<1>1. Cardinality(At("reading") \cup At("rdsem_wait"))
        = N("reading") + N("rdsem_wait")
  <2>1. /\ IsFiniteSet(At("reading")) /\ IsFiniteSet(At("rdsem_wait"))
        /\ At("reading") \cap At("rdsem_wait") = {}
    BY FS_Subset DEF At
  <2>2. Cardinality(At("reading") \cap At("rdsem_wait")) = 0
    BY <2>1, FS_EmptySet
  <2>3. Cardinality(At("reading") \cup At("rdsem_wait"))
          = Cardinality(At("reading")) + Cardinality(At("rdsem_wait"))
            - Cardinality(At("reading") \cap At("rdsem_wait"))
    BY <2>1, FS_Union
  <2> QED
    BY <2>2, <2>3, Counting DEF N
<1>2. CASE Claimed = {}
  <2>1. Cardinality(Claimed) = 0
    BY <1>2, FS_EmptySet
  <2> QED
    BY <1>1, <1>2, <2>1, Counting DEF Phantoms, Types
<1>3. CASE Claimed # {}
  <2>1. PICK t \in Threads : pc[t] \in ClaimLabels
    BY <1>3, ClaimedIs
  <2>2. Claimed = {t}
    BY <2>1, ClaimedIs DEF OneWriter, Stages, ClaimLabels
  <2>3. Cardinality(Claimed) = 1
    BY <2>2, FS_Singleton
  <2> QED
    BY <1>1, <1>3, <2>3, Counting DEF Phantoms, Types
<1> QED
  BY <1>2, <1>3

\* The same in the next state.
LEMMA NextCount == Types' /\ OneWriter' => (Phantoms = Lacking)'
BY Count, PTL

\* The readers are no more than the threads, and fewer if there is another one.
LEMMA Readers ==
    /\ N("reading") + N("rdsem_wait") <= Cardinality(Threads)
    /\ \A t \in Threads : pc[t] \notin {"reading", "rdsem_wait"} =>
            N("reading") + N("rdsem_wait") < Cardinality(Threads)
<1> DEFINE Both == At("reading") \cup At("rdsem_wait")
<1>1. Cardinality(Both) = N("reading") + N("rdsem_wait")
  <2>1. /\ IsFiniteSet(At("reading")) /\ IsFiniteSet(At("rdsem_wait"))
        /\ At("reading") \cap At("rdsem_wait") = {}
    BY FS_Subset DEF At
  <2>2. Cardinality(At("reading") \cap At("rdsem_wait")) = 0
    BY <2>1, FS_EmptySet
  <2>3. Cardinality(Both)
          = Cardinality(At("reading")) + Cardinality(At("rdsem_wait"))
            - Cardinality(At("reading") \cap At("rdsem_wait"))
    BY <2>1, FS_Union
  <2> QED
    BY <2>2, <2>3, Counting DEF N
<1>2. Both \subseteq Threads
  BY DEF At
<1>3. Cardinality(Both) <= Cardinality(Threads)
  BY <1>2, FS_Subset
<1>4. ASSUME NEW t \in Threads, pc[t] \notin {"reading", "rdsem_wait"}
      PROVE  Cardinality(Both) < Cardinality(Threads)
  <2>1. Both # Threads
    BY <1>4 DEF At
  <2>2. Cardinality(Both) # Cardinality(Threads)
    BY <1>2, <2>1, FS_Subset
  <2>3. Cardinality(Both) \in Nat /\ Cardinality(Threads) \in Nat
    BY <1>1, Counting
  <2> HIDE DEF Both
  <2> QED
    BY <1>3, <2>2, <2>3
<1> HIDE DEF Both
<1> QED
  BY <1>1, <1>3, <1>4

\* What a thread reads off rdcount_ tells it whether a writer has claimed the
\* lock: this is where the counter's room for readers and failed calls counts.
LEMMA Gate ==
    ASSUME Types, OneWriter, TokensWanted
    PROVE  /\ Claimed # {} => rdcount_ <= -N("reading") /\ rdcount_ >= -MaxReaders
           /\ Claimed = {} => rdcount_ \in 0 .. MaxReaders
           /\ Claimed = {} =>
                \A t \in Threads :
                    pc[t] \notin {"reading", "rdsem_wait"} => rdcount_ > 0
<1>1. Phantoms = Lacking /\ Phantoms \in 0 .. MaxPhantoms /\ rdcount_ \in Int
  BY Count DEF TokensWanted, Types
<1> QED
  BY <1>1, Readers, Counting DEF Lacking

\* Failed calls only add up: what fits the int of unlock() fitted it before.
LEMMA FitLasts ==
    ASSUME Phantoms \in Int, Phantoms' \in Int, Phantoms' >= Phantoms
    PROVE  FitsInt' => FitsInt
BY Counting DEF FitsInt

\* The same when no call has failed.
LEMMA FitStays == ASSUME Phantoms' = Phantoms PROVE FitsInt' = FitsInt
BY DEF FitsInt

\* An int holds what fits it and never less than a negative number: the tokens
\* that unlock() posts are never too many.
LEMMA Narrowing ==
    ASSUME NEW n \in Int, n <= 0
    PROVE  /\ Narrow(n) \in -(MaxInt + 1) .. MaxInt
           /\ Narrow(n) >= n
           /\ n >= -(MaxInt + 1) => Narrow(n) = n
<1> DEFINE width == 2 * (MaxInt + 1)
           shifted == n + MaxInt + 1
<1>1. width \in Nat \ {0} /\ shifted \in Int /\ shifted < width
  OBVIOUS
<1>2. Narrow(n) = (shifted % width) - (MaxInt + 1)
  BY DEF Narrow
<1> HIDE DEF width, shifted
<1>3. shifted % width \in 0 .. width - 1
  BY <1>1
<1>4. shifted >= 0 => shifted % width = shifted
  BY <1>1
<1> USE DEF width, shifted
<1>5. CASE n >= -(MaxInt + 1)
  BY <1>2, <1>3, <1>4, <1>5
<1>6. CASE n < -(MaxInt + 1)
  BY <1>2, <1>3, <1>6
<1> QED
  BY <1>5, <1>6

------------------------------------------------------------------------------
(* Every step keeps the invariant                                          *)

\* A new lock is quiet.
LEMMA Starts == Init => Inv
<1> SUFFICES ASSUME Init PROVE Inv
  OBVIOUS
<1>1. \A l : l # "idle" => N(l) = 0
  <2>1. \A l : l # "idle" => At(l) = {}
    BY DEF Init, At
  <2> QED
    BY <2>1, FS_EmptySet DEF N
<1>2. Claimed = {}
  BY ClaimedIs DEF Init, ClaimLabels
<1>3. Types /\ OneWriter
  BY DEF Init, Types, OneWriter, Labels, Stages
<1>4. Phantoms = 0
  BY <1>1, <1>2, <1>3, Count DEF Lacking, Init
<1>5. TokensWanted /\ OnePost /\ Quiet
  BY <1>1, <1>4 DEF Init, TokensWanted, OnePost, Quiet, Covers, Nothing, Posts
<1>6. \A t \in Threads : Stage(t)
  BY DEF Init, Stage
<1> QED
  BY <1>3, <1>5, <1>6 DEF Inv

\* A reader goes on: the writer under way stays where it is.
LEMMA ReaderGoes ==
    ASSUME Types, OneWriter, NEW t \in Threads,
           NEW from, NEW to \in Labels \ Stages, from \notin Stages,
           Goto(t, from, to), wrmtx_' = wrmtx_
    PROVE  /\ OneWriter' /\ Claimed' = Claimed
           /\ \A u \in Threads : pc[u] \in Stages \/ pc'[u] \in Stages
                => pc'[u] = pc[u]
<1>1. /\ pc[t] \notin Stages /\ pc'[t] \notin Stages
      /\ \A u \in Threads \ {t} : pc'[u] = pc[u]
  BY DEF Goto, Types
<1>2. Claimed' = Claimed
  BY <1>1, ClaimedIs DEF ClaimLabels, Stages
<1> QED
  BY <1>1, <1>2 DEF OneWriter

\* The writer that has claimed the lock holds wrmtx_.
LEMMA Claimant ==
    ASSUME OneWriter
    PROVE  /\ Claimed # {} =>
                \E w \in Threads : wrmtx_ = {w} /\ pc[w] \in ClaimLabels
           /\ Claimed = {} => \A u \in Threads : pc[u] \notin ClaimLabels
BY ClaimedIs DEF OneWriter, Stages, ClaimLabels

\* A reader that comes has to wait if the lock is claimed, and enters if it is
\* not.  A failed try_lock_shared() counts like a reader that waits.
LEMMA LockSharedKeeps ==
    ASSUME Inv, NEW t \in Threads, LockShared(t) \/ TryLockShared(t)
    PROVE  Inv'
<1> USE DEF Inv
<1>1. /\ Types' /\ pc[t] = "idle" /\ rdcount_' = rdcount_ - 1
      /\ UNCHANGED <<rdwait_, rdsem_, wrsem_, wrmtx_, count>>
  BY DEF Types, LockShared, TryLockShared, Goto, Labels
<1>2. \A l : N(l) \in Nat
  BY Counting
<1>3. Phantoms = Lacking /\ Phantoms \in Nat
  BY Count DEF TokensWanted
<1>4. CASE Goto(t, "idle", "idle")
  <2>1. rdcount_ < 1 /\ Phantoms < MaxPhantoms
    BY <1>1, <1>4 DEF LockShared, TryLockShared, Goto, Types
  <2>2. pc' = pc
    BY <1>4 DEF Goto, Types
  <2>3. (\A l : N(l)' = N(l)) /\ Claimed' = Claimed
    BY <2>2, Stays
  <2>4. OneWriter'
    BY <1>1, <2>2 DEF OneWriter
  <2>5. Phantoms' = Phantoms + 1
    <3>1. (Phantoms = Lacking)'
      BY <1>1, <2>4, NextCount
    <3>2. Lacking' = Lacking + 1
      BY <1>1, <1>2, <2>3 DEF Lacking, Types
    <3> QED
      BY <1>3, <3>1, <3>2
  <2>6. Claimed # {}
    BY <1>1, <2>1, Gate DEF Types
  <2>7. TokensWanted'
    BY <1>1, <1>2, <1>3, <2>1, <2>3, <2>5 DEF TokensWanted, Types
  <2>8. OnePost' /\ Nothing' = Nothing /\ ToDrain' = ToDrain /\ Posts' = Posts
    BY <1>1, <2>2, <2>3 DEF OnePost, Posts, Nothing, ToDrain, N
  <2>9. PICK w \in Threads : wrmtx_ = {w} /\ pc[w] \in ClaimLabels
    BY <2>6, Claimant
  <2>10. FitsInt' => FitsInt
    BY <1>3, <2>5, FitLasts
  <2>11. Quiet' /\ \A u \in Threads : Stage(u)'
    BY <1>1, <2>2, <2>8, <2>9, <2>10
       DEF Quiet, Stage, Covers, ClaimLabels, OneWriter, Stages
  <2> QED
    BY <1>1, <2>4, <2>7, <2>8, <2>11
<1>5. CASE Goto(t, "idle", "rdsem_wait")
  <2>1. rdcount_ < 1
    BY <1>1, <1>5 DEF LockShared, TryLockShared, Goto, Types
  <2>2. /\ N("rdsem_wait")' = N("rdsem_wait") + 1
        /\ N("reading")' = N("reading") /\ N("rdwait_sub")' = N("rdwait_sub")
        /\ N("wrsem_post")' = N("wrsem_post")
    BY <1>5, Moves DEF Types, Labels
  <2>3. /\ OneWriter' /\ Claimed' = Claimed
        /\ \A u \in Threads : pc[u] \in Stages \/ pc'[u] \in Stages
             => pc'[u] = pc[u]
    BY <1>1, <1>5, ReaderGoes DEF Labels, Stages
  <2>4. Phantoms' = Phantoms
    BY <1>1, <1>2, <1>3, <2>2, <2>3, NextCount DEF Lacking, Types
  <2>fit. FitsInt' = FitsInt
    BY <2>4, FitStays
  <2>5. TokensWanted'
    BY <1>1, <1>2, <1>3, <2>2, <2>4 DEF TokensWanted, Types
  <2>6. Nothing' = Nothing /\ ToDrain' = ToDrain /\ Posts' = Posts
    BY <1>1, <2>2 DEF Posts, Nothing, ToDrain, N
  <2>7. OnePost'
    BY <1>1, <2>2, <2>3, <2>6 DEF OnePost, Stages
  <2>8. PICK w \in Threads : wrmtx_ = {w} /\ pc[w] \in ClaimLabels
    BY <1>1, <2>1, Gate, Claimant DEF Types
  <2>9. Quiet' /\ \A u \in Threads : Stage(u)'
    BY <1>1, <2>fit, <2>3, <2>6, <2>8
       DEF Quiet, Stage, Covers, ClaimLabels, OneWriter, Stages
  <2> QED
    BY <1>1, <2>3, <2>5, <2>7, <2>9
<1>6. CASE Goto(t, "idle", "reading")
  <2>1. rdcount_ >= 1
    BY <1>1, <1>6 DEF LockShared, TryLockShared, Goto, Types
  <2>2. /\ N("reading")' = N("reading") + 1
        /\ N("rdsem_wait")' = N("rdsem_wait")
        /\ N("rdwait_sub")' = N("rdwait_sub")
        /\ N("wrsem_post")' = N("wrsem_post")
    BY <1>6, Moves DEF Types, Labels
  <2>3. /\ OneWriter' /\ Claimed' = Claimed
        /\ \A u \in Threads : pc[u] \in Stages \/ pc'[u] \in Stages
             => pc'[u] = pc[u]
    BY <1>1, <1>6, ReaderGoes DEF Labels, Stages
  <2>4. Phantoms' = Phantoms
    BY <1>1, <1>2, <1>3, <2>2, <2>3, NextCount DEF Lacking, Types
  <2>fit. FitsInt' = FitsInt
    BY <2>4, FitStays
  <2>5. TokensWanted'
    BY <1>1, <2>2, <2>4 DEF TokensWanted
  <2>6. Nothing' = Nothing /\ Posts' = Posts
    BY <1>1, <2>2 DEF Posts, Nothing
  <2>7. OnePost'
    BY <1>1, <2>2, <2>3, <2>6 DEF OnePost, Stages
  <2>8. \A u \in Threads : pc[u] \notin ClaimLabels
    BY <1>1, <1>2, <2>1, Gate, Claimant DEF Types
  <2>9. Quiet'
    BY <1>1, <2>fit, <2>2, <2>3, <2>4, <2>6 DEF Quiet, Covers, Stages, Types
  <2>10. \A u \in Threads : Stage(u)'
    BY <1>1, <2>fit, <2>2, <2>3, <2>4, <2>6, <2>8
       DEF Stage, Covers, Stages, ClaimLabels
  <2> QED
    BY <1>1, <2>3, <2>5, <2>7, <2>9, <2>10
<1> QED
  BY <1>4, <1>5, <1>6 DEF LockShared, TryLockShared

\* A reader takes a token: it will be seen off in place of the token.
LEMMA RdSemTakeKeeps ==
    ASSUME Inv, NEW t \in Threads, RdSemTake(t)
    PROVE  Inv'
<1> USE DEF Inv
<1>1. /\ Types' /\ Goto(t, "rdsem_wait", "reading")
      /\ rdsem_ > 0 /\ rdsem_' = rdsem_ - 1
      /\ UNCHANGED <<rdcount_, rdwait_, wrsem_, wrmtx_, count>>
  BY DEF Types, RdSemTake, RdSem!Acquire, Goto, Labels
<1>2. \A l : N(l) \in Nat
  BY Counting
<1>3. Phantoms = Lacking /\ Phantoms \in Nat
  BY Count DEF TokensWanted
<1>4. /\ N("reading")' = N("reading") + 1
      /\ N("rdsem_wait")' = N("rdsem_wait") - 1
      /\ N("rdwait_sub")' = N("rdwait_sub")
      /\ N("wrsem_post")' = N("wrsem_post")
  BY <1>1, Moves DEF Types, Labels
<1>5. /\ OneWriter' /\ Claimed' = Claimed
      /\ \A u \in Threads : pc[u] \in Stages \/ pc'[u] \in Stages
           => pc'[u] = pc[u]
  BY <1>1, ReaderGoes DEF Labels, Stages
<1>6. Phantoms' = Phantoms
  BY <1>1, <1>2, <1>3, <1>4, <1>5, NextCount DEF Lacking, Types
<1>fit. FitsInt' = FitsInt
  BY <1>6, FitStays
<1>7. TokensWanted'
  BY <1>1, <1>2, <1>3, <1>4, <1>6 DEF TokensWanted, Types
<1>8. Nothing' = Nothing /\ Posts' = Posts
  BY <1>1, <1>4 DEF Posts, Nothing
<1>9. ToDrain' = ToDrain
  BY <1>1, <1>2, <1>4 DEF ToDrain, N, Types
<1>10. OnePost'
  BY <1>1, <1>4, <1>5, <1>8 DEF OnePost, Stages
<1>11. Quiet'
  BY <1>fit, <1>1, <1>2, <1>3, <1>4, <1>5, <1>6, <1>8
     DEF Quiet, Covers, Stages, Types
<1>12. \A u \in Threads : Stage(u)'
  BY <1>fit, <1>1, <1>2, <1>3, <1>4, <1>5, <1>6, <1>8, <1>9
     DEF Stage, Covers, Stages, Types
<1> QED
  BY <1>1, <1>5, <1>7, <1>10, <1>11, <1>12

\* A reader that leaves goes to take itself off rdwait_ if the lock is claimed.
LEMMA UnlockSharedKeeps ==
    ASSUME Inv, NEW t \in Threads, UnlockShared(t)
    PROVE  Inv'
<1> USE DEF Inv
<1>1. /\ Types' /\ rdcount_' = rdcount_ + 1
      /\ UNCHANGED <<rdwait_, rdsem_, wrsem_, wrmtx_, count>>
  BY DEF Types, UnlockShared, Goto, Labels
<1>2. \A l : N(l) \in Nat
  BY Counting
<1>3. Phantoms = Lacking /\ Phantoms \in Nat
  BY Count DEF TokensWanted
<1>4. CASE rdcount_ < 0
  <2>1. Goto(t, "reading", "rdwait_sub")
    BY <1>4 DEF UnlockShared
  <2>2. /\ N("reading")' = N("reading") - 1
        /\ N("rdsem_wait")' = N("rdsem_wait")
        /\ N("rdwait_sub")' = N("rdwait_sub") + 1
        /\ N("wrsem_post")' = N("wrsem_post")
    BY <2>1, Moves DEF Types, Labels
  <2>3. /\ OneWriter' /\ Claimed' = Claimed
        /\ \A u \in Threads : pc[u] \in Stages \/ pc'[u] \in Stages
             => pc'[u] = pc[u]
    BY <1>1, <2>1, ReaderGoes DEF Labels, Stages
  <2>4. Phantoms' = Phantoms
    BY <1>1, <1>2, <1>3, <2>2, <2>3, NextCount DEF Lacking, Types
  <2>fit. FitsInt' = FitsInt
    BY <2>4, FitStays
  <2>5. TokensWanted'
    BY <1>1, <2>2, <2>4 DEF TokensWanted
  <2>6. Posts' = Posts
    BY <1>1, <2>2 DEF Posts
  <2>7. ToDrain' = ToDrain /\ ToDrain = N("reading") + rdsem_ + N("rdwait_sub")
    BY <1>1, <1>2, <2>2 DEF ToDrain, N, Types
  <2>8. PICK w \in Threads : wrmtx_ = {w} /\ pc[w] \in ClaimLabels
    BY <1>1, <1>4, Gate, Claimant DEF Types
  <2>9. ToDrain > 0
    BY <1>2, <2>2, <2>7, Counting DEF Types
  <2>10. pc[w] # "writing" /\ pc'[w] = pc[w]
    BY <2>3, <2>8, <2>9 DEF Stage, ClaimLabels, Stages
  <2>11. OnePost'
    <3>1. Posts' <= 1 /\ (rdwait_' > 0 => Posts' = 0)
      BY <1>1, <2>6 DEF OnePost
    <3>2. ASSUME pc[w] \in {"wrsem_wait", "try_restore"}
          PROVE  rdwait_' >= N("rdwait_sub")'
      <4>1. rdwait_ >= ToDrain
        BY <3>2 DEF Stage, Covers
      <4>2. N("rdwait_sub")' \in Nat /\ N("reading")' \in Nat
        BY Counting
      <4> QED
        BY <1>1, <1>2, <2>2, <2>7, <4>1, <4>2 DEF Types
    <3> QED
      BY <2>8, <2>10, <3>1, <3>2 DEF OnePost, ClaimLabels
  <2>12. Quiet'
    BY <1>1, <2>8, <2>10 DEF Quiet, ClaimLabels
  <2>13. \A u \in Threads : Stage(u)'
    BY <1>1, <2>fit, <2>3, <2>6, <2>7, <2>8, <2>10
       DEF Stage, Covers, Stages, ClaimLabels, OneWriter
  <2> QED
    BY <1>1, <2>3, <2>5, <2>11, <2>12, <2>13
<1>5. CASE ~(rdcount_ < 0)
  <2>1. Goto(t, "reading", "idle")
    BY <1>5 DEF UnlockShared
  <2>2. /\ N("reading") > 0 /\ N("reading")' = N("reading") - 1
        /\ N("rdsem_wait")' = N("rdsem_wait")
        /\ N("rdwait_sub")' = N("rdwait_sub")
        /\ N("wrsem_post")' = N("wrsem_post")
    BY <2>1, Moves DEF Types, Labels
  <2>3. /\ OneWriter' /\ Claimed' = Claimed
        /\ \A u \in Threads : pc[u] \in Stages \/ pc'[u] \in Stages
             => pc'[u] = pc[u]
    BY <1>1, <2>1, ReaderGoes DEF Labels, Stages
  <2>4. Phantoms' = Phantoms
    BY <1>1, <1>2, <1>3, <2>2, <2>3, NextCount DEF Lacking, Types
  <2>fit. FitsInt' = FitsInt
    BY <2>4, FitStays
  <2>5. TokensWanted'
    BY <1>1, <2>2, <2>4 DEF TokensWanted
  <2>6. Nothing' = Nothing /\ Posts' = Posts
    BY <1>1, <2>2 DEF Posts, Nothing
  <2>7. \A u \in Threads : pc[u] \notin ClaimLabels
    BY <1>1, <1>2, <1>5, <2>2, Gate, Claimant DEF Types
  <2>8. OnePost'
    BY <1>1, <2>2, <2>3, <2>6 DEF OnePost, Stages
  <2>9. Quiet'
    BY <1>1, <2>fit, <2>2, <2>3, <2>4, <2>6 DEF Quiet, Covers, Stages, Types
  <2>10. \A u \in Threads : Stage(u)'
    BY <1>1, <2>fit, <2>2, <2>3, <2>4, <2>6, <2>7
       DEF Stage, Covers, Stages, ClaimLabels
  <2> QED
    BY <1>1, <2>3, <2>5, <2>8, <2>9, <2>10
<1> QED
  BY <1>4, <1>5

\* A reader takes itself off rdwait_, the last one to post the writer's token.
LEMMA RdWaitSubKeeps ==
    ASSUME Inv, NEW t \in Threads, RdWaitSub(t)
    PROVE  Inv'
<1> USE DEF Inv
<1> DEFINE to == IF rdwait_ = 1 THEN "wrsem_post" ELSE "idle"
<1>1. /\ Types' /\ rdwait_' = rdwait_ - 1 /\ Goto(t, "rdwait_sub", to)
      /\ UNCHANGED <<rdcount_, rdsem_, wrsem_, wrmtx_, count>>
  BY DEF Types, RdWaitSub, Goto, Labels
<1>2. \A l : N(l) \in Nat /\ N(l)' \in Nat
  BY Counting
<1>3. Phantoms = Lacking /\ Phantoms \in Nat
  BY Count DEF TokensWanted
<1>4. /\ N("rdwait_sub") > 0 /\ N("rdwait_sub")' = N("rdwait_sub") - 1
      /\ N("reading")' = N("reading") /\ N("rdsem_wait")' = N("rdsem_wait")
      /\ N("wrsem_post")' = N("wrsem_post") + IF rdwait_ = 1 THEN 1 ELSE 0
  <2>1. CASE rdwait_ = 1
    BY <1>1, <2>1, Moves DEF Types, Labels
  <2>2. CASE rdwait_ # 1
    BY <1>1, <1>2, <2>2, Moves DEF Types, Labels
  <2> QED
    BY <2>1, <2>2
<1>5. /\ OneWriter' /\ Claimed' = Claimed
      /\ \A u \in Threads : pc[u] \in Stages \/ pc'[u] \in Stages
           => pc'[u] = pc[u]
  <2>1. to \in Labels \ Stages
    BY DEF Labels, Stages
  <2> HIDE DEF to
  <2> QED
    BY <1>1, <2>1, ReaderGoes DEF Labels, Stages
<1>6. Phantoms' = Phantoms
  BY <1>1, <1>2, <1>3, <1>4, <1>5, NextCount DEF Lacking, Types
<1>fit. FitsInt' = FitsInt
  BY <1>6, FitStays
<1>7. TokensWanted'
  BY <1>1, <1>4, <1>6 DEF TokensWanted
<1>8. Posts' = Posts + IF rdwait_ = 1 THEN 1 ELSE 0
  BY <1>1, <1>2, <1>4 DEF Posts, Types
<1>9. ToDrain' = ToDrain - 1 /\ ToDrain = N("reading") + rdsem_ + N("rdwait_sub")
  BY <1>1, <1>2, <1>4 DEF ToDrain, N, Types
<1>10. Posts \in Nat
  BY <1>2 DEF Posts, Types
<1>11. ~Nothing
  BY <1>2, <1>4 DEF Nothing
<1>12. OnePost'
  BY <1>1, <1>2, <1>4, <1>5, <1>8, <1>10 DEF OnePost, Stages, Types
<1>13. Quiet'
  BY <1>1, <1>5, <1>11 DEF Quiet, Stages, Types
<1>14. \A u \in Threads : Stage(u)'
  <2> SUFFICES ASSUME NEW u \in Threads PROVE Stage(u)'
    OBVIOUS
  <2>1. Stage(u) /\ (pc'[u] \in Stages => pc'[u] = pc[u])
    BY <1>5
  <2>2. pc'[u] # "rdsem_post" /\ pc'[u] # "writing"
    BY <1>11, <2>1 DEF Stage, Stages
  <2>3. ASSUME pc'[u] = "wrsem_wait"
        PROVE  /\ Covers(rdwait_, ToDrain)'
               /\ Posts' = IF rdwait_' = 0 THEN 1 ELSE 0
    <3>1. Covers(rdwait_, ToDrain) /\ Posts = IF rdwait_ = 0 THEN 1 ELSE 0
      BY <2>1, <2>3 DEF Stage, Stages
    <3>2. rdwait_ > 0
      BY <1>2, <1>4, <1>9, <3>1 DEF Covers, Types
    <3>3. Covers(rdwait_, ToDrain)'
      BY <1>fit, <1>1, <1>2, <1>9, <3>1 DEF Covers, Types
    <3> QED
      BY <1>1, <1>8, <3>1, <3>2, <3>3 DEF Types
  <2>4. pc'[u] = "try_restore" => rdwait_' >= ToDrain'
    BY <1>1, <1>2, <1>9, <2>1 DEF Stage, Stages, Types
  <2>5. ASSUME pc'[u] \in {"rdwait_add", "try_add"}
        PROVE  /\ count' \in 0 .. MaxReaders
               /\ rdwait_' <= 0
               /\ Covers(rdwait_ + (MaxReaders - count), ToDrain)'
               /\ Posts' = 0
    <3>1. /\ count \in 0 .. MaxReaders
          /\ rdwait_ <= 0
          /\ Covers(rdwait_ + (MaxReaders - count), ToDrain)
          /\ Posts = 0
      BY <2>1, <2>5 DEF Stage, Stages
    <3>2. Covers(rdwait_ + (MaxReaders - count), ToDrain)'
      BY <1>fit, <1>1, <1>2, <1>9, <3>1 DEF Covers, Types
    <3> QED
      BY <1>1, <1>8, <3>1, <3>2 DEF Types
  <2> QED
    BY <2>2, <2>3, <2>4, <2>5 DEF Stage
<1> QED
  BY <1>1, <1>5, <1>7, <1>12, <1>13, <1>14

\* The writer's token arrives.
LEMMA WrSemPostKeeps ==
    ASSUME Inv, NEW t \in Threads, WrSemPost(t)
    PROVE  Inv'
<1> USE DEF Inv
<1>1. /\ Types' /\ wrsem_' = wrsem_ + 1 /\ Goto(t, "wrsem_post", "idle")
      /\ UNCHANGED <<rdcount_, rdwait_, rdsem_, wrmtx_, count>>
  BY DEF Types, WrSemPost, WrSem!Release, Goto, Labels
<1>2. \A l : N(l) \in Nat
  BY Counting
<1>3. /\ N("wrsem_post")' = N("wrsem_post") - 1
      /\ N("reading")' = N("reading") /\ N("rdsem_wait")' = N("rdsem_wait")
      /\ N("rdwait_sub")' = N("rdwait_sub")
  BY <1>1, Moves DEF Types, Labels
<1>4. /\ OneWriter' /\ Claimed' = Claimed
      /\ \A u \in Threads : pc[u] \in Stages \/ pc'[u] \in Stages
           => pc'[u] = pc[u]
  BY <1>1, ReaderGoes DEF Labels, Stages
<1>5. Phantoms' = Phantoms
  <2>1. Phantoms = Lacking
    BY Count
  <2> QED
    BY <1>1, <1>2, <1>3, <1>4, <2>1, NextCount DEF Lacking, Types
<1>fit. FitsInt' = FitsInt
  BY <1>5, FitStays
<1>6. TokensWanted'
  BY <1>1, <1>3, <1>5 DEF TokensWanted
<1>7. Posts' = Posts
  BY <1>1, <1>2, <1>3 DEF Posts, Types
<1>8. Nothing' = Nothing /\ ToDrain' = ToDrain
  BY <1>1, <1>3, <1>7 DEF Nothing, ToDrain, N
<1>9. OnePost'
  BY <1>1, <1>3, <1>4, <1>7 DEF OnePost, Stages
<1>10. Quiet'
  BY <1>fit, <1>1, <1>3, <1>4, <1>5, <1>8 DEF Quiet, Covers, Stages, Types
<1>11. \A u \in Threads : Stage(u)'
  BY <1>fit, <1>1, <1>3, <1>4, <1>5, <1>7, <1>8 DEF Stage, Covers, Stages
<1> QED
  BY <1>1, <1>4, <1>6, <1>9, <1>10, <1>11

\* The step of a writer moves no reader.
LEMMA ReadersStay ==
    ASSUME Types, NEW t \in Threads,
           NEW from \in Stages \cup {"idle", "wrmtx_lock"},
           NEW to \in Stages \cup {"idle", "wrmtx_lock"},
           from # to, Goto(t, from, to)
    PROVE  /\ N("reading")' = N("reading") /\ N("rdsem_wait")' = N("rdsem_wait")
           /\ N("rdwait_sub")' = N("rdwait_sub")
           /\ N("wrsem_post")' = N("wrsem_post")
BY Moves DEF Types, Labels, Stages

\* The writer under way is the only thread in its call, before and after.
LEMMA WriterGoes ==
    ASSUME Types, OneWriter, NEW t \in Threads,
           NEW from \in Stages, NEW to \in Stages,
           Goto(t, from, to), wrmtx_' = wrmtx_
    PROVE  /\ OneWriter' /\ wrmtx_ = {t} /\ pc[t] = from /\ pc'[t] = to
           /\ \A u \in Threads : u # t => pc[u] \notin Stages /\ pc'[u] \notin Stages
           /\ Claimed  = (IF from \in ClaimLabels THEN {t} ELSE {})
           /\ Claimed' = (IF to \in ClaimLabels THEN {t} ELSE {})
<1>1. wrmtx_ = {t} /\ pc[t] = from /\ pc'[t] = to
  BY DEF OneWriter, Goto, Types
<1>2. \A u \in Threads : u # t => pc[u] \notin Stages /\ pc'[u] \notin Stages
  BY <1>1 DEF OneWriter, Goto, Types
<1>3. ClaimLabels \subseteq Stages
  BY DEF ClaimLabels, Stages
<1> QED
  BY <1>1, <1>2, <1>3, ClaimedIs DEF OneWriter

\* A writer that asks for wrmtx_ has not begun.
LEMMA LockKeeps ==
    ASSUME Inv, NEW t \in Threads, Lock(t)
    PROVE  Inv'
<1> USE DEF Inv
<1>1. /\ Types' /\ Goto(t, "idle", "wrmtx_lock")
      /\ UNCHANGED <<rdcount_, rdwait_, rdsem_, wrsem_, wrmtx_, count>>
  BY DEF Types, Lock, WrMtx!Arrive, Goto, Labels
<1>2. /\ N("reading")' = N("reading") /\ N("rdsem_wait")' = N("rdsem_wait")
      /\ N("rdwait_sub")' = N("rdwait_sub")
      /\ N("wrsem_post")' = N("wrsem_post")
  BY <1>1, ReadersStay
<1>3. /\ OneWriter' /\ Claimed' = Claimed
      /\ \A u \in Threads : pc[u] \in Stages \/ pc'[u] \in Stages
           => pc'[u] = pc[u]
  BY <1>1, ReaderGoes DEF Labels, Stages
<1>4. Phantoms' = Phantoms
  BY <1>1, <1>2, <1>3, Count, NextCount DEF Lacking
<1>fit. FitsInt' = FitsInt
  BY <1>4, FitStays
<1>5. /\ TokensWanted' /\ Posts' = Posts
      /\ Nothing' = Nothing /\ ToDrain' = ToDrain
  BY <1>1, <1>2, <1>4 DEF TokensWanted, Posts, Nothing, ToDrain, N
<1>6. OnePost' /\ Quiet'
  BY <1>fit, <1>1, <1>2, <1>3, <1>4, <1>5
     DEF OnePost, Quiet, Covers, Stages, Types
<1>7. \A u \in Threads : Stage(u)'
  BY <1>fit, <1>1, <1>2, <1>3, <1>4, <1>5 DEF Stage, Covers, Stages
<1> QED
  BY <1>1, <1>3, <1>5, <1>6, <1>7

\* A writer takes wrmtx_: it finds the lock quiet.
LEMMA WrMtxKeeps ==
    ASSUME Inv, NEW t \in Threads, WrMtxLock(t) \/ TryLock(t)
    PROVE  Inv'
<1> USE DEF Inv
<1> DEFINE from == pc[t]
           to == pc'[t]
<1>1. /\ Types' /\ wrmtx_ = {} /\ wrmtx_' = {t} /\ Goto(t, from, to)
      /\ from \in {"idle", "wrmtx_lock"} /\ to \in {"rdcount_sub", "try_sub"}
      /\ UNCHANGED <<rdcount_, rdwait_, rdsem_, wrsem_, count>>
  BY DEF Types, WrMtxLock, TryLock, WrMtx!Acquire, Goto, Labels
<1> HIDE DEF from, to
<1>2. /\ N("reading")' = N("reading") /\ N("rdsem_wait")' = N("rdsem_wait")
      /\ N("rdwait_sub")' = N("rdwait_sub")
      /\ N("wrsem_post")' = N("wrsem_post")
  BY <1>1, ReadersStay DEF Stages
<1>3. /\ \A u \in Threads : pc[u] \notin Stages
      /\ \A u \in Threads : u # t => pc'[u] \notin Stages
      /\ pc'[t] = to
  BY <1>1 DEF OneWriter, Goto, Types
<1>4. OneWriter' /\ Claimed' = Claimed
  BY <1>1, <1>3, ClaimedIs DEF OneWriter, ClaimLabels, Stages
<1>5. Phantoms' = Phantoms
  BY <1>1, <1>2, <1>4, Count, NextCount DEF Lacking
<1>fit. FitsInt' = FitsInt
  BY <1>5, FitStays
<1>6. /\ TokensWanted' /\ Posts' = Posts /\ Nothing' = Nothing
  BY <1>1, <1>2, <1>5 DEF TokensWanted, Posts, Nothing
<1>7. Nothing /\ Covers(N("rdsem_wait") + Phantoms, rdsem_)
  BY <1>1 DEF Quiet
<1>8. OnePost'
  BY <1>1, <1>2, <1>6, <1>7 DEF OnePost, Nothing
<1>9. Quiet'
  BY <1>fit, <1>1, <1>2, <1>5, <1>6, <1>7 DEF Quiet, Covers
<1>10. \A u \in Threads : Stage(u)'
  BY <1>1, <1>3 DEF Stage, Stages
<1> QED
  BY <1>1, <1>4, <1>6, <1>8, <1>9, <1>10

\* A writer claims the lock: it finds the readers inside, those with a token to
\* come in, and nobody that is leaving.
LEMMA ClaimKeeps ==
    ASSUME Inv, NEW t \in Threads, RdCountSub(t) \/ TrySub(t)
    PROVE  Inv'
<1> USE DEF Inv
<1> DEFINE from == pc[t]
           to == pc'[t]
<1>1. /\ Types' /\ count' = rdcount_ /\ rdcount_' = rdcount_ - MaxReaders
      /\ Goto(t, from, to) /\ from \in {"rdcount_sub", "try_sub"}
      /\ rdcount_ < MaxReaders => to \in {"rdwait_add", "try_add"}
      /\ ~(rdcount_ < MaxReaders) => to \in {"writing", "try_restore"}
      /\ UNCHANGED <<rdwait_, rdsem_, wrsem_, wrmtx_>>
  BY DEF Types, RdCountSub, TrySub, Goto, Labels
<1> HIDE DEF from, to
<1>2. to \in {"rdwait_add", "try_add", "writing", "try_restore"}
  BY <1>1
<1>3. /\ N("reading")' = N("reading") /\ N("rdsem_wait")' = N("rdsem_wait")
      /\ N("rdwait_sub")' = N("rdwait_sub")
      /\ N("wrsem_post")' = N("wrsem_post")
  BY <1>1, <1>2, ReadersStay DEF Stages
<1>4. /\ OneWriter' /\ wrmtx_ = {t} /\ pc[t] = from /\ pc'[t] = to
      /\ \A u \in Threads : u # t => pc'[u] \notin Stages
      /\ Claimed = {} /\ Claimed' = {t}
  BY <1>1, <1>2, WriterGoes DEF Stages, ClaimLabels
<1>5. Nothing /\ Covers(N("rdsem_wait") + Phantoms, rdsem_)
  BY <1>1, <1>4 DEF Quiet
<1>6. \A l : N(l) \in Nat
  BY Counting
<1>7. Phantoms = Lacking /\ Phantoms \in Nat
  BY Count DEF TokensWanted
<1>8. Phantoms' = Phantoms
  BY <1>1, <1>3, <1>4, <1>6, <1>7, NextCount DEF Lacking, Types
<1>fit. FitsInt' = FitsInt
  BY <1>8, FitStays
<1>9. /\ TokensWanted' /\ Posts' = Posts /\ Nothing' = Nothing
  BY <1>1, <1>3, <1>8 DEF TokensWanted, Posts, Nothing
<1>10. OnePost'
  BY <1>1, <1>3, <1>5, <1>9 DEF OnePost, Nothing
<1>11. ~(\A u \in wrmtx_' : pc'[u] \in {"rdcount_sub", "try_sub", "wrmtx_unlock"})
  BY <1>1, <1>2, <1>4
<1>12. Quiet'
  BY <1>11 DEF Quiet
<1>13. /\ ToDrain' = N("reading") + rdsem_
       /\ Covers(MaxReaders - rdcount_, N("reading") + rdsem_)
       /\ rdcount_ \in 0 .. MaxReaders
  <2>1. rdcount_ = MaxReaders - N("reading") - N("rdsem_wait") - Phantoms
    BY <1>4, <1>6, <1>7 DEF Lacking, Types
  <2>2. Covers(MaxReaders - rdcount_, N("reading") + rdsem_)
    BY <1>5, <1>6, <1>7, <2>1 DEF Covers, Types
  <2> QED
    BY <1>1, <1>3, <1>4, <1>5, <1>6, <2>2, Gate DEF ToDrain, N, Nothing, Types
<1>14. \A u \in Threads : Stage(u)'
  <2>1. \A u \in Threads : u # t => Stage(u)'
    BY <1>4 DEF Stage, Stages
  <2>2. CASE rdcount_ < MaxReaders
    <3>1. rdwait_ = 0 /\ Posts' = 0
      BY <1>5, <1>9 DEF Nothing
    <3>2. Covers(rdwait_ + (MaxReaders - count), ToDrain)'
      BY <1>fit, <1>1, <1>6, <1>13, <3>1 DEF Covers, Types
    <3> QED
      BY <1>1, <1>4, <1>13, <2>1, <2>2, <3>1, <3>2 DEF Stage
  <2>3. CASE ~(rdcount_ < MaxReaders)
    <3>1. rdwait_' = 0 /\ Nothing'
      BY <1>1, <1>5, <1>9 DEF Nothing
    <3>2. ToDrain' = 0
      BY <1>6, <1>13, <2>3 DEF Covers, Types
    <3> QED
      BY <1>1, <1>4, <2>1, <2>3, <3>1, <3>2 DEF Stage, Types
  <2> QED
    BY <2>2, <2>3
<1> QED
  BY <1>1, <1>4, <1>9, <1>10, <1>12, <1>14

\* The writer adds the readers it found to rdwait_, those that have left since
\* being off it already.
LEMMA AddKeeps ==
    ASSUME Inv, NEW t \in Threads, RdWaitAdd(t) \/ TryAdd(t)
    PROVE  Inv'
<1> USE DEF Inv
<1> DEFINE from == pc[t]
           to == pc'[t]
<1>1. /\ Types' /\ rdwait_' = rdwait_ + (MaxReaders - count)
      /\ Goto(t, from, to) /\ from \in {"rdwait_add", "try_add"}
      /\ rdwait_' # 0 => to \in {"wrsem_wait", "try_restore"}
      /\ rdwait_' = 0 => to = "writing"
      /\ UNCHANGED <<rdcount_, rdsem_, wrsem_, wrmtx_, count>>
  BY DEF Types, RdWaitAdd, TryAdd, Goto, Labels
<1> HIDE DEF from, to
<1>2. to \in {"wrsem_wait", "try_restore", "writing"}
  BY <1>1
<1>3. /\ N("reading")' = N("reading") /\ N("rdsem_wait")' = N("rdsem_wait")
      /\ N("rdwait_sub")' = N("rdwait_sub")
      /\ N("wrsem_post")' = N("wrsem_post")
  BY <1>1, <1>2, ReadersStay DEF Stages
<1>4. /\ OneWriter' /\ wrmtx_ = {t} /\ pc[t] = from /\ pc'[t] = to
      /\ \A u \in Threads : u # t => pc'[u] \notin Stages
      /\ Claimed' = Claimed
  <2>1. /\ from \in Stages /\ from \in ClaimLabels
        /\ to \in Stages /\ to \in ClaimLabels
    BY <1>1, <1>2 DEF Stages, ClaimLabels
  <2> QED
    BY <1>1, <2>1, WriterGoes
<1>5. Covers(rdwait_', ToDrain) /\ Posts = 0
  BY <1>1, <1>4 DEF Stage
<1>6. \A l : N(l) \in Nat
  BY Counting
<1>7. Phantoms' = Phantoms
  BY <1>1, <1>3, <1>4, Count, NextCount DEF Lacking
<1>fit. FitsInt' = FitsInt
  BY <1>7, FitStays
<1>8. TokensWanted' /\ Posts' = 0
  BY <1>1, <1>3, <1>5, <1>7 DEF TokensWanted, Posts
<1>9. /\ ToDrain' = ToDrain
      /\ ToDrain = N("reading") + rdsem_ + N("rdwait_sub")
  BY <1>1, <1>3 DEF ToDrain, N
<1>10. OnePost'
  BY <1>1, <1>3, <1>5, <1>6, <1>8, <1>9 DEF OnePost, Covers, Types
<1>11. ~(\A u \in wrmtx_' : pc'[u] \in {"rdcount_sub", "try_sub", "wrmtx_unlock"})
  BY <1>1, <1>2, <1>4
<1>12. Quiet'
  BY <1>11 DEF Quiet
<1>13. to = "writing" => Nothing' /\ ToDrain' = 0
  BY <1>1, <1>2, <1>3, <1>5, <1>6, <1>8, <1>9 DEF Nothing, Covers, Types
<1>14. \A u \in Threads : Stage(u)'
  <2>1. Covers(rdwait_, ToDrain)'
    BY <1>fit, <1>5, <1>9 DEF Covers
  <2>2. rdwait_' >= ToDrain'
    BY <1>5, <1>9 DEF Covers
  <2> QED
    BY <1>1, <1>2, <1>4, <1>8, <1>13, <2>1, <2>2 DEF Stage, Stages
<1> QED
  BY <1>1, <1>4, <1>8, <1>10, <1>12, <1>14

\* The writer takes its token: the last reader has gone.
LEMMA WrSemTakeKeeps ==
    ASSUME Inv, NEW t \in Threads, WrSemTake(t)
    PROVE  Inv'
<1> USE DEF Inv
<1>1. /\ Types' /\ wrsem_ > 0 /\ wrsem_' = wrsem_ - 1
      /\ Goto(t, "wrsem_wait", "writing")
      /\ UNCHANGED <<rdcount_, rdwait_, rdsem_, wrmtx_, count>>
  BY DEF Types, WrSemTake, WrSem!Acquire, Goto, Labels
<1>2. /\ N("reading")' = N("reading") /\ N("rdsem_wait")' = N("rdsem_wait")
      /\ N("rdwait_sub")' = N("rdwait_sub")
      /\ N("wrsem_post")' = N("wrsem_post")
  BY <1>1, ReadersStay DEF Stages
<1>3. /\ OneWriter' /\ wrmtx_ = {t} /\ pc[t] = "wrsem_wait" /\ pc'[t] = "writing"
      /\ \A u \in Threads : u # t => pc'[u] \notin Stages
      /\ Claimed' = Claimed
  BY <1>1, WriterGoes DEF Stages, ClaimLabels
<1>4. \A l : N(l) \in Nat
  BY Counting
<1>5. rdwait_ = 0 /\ ToDrain = 0 /\ Posts = 1
  <2>1. ToDrain \in Nat
    BY <1>4 DEF ToDrain, N, Types
  <2> QED
    BY <1>1, <1>3, <1>4, <2>1 DEF Stage, Covers, Posts, Types
<1>6. Phantoms' = Phantoms
  BY <1>1, <1>2, <1>3, Count, NextCount DEF Lacking
<1>7. TokensWanted' /\ Posts' = 0
  BY <1>1, <1>2, <1>4, <1>5, <1>6 DEF TokensWanted, Posts, Types
<1>8. ToDrain' = 0 /\ Nothing'
  BY <1>1, <1>2, <1>4, <1>5, <1>7 DEF ToDrain, Nothing, N, Types
<1>9. OnePost'
  BY <1>7, <1>8 DEF OnePost, Nothing
<1>10. ~(\A u \in wrmtx_' : pc'[u] \in {"rdcount_sub", "try_sub", "wrmtx_unlock"})
  BY <1>1, <1>3
<1>11. Quiet'
  BY <1>10 DEF Quiet
<1>12. \A u \in Threads : Stage(u)'
  BY <1>3, <1>8 DEF Stage, Stages
<1> QED
  BY <1>1, <1>3, <1>7, <1>9, <1>11, <1>12

\* The writer gives its claim back: what rdcount_ is below 0 is the number of
\* readers that came meanwhile, and of failed calls.  Its int holds that number
\* or, when it is too small for it, fewer tokens or none.
LEMMA UnlockKeeps ==
    ASSUME Inv, NEW t \in Threads, Unlock(t)
    PROVE  Inv'
<1> USE DEF Inv
<1> DEFINE to == IF count' < 0 THEN "rdsem_post" ELSE "wrmtx_unlock"
<1>1. /\ count' = Narrow(rdcount_) /\ rdcount_' = rdcount_ + MaxReaders
      /\ Goto(t, "writing", to)
      /\ UNCHANGED <<rdwait_, rdsem_, wrsem_, wrmtx_>>
  BY DEF Unlock
<1>2. to \in {"rdsem_post", "wrmtx_unlock"} /\ (to = "rdsem_post" <=> count' < 0)
  OBVIOUS
<1> HIDE DEF to
<1>3. /\ N("reading")' = N("reading") /\ N("rdsem_wait")' = N("rdsem_wait")
      /\ N("rdwait_sub")' = N("rdwait_sub")
      /\ N("wrsem_post")' = N("wrsem_post")
  BY <1>1, <1>2, ReadersStay DEF Stages
<1>4. /\ OneWriter' /\ wrmtx_ = {t} /\ pc[t] = "writing" /\ pc'[t] = to
      /\ \A u \in Threads : u # t => pc'[u] \notin Stages
      /\ Claimed = {t} /\ Claimed' = {}
  BY <1>1, <1>2, WriterGoes DEF Stages, ClaimLabels
<1>5. \A l : N(l) \in Nat
  BY Counting
<1>6. Nothing /\ ToDrain = 0
  BY <1>4 DEF Stage
<1>7. Phantoms = Lacking /\ Phantoms \in Nat
  BY Count DEF TokensWanted
<1>8. rdsem_ = 0 /\ rdcount_ <= 0 /\ 0 - rdcount_ = N("rdsem_wait") + Phantoms
  <2>1. rdsem_ = 0 /\ N("reading") = 0
    BY <1>5, <1>6 DEF ToDrain, N, Types
  <2>2. Phantoms = 0 - N("rdsem_wait") - rdcount_
    BY <1>4, <1>5, <1>7, <2>1 DEF Lacking, Types
  <2> QED
    BY <1>5, <1>7, <2>1, <2>2 DEF Types
<1>9. /\ count' \in Int /\ count' >= rdcount_
      /\ rdcount_ >= -(MaxInt + 1) => count' = rdcount_
  BY <1>1, <1>8, Narrowing DEF Types
<1>10. Types'
  BY <1>1, <1>2, <1>9 DEF Types, Goto, Labels
<1>11. Phantoms' = Phantoms
  BY <1>1, <1>3, <1>4, <1>5, <1>7, <1>10, NextCount DEF Lacking, Types
<1>12. TokensWanted' /\ Nothing'
  BY <1>1, <1>3, <1>6, <1>11 DEF TokensWanted, Nothing, Posts
<1>13. OnePost'
  BY <1>12 DEF OnePost, Nothing
<1>14. FitsInt' = FitsInt
  BY <1>11, FitStays
<1>15. FitsInt => count' = rdcount_
  <2>1. N("reading") + N("rdsem_wait") < Cardinality(Threads)
    BY <1>4, Readers
  <2>2. FitsInt => 0 - rdcount_ <= MaxInt
    BY <1>5, <1>7, <1>8, <2>1, Counting DEF FitsInt
  <2> QED
    BY <1>9, <2>2 DEF Types
<1>16. count' < 0 => Covers(N("rdsem_wait") + Phantoms, rdsem_ - count)'
  BY <1>1, <1>3, <1>5, <1>7, <1>8, <1>9, <1>11, <1>14, <1>15 DEF Covers, Types
<1>17. ~(count' < 0) => Covers(N("rdsem_wait") + Phantoms, rdsem_)'
  BY <1>1, <1>3, <1>5, <1>7, <1>8, <1>9, <1>11, <1>14, <1>15 DEF Covers, Types
<1>18. Quiet'
  <2>1. CASE count' < 0
    BY <1>1, <1>2, <1>4, <2>1 DEF Quiet
  <2>2. CASE ~(count' < 0)
    BY <1>12, <1>17, <2>2 DEF Quiet
  <2> QED
    BY <2>1, <2>2
<1>19. \A u \in Threads : Stage(u)'
  <2>1. \A u \in Threads : u # t => Stage(u)'
    BY <1>4 DEF Stage, Stages
  <2>2. Stage(t)'
    BY <1>2, <1>4, <1>12, <1>16 DEF Stage
  <2> QED
    BY <2>1, <2>2
<1> QED
  BY <1>4, <1>10, <1>12, <1>13, <1>18, <1>19

\* The writer posts a token for each of them.
LEMMA RdSemPostKeeps ==
    ASSUME Inv, NEW t \in Threads, RdSemPost(t)
    PROVE  Inv'
<1> USE DEF Inv
<1>1. /\ rdsem_' = rdsem_ + (-count) /\ Goto(t, "rdsem_post", "wrmtx_unlock")
      /\ UNCHANGED <<rdcount_, rdwait_, wrsem_, wrmtx_, count>>
  BY DEF RdSemPost, RdSem!Release
<1>2. /\ N("reading")' = N("reading") /\ N("rdsem_wait")' = N("rdsem_wait")
      /\ N("rdwait_sub")' = N("rdwait_sub")
      /\ N("wrsem_post")' = N("wrsem_post")
  BY <1>1, ReadersStay DEF Stages
<1>3. /\ OneWriter' /\ wrmtx_ = {t} /\ pc[t] = "rdsem_post"
      /\ pc'[t] = "wrmtx_unlock"
      /\ \A u \in Threads : u # t => pc'[u] \notin Stages
      /\ Claimed' = Claimed
  BY <1>1, WriterGoes DEF Stages, ClaimLabels
<1>4. Nothing /\ count < 0 /\ Covers(N("rdsem_wait") + Phantoms, rdsem_ - count)
  BY <1>3 DEF Stage
<1>5. Types'
  <2>1. rdsem_' \in Nat
    BY <1>1, <1>4 DEF Types
  <2> QED
    BY <1>1, <2>1 DEF Types, Goto, Labels
<1>6. Phantoms' = Phantoms
  BY <1>1, <1>2, <1>3, <1>5, Count, NextCount DEF Lacking
<1>7. \A l : N(l) \in Nat
  BY Counting
<1>fit. FitsInt' = FitsInt
  BY <1>6, FitStays
<1>8. Covers(N("rdsem_wait") + Phantoms, rdsem_)' /\ Nothing'
  <2>1. Nothing'
    BY <1>1, <1>2, <1>4 DEF Nothing, Posts
  <2>2. Covers(N("rdsem_wait") + Phantoms, rdsem_)'
    BY <1>fit, <1>1, <1>2, <1>4, <1>6 DEF Covers, Types
  <2> QED
    BY <2>1, <2>2
<1>9. TokensWanted'
  BY <1>2, <1>5, <1>6, <1>7, <1>8 DEF TokensWanted, Covers, Types
<1>10. OnePost' /\ Quiet'
  BY <1>8 DEF OnePost, Quiet, Nothing
<1>11. \A u \in Threads : Stage(u)'
  BY <1>3 DEF Stage, Stages
<1> QED
  BY <1>3, <1>5, <1>9, <1>10, <1>11

\* The writer gives wrmtx_ back and leaves the lock quiet.
LEMMA WrMtxUnlockKeeps ==
    ASSUME Inv, NEW t \in Threads, WrMtxUnlock(t)
    PROVE  Inv'
<1> USE DEF Inv
<1>1. /\ Types' /\ Goto(t, "wrmtx_unlock", "idle") /\ wrmtx_' = wrmtx_ \ {t}
      /\ UNCHANGED <<rdcount_, rdwait_, rdsem_, wrsem_>>
  BY DEF Types, WrMtxUnlock, WrMtx!Release, Goto, Labels
<1>2. /\ N("reading")' = N("reading") /\ N("rdsem_wait")' = N("rdsem_wait")
      /\ N("rdwait_sub")' = N("rdwait_sub")
      /\ N("wrsem_post")' = N("wrsem_post")
  BY <1>1, ReadersStay DEF Stages
<1>3. /\ wrmtx_ = {t} /\ wrmtx_' = {} /\ pc[t] = "wrmtx_unlock"
      /\ \A u \in Threads : pc'[u] \notin Stages
      /\ \A u \in Threads : pc[u] \notin ClaimLabels
  BY <1>1 DEF OneWriter, Goto, Types, Stages, ClaimLabels
<1>4. OneWriter' /\ Claimed' = Claimed
  BY <1>3, ClaimedIs DEF OneWriter, ClaimLabels, Stages
<1>5. Phantoms' = Phantoms
  BY <1>1, <1>2, <1>4, Count, NextCount DEF Lacking
<1>fit. FitsInt' = FitsInt
  BY <1>5, FitStays
<1>6. TokensWanted' /\ Nothing' = Nothing
  BY <1>1, <1>2, <1>5 DEF TokensWanted, Nothing, Posts
<1>7. Nothing /\ Covers(N("rdsem_wait") + Phantoms, rdsem_)
  BY <1>3 DEF Quiet
<1>8. OnePost' /\ Quiet'
  BY <1>fit, <1>1, <1>2, <1>5, <1>6, <1>7 DEF OnePost, Quiet, Covers, Nothing
<1>9. \A u \in Threads : Stage(u)'
  BY <1>3 DEF Stage, Stages
<1> QED
  BY <1>1, <1>4, <1>6, <1>8, <1>9

\* A failed try_lock() gives its claim back and keeps wrmtx_: readers that are
\* leaving may still bring rdwait_ to 0 and post a token that nobody takes.
LEMMA TryRestoreKeeps ==
    ASSUME Inv, NEW t \in Threads, TryRestore(t)
    PROVE  Inv'
<1> USE DEF Inv
<1>1. /\ Types' /\ rdcount_' = rdcount_ + MaxReaders
      /\ Goto(t, "try_restore", "idle")
      /\ UNCHANGED <<rdwait_, rdsem_, wrsem_, wrmtx_>>
  BY DEF Types, TryRestore, Goto, Labels
<1>2. /\ N("reading")' = N("reading") /\ N("rdsem_wait")' = N("rdsem_wait")
      /\ N("rdwait_sub")' = N("rdwait_sub")
      /\ N("wrsem_post")' = N("wrsem_post")
  BY <1>1, ReadersStay DEF Stages
<1>3. /\ wrmtx_ = {t} /\ pc[t] = "try_restore" /\ pc'[t] = "idle"
      /\ \A u \in Threads : pc'[u] \notin Stages
      /\ \A u \in Threads : u # t => pc[u] \notin Stages
  BY <1>1 DEF OneWriter, Goto, Types, Stages
<1>4. OneWriter' /\ Claimed = {t} /\ Claimed' = {}
  BY <1>1, <1>3, ClaimedIs DEF OneWriter, ClaimLabels, Stages
<1>5. \A l : N(l) \in Nat
  BY Counting
<1>6. Phantoms' = Phantoms
  <2>1. Phantoms = Lacking
    BY Count
  <2> QED
    BY <1>1, <1>2, <1>4, <1>5, <2>1, NextCount DEF Lacking, Types
<1>7. TokensWanted' /\ Posts' = Posts
  BY <1>1, <1>2, <1>6 DEF TokensWanted, Posts
<1>8. rdwait_ >= N("rdwait_sub")
  BY <1>3 DEF OnePost, Stages
<1>9. OnePost'
  BY <1>1, <1>2, <1>7, <1>8 DEF OnePost
<1>10. Quiet'
  BY <1>1, <1>3 DEF Quiet
<1>11. \A u \in Threads : Stage(u)'
  BY <1>3 DEF Stage, Stages
<1> QED
  BY <1>1, <1>4, <1>7, <1>9, <1>10, <1>11

\* All steps together.
LEMMA Kept == Inv /\ [Next]_vars => Inv'
<1> SUFFICES ASSUME Inv, [Next]_vars PROVE Inv'
  OBVIOUS
<1>1. CASE UNCHANGED vars
  <2>1. /\ \A l : N(l)' = N(l)
        /\ Claimed' = Claimed
    BY <1>1, Stays DEF vars
  <2>2. /\ Types' /\ OneWriter'
        /\ UNCHANGED <<rdcount_, rdwait_, rdsem_, wrsem_, wrmtx_, count, pc>>
    BY <1>1 DEF vars, Inv, Types, OneWriter
  <2>3. Phantoms' = Phantoms
    BY <2>1, <2>2, Count, NextCount DEF Lacking, Inv
  <2> QED
    <3>1. FitsInt' = FitsInt
      BY <2>3, FitStays
    <3>2. /\ Nothing' = Nothing /\ Posts' = Posts /\ ToDrain' = ToDrain
          /\ TokensWanted' /\ OnePost'
      BY <2>1, <2>2, <2>3 DEF Inv, TokensWanted, OnePost, Nothing, Posts, ToDrain, N
    <3>3. Quiet'
      BY <2>1, <2>2, <2>3, <3>1, <3>2 DEF Inv, Quiet, Covers
    <3>4. \A t \in Threads : Stage(t)'
      BY <2>1, <2>2, <2>3, <3>1, <3>2 DEF Inv, Stage, Covers
    <3> QED
      BY <2>2, <3>2, <3>3, <3>4 DEF Inv
<1>2. CASE \E t \in Threads : \/ LockShared(t) \/ TryLockShared(t) \/ RdSemTake(t)
                              \/ UnlockShared(t) \/ RdWaitSub(t) \/ WrSemPost(t)
  BY <1>2, LockSharedKeeps, RdSemTakeKeeps, UnlockSharedKeeps, RdWaitSubKeeps,
     WrSemPostKeeps
<1>3. CASE \E t \in Threads :
            \/ Lock(t) \/ WrMtxLock(t) \/ RdCountSub(t) \/ RdWaitAdd(t)
            \/ WrSemTake(t) \/ Unlock(t) \/ RdSemPost(t) \/ WrMtxUnlock(t)
            \/ TryLock(t) \/ TrySub(t) \/ TryAdd(t) \/ TryRestore(t)
  BY <1>3, LockKeeps, WrMtxKeeps, ClaimKeeps, AddKeeps, WrSemTakeKeeps,
     UnlockKeeps, RdSemPostKeeps, WrMtxUnlockKeeps, TryRestoreKeeps
<1> QED
  BY <1>1, <1>2, <1>3 DEF Next

------------------------------------------------------------------------------
(* The theorems                                                            *)

\* The account of readers, tokens and failed calls, at every step of a writer.
THEOREM InvHolds == Spec => []Inv
<1> QED
  BY Starts, Kept, PTL DEF Spec

\* A draining writer waits for all the readers that are still to leave, its
\* token is there once rdwait_ is 0, and a writer at work has nobody left to see
\* off, after any number of failed attempts that rdcount_ has room for; it waits
\* for exactly those readers as long as the failed calls fit the int that
\* unlock() narrows rdcount_ to.
THEOREM WritersSeeReadersOff == Spec => []DrainBalance
<1>1. Inv => DrainBalance
  BY DEF Inv, Stage, DrainBalance, Posts, N
<1> QED
  BY <1>1, InvHolds, PTL

\* What the invariant says of the sizes of the counters, but for rdwait_ once
\* the writer that added to it has failed, and the writer's local count.
LEMMA Sizes ==
    ASSUME Inv
    PROVE  /\ rdcount_ \in (-2 * MaxReaders) .. MaxReaders
           /\ rdsem_ \in 0 .. MaxReaders
           /\ wrsem_ \in 0 .. 1
           /\ rdwait_ >= -MaxReaders
<1> USE DEF Inv
<1>1. \A l : N(l) \in Nat
  BY Counting
<1>2. rdcount_ \in (-2 * MaxReaders) .. MaxReaders
  BY <1>1, Gate DEF Types
<1>3. N("reading") + rdsem_ <= MaxReaders
  <2>1. /\ N("reading") + N("rdsem_wait") <= Cardinality(Threads)
        /\ Phantoms \in 0 .. MaxPhantoms
        /\ rdsem_ <= N("rdsem_wait") + Phantoms
    BY Readers DEF TokensWanted
  <2> QED
    BY <1>1, <2>1, Counting DEF Types
<1>4. ToDrain \in Nat
  BY <1>1 DEF ToDrain, N, Types
<1>5. rdwait_ >= -MaxReaders
  <2>1. CASE \A u \in Threads : pc[u] \notin {"rdwait_add", "try_add"}
    BY <1>1, <2>1 DEF OnePost, Types
  <2>2. ASSUME NEW u \in Threads, pc[u] \in {"rdwait_add", "try_add"}
        PROVE  rdwait_ >= -MaxReaders
    <3>1. count \in 0 .. MaxReaders /\ rdwait_ + (MaxReaders - count) >= ToDrain
      BY <2>2 DEF Stage, Covers
    <3> QED
      BY <1>4, <3>1 DEF Types
  <2> QED
    BY <2>1, <2>2
<1> QED
  BY <1>1, <1>2, <1>3, <1>5 DEF OnePost, Posts, Types

\* What the integers of rdwait_ and count have room for.
Bounds == rdwait_ <= 2 * MaxReaders /\ count \in (-2 * MaxReaders) .. MaxReaders

\* Only the writer's addition raises rdwait_, and count is a copy of rdcount_ or
\* what an int keeps of it.
LEMMA BoundsKept == Inv /\ Bounds /\ [Next]_vars => Bounds'
<1> SUFFICES ASSUME Inv, Bounds, [Next]_vars PROVE Bounds'
  OBVIOUS
<1> USE DEF Bounds
<1>1. rdwait_ \in Int /\ count \in Int
  BY DEF Inv, Types
<1>2. ASSUME NEW t \in Threads, RdWaitAdd(t) \/ TryAdd(t)
      PROVE  Bounds'
  <2>1. count' = count /\ rdwait_' = rdwait_ + (MaxReaders - count)
    BY <1>2 DEF RdWaitAdd, TryAdd
  <2>2. count \in 0 .. MaxReaders /\ rdwait_ <= 0
    BY <1>2 DEF RdWaitAdd, TryAdd, Goto, Inv, Stage
  <2> QED
    BY <1>1, <2>1, <2>2
<1>3. ASSUME NEW t \in Threads, RdCountSub(t) \/ TrySub(t)
      PROVE  Bounds'
  BY <1>3, Sizes DEF RdCountSub, TrySub
<1>4. ASSUME NEW t \in Threads, WrMtxUnlock(t) \/ TryRestore(t)
      PROVE  Bounds'
  BY <1>4 DEF WrMtxUnlock, TryRestore
<1>5. ASSUME NEW t \in Threads, RdWaitSub(t) PROVE Bounds'
  BY <1>1, <1>5 DEF RdWaitSub
<1>6. ASSUME NEW t \in Threads,
             \/ LockShared(t) \/ RdSemTake(t) \/ TryLockShared(t)
             \/ UnlockShared(t) \/ WrSemPost(t) \/ Lock(t) \/ WrMtxLock(t)
             \/ WrSemTake(t) \/ RdSemPost(t) \/ TryLock(t)
      PROVE  Bounds'
  BY <1>6 DEF LockShared, RdSemTake, TryLockShared, UnlockShared, WrSemPost,
              Lock, WrMtxLock, WrSemTake, RdSemPost, TryLock
<1>7. CASE UNCHANGED vars
  BY <1>7 DEF vars
<1>8. ASSUME NEW t \in Threads, Unlock(t) PROVE Bounds'
  <2>1. count' = Narrow(rdcount_) /\ rdwait_' = rdwait_ /\ pc[t] = "writing"
    BY <1>8 DEF Unlock, Goto
  <2>2. rdcount_ <= 0 /\ rdcount_ \in (-2 * MaxReaders) .. MaxReaders
    <3>1. t \in Claimed
      BY <2>1, ClaimedIs DEF ClaimLabels
    <3> QED
      BY <3>1, Gate, Counting, Sizes DEF Inv
  <2>3. count' \in (-2 * MaxReaders) .. MaxReaders
    BY <2>1, <2>2, Narrowing
  <2> QED
    BY <2>1, <2>3
<1> QED
  BY <1>2, <1>3, <1>4, <1>5, <1>6, <1>7, <1>8 DEF Next

\* The counters stay within their integers: they have room for every reader and
\* every failed call twice over, and wrsem_ never holds a second token.
THEOREM TypeCorrect == Spec => []TypeOK
<1>1. Init => Bounds
  BY DEF Init, Bounds
<1>2. Inv /\ Bounds => TypeOK
  BY Sizes DEF Inv, Bounds, Types, TypeOK
<1> QED
  BY <1>1, <1>2, BoundsKept, InvHolds, PTL DEF Spec

------------------------------------------------------------------------------
\* Readers and a writer are never inside together, and writers only one at a
\* time, whatever attempts have failed: every step is one of SharedExclusion or
\* changes nothing there.
THEOREM StepsImplementLock == Spec => Abstract!Safety
<1> USE DEF Inv
<1>1. Init => Abstract!Init
  BY DEF Init, Abstract!Init, At
<1>2. Inv /\ [Next]_vars => [Abstract!Next]_(Abstract!vars)
  <2> SUFFICES ASSUME Inv, [Next]_vars
               PROVE  Abstract!Next \/ UNCHANGED Abstract!vars
    OBVIOUS
  <2> DEFINE Same == UNCHANGED Abstract!vars
  <2>0. Inv'
    BY Kept
  <2>1. \A l : N(l) \in Nat /\ N(l)' \in Nat
    BY Counting
  <2>2. /\ N("reading") = 0 => At("reading") = {}
        /\ N("reading")' = 0 => At("reading")' = {}
    <3>1. \A S \in SUBSET Threads : Cardinality(S) = 0 => S = {}
      BY FS_Subset, FS_EmptySet
    <3>2. At("reading") \in SUBSET Threads /\ At("reading")' \in SUBSET Threads
      BY DEF At
    <3> QED
      BY <3>1, <3>2 DEF N
  <2>3. ASSUME NEW t \in Threads, LockShared(t) \/ TryLockShared(t)
        PROVE  Abstract!Next \/ Same
    <3>1. CASE Goto(t, "idle", "idle")
      BY <3>1 DEF Goto, Types, At, Abstract!vars
    <3>2. CASE Goto(t, "idle", "rdsem_wait")
      <4>1. Abstract!ArriveShared(t)
        BY <3>2 DEF Goto, Types, At, Abstract!ArriveShared, Abstract!Busy
      <4> QED
        BY <4>1 DEF Abstract!Next
    <3>3. CASE Goto(t, "idle", "reading")
      <4>1. ~(rdcount_ < 1)
        BY <2>3, <3>3 DEF LockShared, TryLockShared, Goto, Types
      <4>2. Claimed = {}
        BY <2>1, <4>1, Gate DEF Types
      <4>3. At("writing") = {}
        BY <4>2, Claimant DEF At, ClaimLabels
      <4>4. Abstract!AcquireShared(t)
        BY <3>3, <4>3 DEF Goto, Types, At, Abstract!AcquireShared
      <4> QED
        BY <4>4 DEF Abstract!Next
    <3> QED
      BY <2>3, <3>1, <3>2, <3>3 DEF LockShared, TryLockShared
  <2>4. ASSUME NEW t \in Threads, RdSemTake(t)
        PROVE  Abstract!Next
    <3>1. rdsem_ > 0 /\ Goto(t, "rdsem_wait", "reading")
      BY <2>4 DEF RdSemTake, RdSem!Acquire
    <3>2. At("writing") = {}
      <4>1. ToDrain # 0
        BY <2>1, <3>1 DEF ToDrain, N, Types
      <4> QED
        BY <4>1 DEF Stage, At
    <3>3. Abstract!AcquireShared(t)
      BY <3>1, <3>2 DEF Goto, Types, At, Abstract!AcquireShared
    <3> QED
      BY <3>3 DEF Abstract!Next
  <2>5. ASSUME NEW t \in Threads, UnlockShared(t)
        PROVE  Abstract!Next
    <3>1. Abstract!ReleaseShared(t)
      BY <2>5 DEF UnlockShared, Goto, Types, At, Abstract!ReleaseShared
    <3> QED
      BY <3>1 DEF Abstract!Next
  <2>6. ASSUME NEW t \in Threads, Lock(t)
        PROVE  Abstract!Next
    <3>1. Abstract!ArriveExclusive(t)
      BY <2>6 DEF Lock, Goto, Types, At, Abstract!ArriveExclusive, Abstract!Busy
    <3> QED
      BY <3>1 DEF Abstract!Next
  <2>7. ASSUME NEW t \in Threads, NEW from \in Stages, Goto(t, from, "writing"),
               from # "writing"
        PROVE  Abstract!Next
    <3>1. ToDrain' = 0
      <4>1. pc'[t] = "writing" /\ Stage(t)'
        BY <2>0, <2>7 DEF Goto, Types
      <4> QED
        BY <4>1 DEF Stage
    <3>2. At("reading")' = {}
      BY <2>0, <2>1, <2>2, <3>1 DEF ToDrain, N, Types
    <3>3. At("writing") = {}
      BY <2>7 DEF OneWriter, Goto, At, Stages
    <3>4. /\ At("reading")' = At("reading") /\ At("writing")' = {t}
          /\ At("rdsem_wait")' = At("rdsem_wait")
      BY <2>7, <3>3 DEF Goto, Types, At, Stages
    <3>5. Abstract!AcquireExclusive(t)
      BY <2>7, <3>2, <3>3, <3>4 DEF Goto, Types, At, Stages,
         Abstract!AcquireExclusive
    <3> QED
      BY <3>5 DEF Abstract!Next
  <2>8. ASSUME NEW t \in Threads,
               \/ RdCountSub(t) \/ RdWaitAdd(t) \/ WrSemTake(t) \/ TryAdd(t)
        PROVE  Abstract!Next \/ Same
    <3>1. CASE \E from \in Stages \ {"writing"} : Goto(t, from, "writing")
      BY <2>7, <3>1
    <3>2. CASE \/ Goto(t, "rdcount_sub", "rdwait_add")
               \/ Goto(t, "rdwait_add", "wrsem_wait")
               \/ Goto(t, "try_add", "try_restore")
      BY <3>2 DEF Goto, Types, At, Abstract!vars
    <3> QED
      BY <2>8, <3>1, <3>2 DEF RdCountSub, RdWaitAdd, WrSemTake, TryAdd, Stages
  <2>9. ASSUME NEW t \in Threads, Unlock(t)
        PROVE  Abstract!Next
    <3>1. Abstract!ReleaseExclusive(t)
      BY <2>9 DEF Unlock, Goto, Types, At, Abstract!ReleaseExclusive
    <3> QED
      BY <3>1 DEF Abstract!Next
  <2>10. ASSUME NEW t \in Threads,
                \/ RdWaitSub(t) \/ WrSemPost(t) \/ WrMtxLock(t) \/ RdSemPost(t)
                \/ WrMtxUnlock(t) \/ TryLock(t) \/ TrySub(t) \/ TryRestore(t)
         PROVE  Same
    BY <2>10 DEF RdWaitSub, WrSemPost, WrMtxLock, RdSemPost, WrMtxUnlock, TryLock,
                 TrySub, TryRestore, Goto, Types, At, Abstract!vars
  <2>11. CASE UNCHANGED vars
    BY <2>11 DEF vars, At, Abstract!vars
  <2> QED
    BY <2>3, <2>4, <2>5, <2>6, <2>8, <2>9, <2>10, <2>11 DEF Next
<1> QED
  BY <1>1, <1>2, InvHolds, PTL DEF Spec, Abstract!Safety
==============================================================================
