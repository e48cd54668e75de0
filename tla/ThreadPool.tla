------------------------------ MODULE ThreadPool ------------------------------
(***************************************************************************)
(* sync::work_stealing_thread_pool and sync::simple_thread_pool            *)
(* (sync/thread_pool.hpp): workers, their queues, and callers that post.   *)
(*                                                                         *)
(* In the stealing pool every worker has a queue, tries all of them from   *)
(* its own on and then blocks in its own; a post tries the queues from a   *)
(* running index on, twice around, and then pushes into the first.  In the *)
(* simple pool all workers block in one queue.                             *)
(*                                                                         *)
(* The queues are what Fifo promises of them, SimpleQueue being shown to   *)
(* implement it: an operation is one step, and a pop waits while its queue *)
(* is empty.  try_push and try_pop may fail at any time, as they do when   *)
(* another thread has the mutex of the queue.  The workers never end:      *)
(* their loops end at an empty optional, which a queue returns only after  *)
(* done(), which the pools do not call.                                    *)
(***************************************************************************)
EXTENDS Naturals, Sequences, FiniteSets

CONSTANTS count_,       \* workers, numbered from 0
          Posters,      \* threads that post
          Tasks,        \* what they post, each once
          NoTask

LOOP_K == 2
Workers == 0 .. count_ - 1

VARIABLES stealing,     \* which of the two pools it is
          queues_, index_,
          working,      \* the task each worker runs
          looking,      \* queues each idle worker has tried in this round
          posting,      \* the task each poster is about to push
          first, tried, \* where its round began, and queues it has tried
          done          \* history: the tasks that have run

vars == <<stealing, queues_, index_, working, looking, posting, first, tried, done>>
workers == <<working, looking, done>>
posters == <<index_, posting, first, tried>>

TypeOK ==
    /\ queues_ \in [Workers -> Seq(Tasks)]
    /\ index_ \in Workers
    /\ working \in [Workers -> Tasks \cup {NoTask}]
    /\ looking \in [Workers -> 0 .. count_]
    /\ posting \in [Posters -> Tasks \cup {NoTask}]
    /\ first \in [Posters -> Workers] /\ tried \in [Posters -> 0 .. LOOP_K * count_]
    /\ done \subseteq Tasks

Init ==
    /\ stealing \in BOOLEAN
    /\ queues_ = [w \in Workers |-> <<>>] /\ index_ = 0
    /\ working = [w \in Workers |-> NoTask] /\ looking = [w \in Workers |-> 0]
    /\ posting = [p \in Posters |-> NoTask]
    /\ first = [p \in Posters |-> 0] /\ tried = [p \in Posters |-> 0]
    /\ done = {}

\* How many holders a task has: queues, workers and posters.
Copies(k) ==
    Cardinality({s \in Workers \X (1 .. Cardinality(Tasks)) :
                    s[2] <= Len(queues_[s[1]]) /\ queues_[s[1]][s[2]] = k})
    + Cardinality({w \in Workers : working[w] = k})
    + Cardinality({p \in Posters : posting[p] = k})

Posted(k) == k \in done \/ Copies(k) > 0

------------------------------------------------------------------------------
(* post_work and post_task of the stealing pool                            *)

Post(p, k) ==
    /\ stealing
    /\ posting[p] = NoTask /\ ~Posted(k)
    /\ posting' = [posting EXCEPT ![p] = k]
    /\ first' = [first EXCEPT ![p] = index_]
    /\ index_' = (index_ + 1) % count_      \* only index_ % count_ is used
    /\ UNCHANGED <<stealing, queues_, workers, tried>>

Push(p, w) ==
    /\ queues_' = [queues_ EXCEPT ![w] = Append(@, posting[p])]
    /\ posting' = [posting EXCEPT ![p] = NoTask]
    /\ first' = [first EXCEPT ![p] = 0] /\ tried' = [tried EXCEPT ![p] = 0]

TryPushGoesOn(p) ==                 \* mutant: no return after the push
    /\ posting[p] # NoTask /\ tried[p] < LOOP_K * count_
    /\ queues_' = [queues_ EXCEPT ![(first[p] + tried[p]) % count_] = Append(@, posting[p])]
    /\ tried' = [tried EXCEPT ![p] = @ + 1]
    /\ UNCHANGED <<stealing, index_, workers, posting, first>>

TryPush(p) ==
    /\ posting[p] # NoTask /\ tried[p] < LOOP_K * count_
    /\ Push(p, (first[p] + tried[p]) % count_)
    /\ UNCHANGED <<stealing, index_, workers>>

TryPushFails(p) ==
    /\ posting[p] # NoTask /\ tried[p] < LOOP_K * count_
    /\ tried' = [tried EXCEPT ![p] = @ + 1]
    /\ UNCHANGED <<stealing, queues_, index_, workers, posting, first>>

PushFirst(p) ==
    /\ posting[p] # NoTask /\ tried[p] = LOOP_K * count_
    /\ Push(p, first[p])
    /\ UNCHANGED <<stealing, index_, workers>>

------------------------------------------------------------------------------
(* The workers of the stealing pool                                        *)

Run(w, q) ==
    /\ queues_[q] # <<>>
    /\ queues_' = [queues_ EXCEPT ![q] = Tail(@)]
    /\ working' = [working EXCEPT ![w] = Head(queues_[q])]
    /\ looking' = [looking EXCEPT ![w] = 0]
    /\ UNCHANGED <<stealing, posters, done>>

Idle(w) == working[w] = NoTask

TryPop(w) ==
    /\ stealing /\ Idle(w) /\ looking[w] < count_
    /\ Run(w, (w + looking[w]) % count_)

TryPopForEver(w) ==                 \* mutant: never blocks in its own queue
    /\ stealing /\ Idle(w) /\ looking[w] < count_
    /\ looking' = [looking EXCEPT ![w] = (@ + 1) % count_]
    /\ UNCHANGED <<stealing, queues_, working, done, posters>>

\* The queue is empty, or somebody has its mutex.
TryPopFails(w) ==
    /\ stealing /\ Idle(w) /\ looking[w] < count_
    /\ looking' = [looking EXCEPT ![w] = @ + 1]
    /\ UNCHANGED <<stealing, queues_, working, done, posters>>

Pop(w) ==
    /\ stealing /\ Idle(w) /\ looking[w] = count_
    /\ Run(w, w)

Finish(w) ==
    /\ ~Idle(w)
    /\ working' = [working EXCEPT ![w] = NoTask]
    /\ done' = done \cup {working[w]}
    /\ UNCHANGED <<stealing, queues_, looking, posters>>

------------------------------------------------------------------------------
(* The simple pool                                                         *)

SimplePost(k) ==
    /\ ~stealing
    /\ ~Posted(k)
    /\ queues_' = [queues_ EXCEPT ![0] = Append(@, k)]
    /\ UNCHANGED <<stealing, workers, posters>>

SimplePop(w) ==
    /\ ~stealing /\ Idle(w)
    /\ Run(w, 0)

PosterStep(p) == TryPush(p) \/ TryPushFails(p) \/ PushFirst(p)
WorkerStep(w) == TryPop(w) \/ TryPopFails(w) \/ Pop(w) \/ Finish(w)

Next ==
    \/ \E p \in Posters : PosterStep(p) \/ \E k \in Tasks : Post(p, k)
    \/ \E k \in Tasks : SimplePost(k)
    \/ \E w \in Workers : WorkerStep(w) \/ SimplePop(w)

\* Every thread keeps running and tasks end.  A worker that blocks in its own
\* queue is the only one that does, so it is served; of those that block in the
\* queue of the simple pool somebody is.
Fairness ==
    /\ \A p \in Posters : WF_vars(PosterStep(p))
    /\ \A w \in Workers : WF_vars(WorkerStep(w))
    /\ WF_vars(\E w \in Workers : SimplePop(w))

Spec == Init /\ [][Next]_vars
FairSpec == Spec /\ Fairness

------------------------------------------------------------------------------
\* A task that was posted is in at most one place, and nowhere once it has run:
\* no attempt to push or to steal that fails, and no race of thieves, makes it
\* run twice.
TaskInOnePlace == \A k \in Tasks : Copies(k) <= 1 /\ (k \in done => Copies(k) = 0)

\* Every task that is posted runs, if the tasks before it end: none is lost by
\* an attempt that fails, and the one in the queue of a busy worker is not
\* forgotten although all others may sleep, each in its own queue.
EveryTaskRuns == \A k \in Tasks : Posted(k) ~> k \in done
==============================================================================
