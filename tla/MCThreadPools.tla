---------------------------- MODULE MCThreadPools ----------------------------
(***************************************************************************)
(* The thread objects (stdlib/_thread.hpp, thread.hpp) and the thread      *)
(* pools (sync/thread_pool.hpp) side by side for TLC: the definitions of   *)
(* Threads are taken as they are, those of ThreadPool by name.  Each       *)
(* behaviour is one of one component, chosen at the start.  Where the      *)
(* objects run, the pool that stays as constructed is the simple one,      *)
(* whose workers have nothing to do as long as nobody posts, so that the   *)
(* fairness of the pools asks for nothing there.                           *)
(***************************************************************************)
EXTENDS Threads, Naturals

CONSTANTS PoolSize, Posters, Tasks       \* of the pools

ASSUME PoolAssumption ==
    PoolSize \in Nat \ {0} /\ IsFiniteSet(Tasks) /\ Null \notin Tasks

VARIABLES component,                    \* the one that is used
          p_stealing, p_queues, p_index, p_working, p_looking, p_posting,
          p_first, p_tried, p_done

Pool == INSTANCE ThreadPool WITH
    count_ <- PoolSize, NoTask <- Null,
    stealing <- p_stealing, queues_ <- p_queues, index_ <- p_index,
    working <- p_working, looking <- p_looking, posting <- p_posting,
    first <- p_first, tried <- p_tried, done <- p_done

t_vars == <<life, handle_, source_, os, detached, stopped, fatal>>
p_vars == <<p_stealing, p_queues, p_index, p_working, p_looking, p_posting,
            p_first, p_tried, p_done>>

AllInit ==
    /\ component \in {"thread", "thread_pool"}
    /\ Init /\ Pool!Init
    /\ component = "thread" => ~p_stealing

AllNext ==
    /\ UNCHANGED component
    /\ \/ component = "thread" /\ Next /\ UNCHANGED p_vars
       \/ component = "thread_pool" /\ Pool!Next /\ UNCHANGED t_vars

AllSpec ==
    /\ AllInit
    /\ [][AllNext]_<<component, t_vars, p_vars>>
    /\ Fairness /\ Pool!Fairness

------------------------------------------------------------------------------
\* Types, and no thread is lost or joined twice, however the objects that own
\* it were moved, swapped and assigned.
Consistent == TypeOK /\ Pool!TypeOK /\ ThreadsAccounted

\* A task that was posted is in at most one place, and nowhere once it has run.
TaskInOnePlace == Pool!TaskInOnePlace

\* Every task that is posted runs, if the tasks before it end.
EveryTaskRuns == Pool!EveryTaskRuns
==============================================================================
