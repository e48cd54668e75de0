------------------------------ MODULE MCMutexes ------------------------------
(***************************************************************************)
(* The mutexes of stdlib/shared_mutex.hpp and stdlib/mutex.hpp, the        *)
(* functions that lock several of them and unique_lock (stdlib/_mutex.hpp) *)
(* side by side for TLC: the definitions of SharedMutex are taken as they  *)
(* are, the others by name.  Each behaviour is one of one component,       *)
(* chosen at the start; the others stay as they were constructed.  Their   *)
(* fairness asks for nothing there, as it is about threads inside a call   *)
(* and, in SharedMutex, about holders.                                     *)
(***************************************************************************)
EXTENDS SharedMutex, Sequences

CONSTANTS NoThread,
          MaxCount,             \* of recursive_timed_mutex
          Mutexes,              \* those that lock(), try_lock(), scoped_lock take
          Orders,               \* the argument lists of their calls
          m1, m2, m3,           \* for TLC: the mutexes
          Objects               \* the unique_locks

ASSUME ThreadsAssumption == IsFiniteSet(Threads) /\ NoThread \notin Threads
ASSUME MaxCountAssumption == MaxCount \in Nat \ {0}
ASSUME ObjectsAssumption == IsFiniteSet(Objects)

\* The functions take two mutexes or more, and it is the caller's duty not to
\* name one twice.
ASSUME OrdersAssumption ==
    /\ Orders # {}
    /\ \A args \in Orders :
        /\ args \in Seq(Mutexes) /\ Len(args) >= 2
        /\ \A i, j \in 1 .. Len(args) : args[i] = args[j] => i = j

VARIABLES mutex,                \* the component that runs
          t_locked, t_pc, t_deadline, t_sleepers,
          r_count, r_id, r_held, r_pc, r_deadline, r_sleepers,
          s_owner, s_order, s_pc, s_retrying, s_start, s_taken, s_next,
          u_holder, u_live, u_mtx, u_owns, u_owed, u_duplicated

Timed == INSTANCE TimedMutex WITH
    locked_ <- t_locked, pc <- t_pc, deadline <- t_deadline,
    sleepers <- t_sleepers

Recursive == INSTANCE RecursiveTimedMutex WITH
    count_ <- r_count, id_ <- r_id, held <- r_held, pc <- r_pc,
    deadline <- r_deadline, sleepers <- r_sleepers

Several == INSTANCE MultiLock WITH
    owner <- s_owner, order <- s_order, pc <- s_pc, retrying <- s_retrying,
    start <- s_start, taken <- s_taken, next <- s_next

Unique == INSTANCE UniqueLock WITH
    holder <- u_holder, live <- u_live, mtx_ <- u_mtx, owns_ <- u_owns,
    owed <- u_owed, duplicated <- u_duplicated

t_vars == <<t_locked, t_pc, t_deadline, t_sleepers>>
r_vars == <<r_count, r_id, r_held, r_pc, r_deadline, r_sleepers>>
m_vars == <<write_entered_, readers, gate1_, gate2_, pc, deadline>>
s_vars == <<s_owner, s_order, s_pc, s_retrying, s_start, s_taken, s_next>>
u_vars == <<u_holder, u_live, u_mtx, u_owns, u_owed, u_duplicated>>

AllInit ==
    /\ mutex \in {"shared", "timed", "recursive", "several", "unique"}
    /\ Init /\ Timed!Init /\ Recursive!Init /\ Several!Init /\ Unique!Init

AllNext ==
    /\ UNCHANGED mutex
    /\ \/ /\ mutex = "shared"
          /\ Next
          /\ UNCHANGED <<t_vars, r_vars, s_vars, u_vars>>
       \/ /\ mutex = "timed"
          /\ Timed!Next
          /\ UNCHANGED <<m_vars, r_vars, s_vars, u_vars>>
       \/ /\ mutex = "recursive"
          /\ Recursive!Next
          /\ UNCHANGED <<m_vars, t_vars, s_vars, u_vars>>
       \/ /\ mutex = "several"
          /\ Several!Next
          /\ UNCHANGED <<m_vars, t_vars, r_vars, u_vars>>
       \/ /\ mutex = "unique"
          /\ Unique!Next
          /\ UNCHANGED <<m_vars, t_vars, r_vars, s_vars>>

AllSpec ==
    /\ AllInit
    /\ [][AllNext]_<<mutex, m_vars, t_vars, r_vars, s_vars, u_vars>>
    /\ Fairness /\ Timed!Fairness /\ Recursive!Fairness /\ Several!Fairness

\* For TLC: three arguments and two, which meet in different orders.
OpposedOrders == {<<m1, m2, m3>>, <<m3, m1>>}

------------------------------------------------------------------------------
\* Types, and who has what: the word of shared_mutex and the owner and count of
\* recursive_timed_mutex are what their calls returned, lock() and try_lock()
\* return with all of their mutexes, and a lock is owed by one unique_lock, or
\* by the client, at most.
Consistent ==
    /\ TypeOK /\ WordTold
    /\ Timed!TypeOK
    /\ Recursive!TypeOK /\ Recursive!OwnerTold
    /\ Several!TypeOK /\ Several!AllTaken
    /\ Unique!TypeOK /\ Unique!OwedOnce

\* No thread sleeps on at a mutex that it could take, unless another one is
\* about to see to it.
NoLostWakeup ==
    NoSleeperAtOpenGate /\ Timed!NoLostWakeup /\ Recursive!NoLostWakeup

\* Who blocks on one of several mutexes, or has failed to get them, holds none.
NothingKept == Several!NothingKept

\* Who is alone in wanting several mutexes gets them.
LoneCallerServed == Several!LoneCallerServed

\* shared_mutex does what SharedExclusion promises, and the two timed mutexes
\* what MutualExclusion does.
ImplementLocks ==
    ImplementsLock /\ Timed!ImplementsMutex /\ Recursive!ImplementsMutex
==============================================================================
