----------------------------- MODULE MCSemaphores -----------------------------
(***************************************************************************)
(* The two semaphores of sync/semaphore.hpp side by side for TLC: the      *)
(* definitions of FastSemaphore are taken as they are, those of Semaphore  *)
(* by name.  Each behaviour is one of one semaphore, chosen at the start;  *)
(* the other stays as it was constructed.  Its fairness asks for nothing   *)
(* there, as it is about threads inside a call.                            *)
(***************************************************************************)
EXTENDS FastSemaphore

VARIABLES semaphore,                    \* the one that is used
          s_count, s_pc, s_deadline, s_sleepers

Plain == INSTANCE Semaphore WITH
    count_ <- s_count, pc <- s_pc, deadline <- s_deadline,
    sleepers <- s_sleepers

s_vars == <<s_count, s_pc, s_deadline, s_sleepers>>

AllInit ==
    /\ semaphore \in {"semaphore", "fast_semaphore"}
    /\ Init /\ Plain!Init

AllNext ==
    /\ UNCHANGED semaphore
    /\ \/ semaphore = "semaphore" /\ Plain!Next /\ UNCHANGED vars
       \/ semaphore = "fast_semaphore" /\ Next /\ UNCHANGED s_vars

AllSpec ==
    /\ AllInit /\ [][AllNext]_<<semaphore, vars, s_vars>>
    /\ Fairness /\ Plain!Fairness

------------------------------------------------------------------------------
\* The types of both.
TypesOK == TypeOK /\ Plain!TypeOK

\* No token of semaphore is stranded beside threads that sleep.
NoLostWakeup == Plain!NoLostWakeup

\* Both semaphores do what CountingSemaphore promises.
ImplementSemaphores == ImplementsSemaphore /\ Plain!ImplementsSemaphore

\* The timed waits of semaphore return.
TimedWaitReturns == Plain!TimedWaitReturns
==============================================================================
