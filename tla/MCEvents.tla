------------------------------- MODULE MCEvents -------------------------------
(***************************************************************************)
(* The two events of sync/event.hpp, and fast_mutex                        *)
(* (sync/mutex_extra.hpp), whose threads sleep at an auto_event, side by   *)
(* side for TLC: the definitions of FastMutex are taken as they are, those *)
(* of the events by name.  Each behaviour is one of one of them, chosen at *)
(* the start; the others stay as they were constructed.  Their fairness    *)
(* asks for nothing there, as it is about threads inside a call.           *)
(***************************************************************************)
EXTENDS FastMutex

VARIABLES component,            \* the one that is used
          a_signaled, a_pc, a_deadline, a_sleepers,
          m_signaled, m_pc, m_deadline, m_sleepers

AutoReset == INSTANCE AutoEvent WITH
    signaled_ <- a_signaled, pc <- a_pc, deadline <- a_deadline,
    sleepers <- a_sleepers

Manual == INSTANCE ManualEvent WITH
    signaled_ <- m_signaled, pc <- m_pc, deadline <- m_deadline,
    sleepers <- m_sleepers

a_vars == <<a_signaled, a_pc, a_deadline, a_sleepers>>
m_vars == <<m_signaled, m_pc, m_deadline, m_sleepers>>

AllInit ==
    /\ component \in {"auto_event", "manual_event", "fast_mutex"}
    /\ Init /\ AutoReset!Init /\ Manual!Init

AllNext ==
    /\ UNCHANGED component
    /\ \/ /\ component = "auto_event"
          /\ AutoReset!Next /\ UNCHANGED <<vars, m_vars>>
       \/ /\ component = "manual_event"
          /\ Manual!Next /\ UNCHANGED <<vars, a_vars>>
       \/ /\ component = "fast_mutex"
          /\ Next /\ UNCHANGED <<a_vars, m_vars>>

AllSpec ==
    /\ AllInit /\ [][AllNext]_<<component, vars, a_vars, m_vars>>
    /\ Fairness /\ AutoReset!Fairness /\ Manual!Fairness

------------------------------------------------------------------------------
\* The types of the three.
TypesOK == TypeOK /\ AutoReset!TypeOK /\ Manual!TypeOK

\* No thread sleeps on beside an event that is set, unless somebody is about to
\* wake it (or, for an auto_event, about to consume the signal).
NoLostSignal == AutoReset!NoLostSignal /\ Manual!NobodyShutOut

\* auto_event does what AutoResetEvent promises.
ImplementsEvent == AutoReset!ImplementsEvent

\* A manual_event that stays set lets every waiter through.
OpenGatePassesAll == Manual!OpenGatePassesAll
==============================================================================
