----------------------------- MODULE EventsProofs -----------------------------
(***************************************************************************)
(* What is proved of the two events of sync/event.hpp and of fast_mutex    *)
(* (sync/mutex_extra.hpp) for any set of threads, finite or not: an event  *)
(* that is set forgets no sleeping thread, every step of auto_event is a   *)
(* step of AutoResetEvent, and fast_mutex has one holder, loses no wakeup  *)
(* and takes the steps of MutualExclusion.                                 *)
(***************************************************************************)
EXTENDS MCEvents, TLAPS

(***************************************************************************)
(* fast_mutex                                                              *)
(***************************************************************************)

\* The word is 0, 1 or 2 and every thread is at a label of the code.
LEMMA MutexTypes == Spec => []TypeOK
<1> USE DEF TypeOK, Goto
<1>1. Init => TypeOK
  <2>1. Init => event_ \in BOOLEAN
    BY Zenon DEF Init
  <2> QED
    BY <2>1 DEF Init
<1>2. TypeOK /\ [Next]_vars => TypeOK'
  <2> SUFFICES ASSUME TypeOK, [Next]_vars PROVE TypeOK'
    OBVIOUS
  <2>1. ASSUME NEW t \in Threads, Lock(t) \/ TryLock(t) \/ Unlock(t)
        PROVE  TypeOK'
    BY <2>1 DEF Lock, TryLock, Unlock
  <2>2. ASSUME NEW t \in Threads, Contend(t) PROVE TypeOK'
    BY <2>2 DEF Contend, Event!Arrive
  <2>3. ASSUME NEW t \in Threads, Awaken(t) \/ SignalEvent(t) PROVE TypeOK'
    BY <2>3 DEF Awaken, SignalEvent, Event!Consume, Event!Signal
  <2>4. CASE UNCHANGED vars
    BY <2>4 DEF vars
  <2> QED
    BY <2>1, <2>2, <2>3, <2>4 DEF Next
<1> QED
  BY <1>1, <1>2, PTL DEF Spec

------------------------------------------------------------------------------
\* Mutual exclusion: the word is 0 exactly while the lock is free and one
\* thread at most holds it.  With the types it is inductive: a thread enters
\* only when its exchange returns 0, and only the holder stores 0.
THEOREM OneHolder == Spec => []ExclusiveWord
<1> USE DEF TypeOK, ExclusiveWord, At, Goto
<1>1. Init => ExclusiveWord
  BY DEF Init
<1>2. TypeOK /\ ExclusiveWord /\ [Next]_vars => ExclusiveWord'
  <2> SUFFICES ASSUME TypeOK, ExclusiveWord, [Next]_vars PROVE ExclusiveWord'
    OBVIOUS
  <2>1. ASSUME NEW t \in Threads, Lock(t) \/ TryLock(t) PROVE ExclusiveWord'
    <3>1. CASE state_ = 0
      BY <2>1, <3>1 DEF Lock, TryLock
    <3>2. CASE state_ # 0
      <4>1. At("held")' = At("held") /\ state_' # 0
        BY <2>1, <3>2 DEF Lock, TryLock
      <4> QED
        BY <3>2, <4>1
    <3> QED
      BY <3>1, <3>2
  <2>2. ASSUME NEW t \in Threads, Contend(t) PROVE ExclusiveWord'
    <3>1. CASE state_ = 0
      BY <2>2, <3>1 DEF Contend
    <3>2. CASE state_ # 0
      <4>1. At("held")' = At("held") /\ state_' # 0
        BY <2>2, <3>2 DEF Contend
      <4> QED
        BY <3>2, <4>1
    <3> QED
      BY <3>1, <3>2
  <2>3. ASSUME NEW t \in Threads, Unlock(t) PROVE ExclusiveWord'
    <3>1. At("held") = {t}
      BY <2>3 DEF Unlock
    <3>2. At("held")' = {} /\ state_' = 0
      BY <2>3, <3>1 DEF Unlock
    <3> QED
      BY <3>2
  <2>4. ASSUME NEW t \in Threads, Awaken(t) \/ SignalEvent(t)
        PROVE  ExclusiveWord'
    <3>1. At("held")' = At("held") /\ state_' = state_
      BY <2>4 DEF Awaken, SignalEvent
    <3> QED
      BY <3>1
  <2>5. CASE UNCHANGED vars
    BY <2>5 DEF vars
  <2> QED
    BY <2>1, <2>2, <2>3, <2>4, <2>5 DEF Next
<1> QED
  BY <1>1, <1>2, MutexTypes, PTL DEF Spec

------------------------------------------------------------------------------
\* A thread waits for the event only while the word, the event or a thread
\* under way will tell of it.  With the types it is inductive: the exchange
\* of a newcomer that hides a 2 makes the newcomer a contending thread, and
\* whoever clears a 2 is about to signal.
THEOREM NobodyForgotten == Spec => []NoLostWakeup
<1> USE DEF TypeOK, NoLostWakeup, At, Goto
<1>1. Init => NoLostWakeup
  BY DEF Init
<1>2. TypeOK /\ NoLostWakeup /\ [Next]_vars => NoLostWakeup'
  <2> SUFFICES ASSUME TypeOK, NoLostWakeup, [Next]_vars PROVE NoLostWakeup'
    OBVIOUS
  <2>1. ASSUME NEW t \in Threads, Lock(t) PROVE NoLostWakeup'
    <3>1. CASE state_ = 0
      <4>1. /\ At("contend")' = At("contend")
            /\ At("signal")' = At("signal")
            /\ At("event_wait")' = At("event_wait")
            /\ event_' = event_
        BY <2>1, <3>1 DEF Lock
      <4> QED
        BY <3>1, <4>1
    <3>2. CASE state_ # 0
      BY <2>1, <3>2 DEF Lock
    <3> QED
      BY <3>1, <3>2
  <2>2. ASSUME NEW t \in Threads, TryLock(t) PROVE NoLostWakeup'
    <3>1. /\ At("contend")' = At("contend")
          /\ At("signal")' = At("signal")
          /\ At("event_wait")' = At("event_wait")
          /\ event_' = event_ /\ state_ = 0
      BY <2>2 DEF TryLock
    <3> QED
      BY <3>1
  <2>3. ASSUME NEW t \in Threads, Contend(t) PROVE NoLostWakeup'
    BY <2>3 DEF Contend
  <2>4. ASSUME NEW t \in Threads, Awaken(t) PROVE NoLostWakeup'
    BY <2>4 DEF Awaken
  <2>5. ASSUME NEW t \in Threads, Unlock(t) PROVE NoLostWakeup'
    <3>1. CASE state_ = 2
      BY <2>5, <3>1 DEF Unlock
    <3>2. CASE state_ # 2
      <4>1. /\ At("contend")' = At("contend")
            /\ At("signal")' = At("signal")
            /\ At("event_wait")' = At("event_wait")
            /\ event_' = event_
        BY <2>5, <3>2 DEF Unlock
      <4> QED
        BY <3>2, <4>1
    <3> QED
      BY <3>1, <3>2
  <2>6. ASSUME NEW t \in Threads, SignalEvent(t) PROVE NoLostWakeup'
    BY <2>6 DEF SignalEvent, Event!Signal
  <2>7. CASE UNCHANGED vars
    BY <2>7 DEF vars
  <2> QED
    BY <2>1, <2>2, <2>3, <2>4, <2>5, <2>6, <2>7 DEF Next
<1> QED
  BY <1>1, <1>2, MutexTypes, PTL DEF Spec

------------------------------------------------------------------------------
\* Every behaviour of sync::fast_mutex is one of MutualExclusion, its fairness
\* apart: a lock is taken only while nobody holds it and given back by its
\* holder, and the word, the event and the wakeups do not show.
THEOREM StepsImplementMutex ==
    Spec => Abstract!Init /\ [][Abstract!Next]_(Abstract!vars)
<1> USE DEF At, Goto
<1>1. Init => Abstract!Init
  BY DEF Init, Abstract!Init
<1>2. /\ TypeOK /\ ExclusiveWord /\ [Next]_vars
      => [Abstract!Next]_(Abstract!vars)
  <2> SUFFICES ASSUME TypeOK, ExclusiveWord, [Next]_vars
               PROVE  Abstract!Next \/ UNCHANGED Abstract!vars
    OBVIOUS
  <2> USE DEF TypeOK, ExclusiveWord, Abstract!vars
  <2>1. ASSUME NEW t \in Threads, Lock(t), state_ = 0
        PROVE  Abstract!Acquire(t)
    BY <2>1 DEF Lock, Abstract!Acquire
  <2>2. ASSUME NEW t \in Threads, Lock(t), state_ # 0
        PROVE  Abstract!Arrive(t)
    BY <2>2 DEF Lock, Abstract!Arrive
  <2>3. ASSUME NEW t \in Threads, TryLock(t) PROVE Abstract!Acquire(t)
    BY <2>3 DEF TryLock, Abstract!Acquire
  <2>4. ASSUME NEW t \in Threads, Contend(t), state_ = 0
        PROVE  Abstract!Acquire(t)
    BY <2>4 DEF Contend, Abstract!Acquire
  <2>5. ASSUME NEW t \in Threads, Contend(t), state_ # 0
        PROVE  UNCHANGED Abstract!vars
    BY <2>5 DEF Contend
  <2>6. ASSUME NEW t \in Threads, Unlock(t) PROVE Abstract!Release(t)
    BY <2>6 DEF Unlock, Abstract!Release
  <2>7. ASSUME NEW t \in Threads, Awaken(t) \/ SignalEvent(t)
        PROVE  UNCHANGED Abstract!vars
    BY <2>7 DEF Awaken, SignalEvent
  <2>8. CASE UNCHANGED vars
    BY <2>8 DEF vars
  <2> QED
    BY <2>1, <2>2, <2>3, <2>4, <2>5, <2>6, <2>7, <2>8
       DEF Next, Abstract!Next
<1> QED
  BY <1>1, <1>2, MutexTypes, OneHolder, PTL DEF Spec

(***************************************************************************)
(* The events                                                              *)
(***************************************************************************)

\* Each component takes its own steps or stays as it is, so that what a step
\* of each keeps, a step of the whole keeps.
LEMMA EachSteps ==
    ASSUME [AllNext]_<<component, vars, a_vars, m_vars>>
    PROVE  /\ [Next]_vars
           /\ [AutoReset!Next]_(AutoReset!vars)
           /\ [Manual!Next]_(Manual!vars)
BY DEF AllNext, vars, a_vars, m_vars, AutoReset!vars, Manual!vars

AutoInv == AutoReset!TypeOK /\ AutoReset!NoLostSignal

ManualInv == Manual!TypeOK /\ Manual!NobodyShutOut

------------------------------------------------------------------------------
(* auto_event                                                              *)

\* A step of auto_event keeps the flag from being set beside sleepers alone: a
\* signal brings its notification, a notification wakes a thread that will
\* look at the flag, and who stops looking found the flag reset.
LEMMA AutoKept == AutoInv /\ [AutoReset!Next]_(AutoReset!vars) => AutoInv'
<1> USE DEF AutoInv, AutoReset!TypeOK, AutoReset!NoLostSignal, AutoReset!Awake, AutoReset!Goto
<1> SUFFICES ASSUME AutoInv, [AutoReset!Next]_(AutoReset!vars) PROVE AutoInv'
  OBVIOUS
<1>1. ASSUME NEW t \in Threads, AutoReset!Signal(t) PROVE AutoInv'
  BY <1>1 DEF AutoReset!Signal
<1>2. ASSUME NEW t \in Threads, AutoReset!SignalAwake(t) PROVE AutoInv'
  <2>1. CASE a_sleepers = {} /\ a_sleepers' = {}
    BY <1>2, <2>1 DEF AutoReset!SignalAwake
  <2>2. ASSUME NEW w \in a_sleepers, a_sleepers' = a_sleepers \ {w}
        PROVE  AutoInv'
    <3>1. w \in Threads /\ a_pc[w] = "waiting" /\ w # t
      BY <1>2 DEF AutoReset!SignalAwake
    <3>2. a_pc'[w] = "waiting" /\ w \notin a_sleepers'
      BY <1>2, <2>2, <3>1 DEF AutoReset!SignalAwake
    <3> QED
      BY <1>2, <2>2, <3>1, <3>2 DEF AutoReset!SignalAwake
  <2> QED
    BY <1>2, <2>1, <2>2 DEF AutoReset!SignalAwake, AutoReset!NotifyOne
<1>3. ASSUME NEW t \in Threads, AutoReset!Wait(t) \/ AutoReset!WaitUntil(t)
      PROVE  AutoInv'
  BY <1>3 DEF AutoReset!Wait, AutoReset!WaitUntil
<1>4. ASSUME NEW t \in Threads, AutoReset!Consume(t) \/ AutoReset!GiveUp(t)
      PROVE  AutoInv'
  <2>1. ~a_signaled'
    BY <1>4 DEF AutoReset!Consume, AutoReset!GiveUp
  <2>2. AutoReset!TypeOK'
    BY <1>4 DEF AutoReset!Consume, AutoReset!GiveUp
  <2> QED
    BY <2>1, <2>2
<1>5. ASSUME NEW t \in Threads, AutoReset!Sleep(t) PROVE AutoInv'
  BY <1>5 DEF AutoReset!Sleep, AutoReset!Block
<1>6. ASSUME NEW t \in Threads, AutoReset!DeadlinePasses(t) PROVE AutoInv'
  BY <1>6 DEF AutoReset!DeadlinePasses
<1>7. ASSUME NEW t \in Threads, AutoReset!Wakeup(t) PROVE AutoInv'
  BY <1>7 DEF AutoReset!Wakeup, AutoReset!Unblock
<1>8. CASE UNCHANGED AutoReset!vars
  BY <1>8 DEF AutoReset!vars
<1> QED
  BY <1>1, <1>2, <1>3, <1>4, <1>5, <1>6, <1>7, <1>8 DEF AutoReset!Next

------------------------------------------------------------------------------
(* manual_event                                                            *)

\* A step of manual_event keeps the gate from being open before sleepers
\* nobody is about to wake: only a signal opens it, and its notification,
\* however late, wakes all of them; nobody goes to sleep before an open gate.
LEMMA ManualKept == ManualInv /\ [Manual!Next]_(Manual!vars) => ManualInv'
<1> USE DEF ManualInv, Manual!TypeOK, Manual!NobodyShutOut, Manual!Awake,
            Manual!Goto
<1> SUFFICES ASSUME ManualInv, [Manual!Next]_(Manual!vars) PROVE ManualInv'
  OBVIOUS
<1>1. ASSUME NEW t \in Threads, Manual!Signal(t) PROVE ManualInv'
  BY <1>1 DEF Manual!Signal
<1>2. ASSUME NEW t \in Threads, Manual!SignalAwake(t) PROVE ManualInv'
  BY <1>2 DEF Manual!SignalAwake, Manual!NotifyAll
<1>3. ASSUME NEW t \in Threads, Manual!Reset(t) PROVE ManualInv'
  BY <1>3 DEF Manual!Reset
<1>4. ASSUME NEW t \in Threads, Manual!Wait(t) \/ Manual!WaitUntil(t)
      PROVE  ManualInv'
  BY <1>4 DEF Manual!Wait, Manual!WaitUntil
<1>5. ASSUME NEW t \in Threads, Manual!Pass(t) \/ Manual!GiveUp(t)
      PROVE  ManualInv'
  BY <1>5 DEF Manual!Pass, Manual!GiveUp
<1>6. ASSUME NEW t \in Threads, Manual!Sleep(t) PROVE ManualInv'
  BY <1>6 DEF Manual!Sleep, Manual!Block
<1>7. ASSUME NEW t \in Threads, Manual!DeadlinePasses(t) PROVE ManualInv'
  BY <1>7 DEF Manual!DeadlinePasses
<1>8. ASSUME NEW t \in Threads, Manual!Wakeup(t) PROVE ManualInv'
  BY <1>8 DEF Manual!Wakeup, Manual!Unblock
<1>9. CASE UNCHANGED Manual!vars
  BY <1>9 DEF Manual!vars
<1> QED
  BY <1>1, <1>2, <1>3, <1>4, <1>5, <1>6, <1>7, <1>8, <1>9 DEF Manual!Next

------------------------------------------------------------------------------
\* Through every behaviour of the three, what each keeps holds.
LEMMA EventsHold == AllSpec => [](AutoInv /\ ManualInv)
<1>1. AllInit => AutoInv /\ ManualInv
  BY DEF AllInit, AutoInv, AutoReset!Init, AutoReset!TypeOK,
         AutoReset!NoLostSignal, ManualInv, Manual!Init, Manual!TypeOK,
         Manual!NobodyShutOut
<1>2. AutoInv /\ ManualInv /\ [AllNext]_<<component, vars, a_vars, m_vars>>
        => (AutoInv /\ ManualInv)'
  BY EachSteps, AutoKept, ManualKept
<1> QED
  BY <1>1, <1>2, PTL DEF AllSpec

\* A behaviour of the three is one of fast_mutex, too.
LEMMA MutexSpec == AllSpec => Spec
<1>1. AllInit => Init
  BY DEF AllInit
<1>2. [AllNext]_<<component, vars, a_vars, m_vars>> => [Next]_vars
  BY EachSteps
<1> QED
  BY <1>1, <1>2, PTL DEF AllSpec, Spec

\* Every variable keeps to its range, every thread is at a label of the code,
\* and a thread asleep is inside a wait.
THEOREM TypeCorrect == AllSpec => []TypesOK
<1>1. TypeOK /\ AutoInv /\ ManualInv => TypesOK
  BY DEF AutoInv, ManualInv, TypesOK
<1> QED
  BY <1>1, EventsHold, MutexSpec, MutexTypes, PTL

\* No signal is lost on sleepers, of either event: while an auto_event is set
\* beside a sleeper, a notification is on its way or an awake waiter will find
\* the event set; before an open manual_event nobody sleeps but until the
\* notification that is on its way.
THEOREM SignalsReachSleepers == AllSpec => []NoLostSignal
<1>1. AutoInv /\ ManualInv => NoLostSignal
  BY DEF AutoInv, ManualInv, NoLostSignal
<1> QED
  BY <1>1, EventsHold, PTL

\* Every behaviour of auto_event is one of AutoResetEvent, its fairness
\* apart: the flag is consumed by one waiting thread in one step, and a wait
\* fails only when the event is not set.
THEOREM AutoStepsImplementEvent ==
    AllSpec => AutoReset!Abstract!Init
                /\ [][AutoReset!Abstract!Next]_(AutoReset!Abstract!vars)
<1>1. AllInit => AutoReset!Abstract!Init
  BY DEF AllInit, AutoReset!Init, AutoReset!Abstract!Init
<1>2. AutoInv /\ [AutoReset!Next]_(AutoReset!vars)
      => [AutoReset!Abstract!Next]_(AutoReset!Abstract!vars)
  <2> USE DEF AutoInv, AutoReset!TypeOK, AutoReset!Goto, AutoReset!Awake
  <2> SUFFICES ASSUME AutoInv, [AutoReset!Next]_(AutoReset!vars)
               PROVE  AutoReset!Abstract!Next \/ UNCHANGED AutoReset!Abstract!vars
    OBVIOUS
  <2> DEFINE waiting == {t \in Threads : a_pc[t] = "waiting"}
  <2>1. ASSUME NEW t \in Threads, AutoReset!Signal(t)
        PROVE  AutoReset!Abstract!Signal
    BY <2>1 DEF AutoReset!Signal, AutoReset!Abstract!Signal
  <2>2. ASSUME NEW t \in Threads,
               AutoReset!SignalAwake(t) \/ AutoReset!Sleep(t) \/ AutoReset!DeadlinePasses(t)
                 \/ AutoReset!Wakeup(t)
        PROVE  UNCHANGED AutoReset!Abstract!vars
    BY <2>2 DEF AutoReset!SignalAwake, AutoReset!Sleep, AutoReset!DeadlinePasses,
                AutoReset!Wakeup, AutoReset!Abstract!vars
  <2>3. ASSUME NEW t \in Threads, AutoReset!Wait(t) \/ AutoReset!WaitUntil(t)
        PROVE  AutoReset!Abstract!Arrive(t)
    <3>1. t \notin waiting /\ waiting' = waiting \cup {t}
      BY <2>3 DEF AutoReset!Wait, AutoReset!WaitUntil
    <3> QED
      BY <2>3, <3>1 DEF AutoReset!Wait, AutoReset!WaitUntil, AutoReset!Abstract!Arrive
  <2>4. ASSUME NEW t \in Threads, AutoReset!Consume(t)
        PROVE  AutoReset!Abstract!Consume(t)
    <3>1. t \in waiting /\ waiting' = waiting \ {t}
      BY <2>4 DEF AutoReset!Consume
    <3> QED
      BY <2>4, <3>1 DEF AutoReset!Consume, AutoReset!Abstract!Consume
  <2>5. ASSUME NEW t \in Threads, AutoReset!GiveUp(t)
        PROVE  AutoReset!Abstract!GiveUp(t)
    <3>1. t \in waiting /\ waiting' = waiting \ {t}
      BY <2>5 DEF AutoReset!GiveUp
    <3> QED
      BY <2>5, <3>1 DEF AutoReset!GiveUp, AutoReset!Abstract!GiveUp
  <2>6. CASE UNCHANGED AutoReset!vars
    BY <2>6 DEF AutoReset!vars, AutoReset!Abstract!vars
  <2> QED
    BY <2>1, <2>2, <2>3, <2>4, <2>5, <2>6 DEF AutoReset!Next, AutoReset!Abstract!Next
<1>3. AutoInv /\ [AllNext]_<<component, vars, a_vars, m_vars>>
        => [AutoReset!Abstract!Next]_(AutoReset!Abstract!vars)
  BY <1>2, EachSteps
<1> QED
  BY <1>1, <1>3, EventsHold, PTL DEF AllSpec
==============================================================================
