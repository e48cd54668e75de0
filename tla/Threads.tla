------------------------------- MODULE Threads -------------------------------
(***************************************************************************)
(* sync::thread and sync::jthread (stdlib/_thread.hpp, thread.hpp): objects *)
(* that own a POSIX thread each, or none, and hand it on.                  *)
(*                                                                         *)
(* A call on an object is one action, but for ~jthread, which requests a   *)
(* stop and then joins.  join() waits for the thread to end, so its action *)
(* is enabled only then.  A jthread also owns a stop_source; the stop      *)
(* state is named after the thread it was made with.  A failed assertion   *)
(* or std::terminate ends the program: it stops with the reason in fatal.  *)
(***************************************************************************)
EXTENDS FiniteSets

CONSTANTS Objects,      \* the thread objects of the program
          Jthreads,     \* those of them that are jthreads
          Ids,          \* the POSIX threads that can be made
          Null          \* SYNC_NULL_THREAD, and the source without a state

ASSUME JthreadsAssumption == Jthreads \subseteq Objects
ASSUME NullAssumption == Null \notin Ids

VARIABLES life,         \* of each object: "dead", "live" or "stopping"
          handle_,      \* the thread it owns
          source_,      \* the stop state of its stop_source
          os,           \* of each POSIX thread: "unborn", "running", "ended"
                        \* or "joined"
          detached,     \* those that were detached
          stopped,      \* the stop states whose stop was requested
          fatal         \* why the program was aborted

vars == <<life, handle_, source_, os, detached, stopped, fatal>>

TypeOK ==
    /\ life \in [Objects -> {"dead", "live", "stopping"}]
    /\ handle_ \in [Objects -> Ids \cup {Null}]
    /\ source_ \in [Objects -> Ids \cup {Null}]
    /\ os \in [Ids -> {"unborn", "running", "ended", "joined"}]
    /\ detached \subseteq Ids /\ stopped \subseteq Ids
    /\ fatal \in {"no", "owner destroyed", "owner assigned", "detached destroyed"}

Init ==
    /\ life = [h \in Objects |-> "dead"]
    /\ handle_ = [h \in Objects |-> Null]
    /\ source_ = [h \in Objects |-> Null]
    /\ os = [i \in Ids |-> "unborn"]
    /\ detached = {} /\ stopped = {}
    /\ fatal = "no"

Joinable(h) == handle_[h] # Null
SameClass(h, g) == h # g /\ (h \in Jthreads <=> g \in Jthreads)
Abort(why) == fatal' = why /\ UNCHANGED <<life, handle_, source_, os, detached, stopped>>

Construct(h, i) ==
    /\ life[h] = "dead" /\ os[i] = "unborn"
    /\ life' = [life EXCEPT ![h] = "live"]
    /\ handle_' = [handle_ EXCEPT ![h] = i]
    /\ source_' = [source_ EXCEPT ![h] = IF h \in Jthreads THEN i ELSE Null]
    /\ os' = [os EXCEPT ![i] = "running"]
    /\ UNCHANGED <<detached, stopped, fatal>>

ConstructEmpty(h) ==
    /\ life[h] = "dead"
    /\ life' = [life EXCEPT ![h] = "live"]
    /\ UNCHANGED <<handle_, source_, os, detached, stopped, fatal>>

Transfer(h, g) ==
    /\ handle_' = [handle_ EXCEPT ![h] = handle_[g], ![g] = Null]
    /\ source_' = [source_ EXCEPT ![h] = source_[g], ![g] = Null]

MoveConstruct(h, g) ==
    /\ SameClass(h, g)
    /\ life[h] = "dead" /\ life[g] = "live"
    /\ life' = [life EXCEPT ![h] = "live"]
    /\ Transfer(h, g)
    /\ UNCHANGED <<os, detached, stopped, fatal>>

MoveAssignUnchecked(h, g) ==        \* mutant: an owner is assigned to
    /\ SameClass(h, g)
    /\ life[h] = "live" /\ life[g] = "live"
    /\ Transfer(h, g)
    /\ UNCHANGED <<life, os, detached, stopped, fatal>>

MoveAssign(h, g) ==
    /\ SameClass(h, g)
    /\ life[h] = "live" /\ life[g] = "live"
    /\ IF Joinable(h)
       THEN Abort("owner assigned")
       ELSE Transfer(h, g) /\ UNCHANGED <<life, os, detached, stopped, fatal>>

SwapThreadOnly(h, g) ==             \* mutant: the stop sources stay
    /\ SameClass(h, g)
    /\ life[h] = "live" /\ life[g] = "live"
    /\ handle_' = [handle_ EXCEPT ![h] = handle_[g], ![g] = handle_[h]]
    /\ UNCHANGED <<life, source_, os, detached, stopped, fatal>>

Swap(h, g) ==
    /\ SameClass(h, g)
    /\ life[h] = "live" /\ life[g] = "live"
    /\ handle_' = [handle_ EXCEPT ![h] = handle_[g], ![g] = handle_[h]]
    /\ source_' = [source_ EXCEPT ![h] = source_[g], ![g] = source_[h]]
    /\ UNCHANGED <<life, os, detached, stopped, fatal>>

PosixJoin(h) ==
    /\ os[handle_[h]] = "ended"
    /\ os' = [os EXCEPT ![handle_[h]] = "joined"]
    /\ handle_' = [handle_ EXCEPT ![h] = Null]

\* The caller's duty: joinable, and neither joined nor detached before.
Join(h) ==
    /\ life[h] = "live" /\ Joinable(h) /\ handle_[h] \notin detached
    /\ PosixJoin(h)
    /\ UNCHANGED <<life, source_, detached, stopped, fatal>>

\* pthread_detach: the handle stays.
Detach(h) ==
    /\ life[h] = "live" /\ Joinable(h) /\ handle_[h] \notin detached
    /\ detached' = detached \cup {handle_[h]}
    /\ UNCHANGED <<life, handle_, source_, os, stopped, fatal>>

RequestStop(h) ==
    /\ life[h] = "live" /\ source_[h] # Null
    /\ stopped' = stopped \cup {source_[h]}
    /\ UNCHANGED <<life, handle_, source_, os, detached, fatal>>

Remove(h) ==
    /\ life' = [life EXCEPT ![h] = "dead"]
    /\ source_' = [source_ EXCEPT ![h] = Null]

\* ~thread, and ~jthread of an object that owns nothing.
Destroy(h) ==
    /\ life[h] = "live"
    /\ h \in Jthreads => ~Joinable(h)
    /\ IF Joinable(h)
       THEN Abort(IF handle_[h] \in detached THEN "detached destroyed" ELSE "owner destroyed")
       ELSE Remove(h) /\ UNCHANGED <<handle_, os, detached, stopped, fatal>>

StopInDestructor(h) ==
    /\ h \in Jthreads /\ life[h] = "live" /\ Joinable(h)
    /\ life' = [life EXCEPT ![h] = "stopping"]
    /\ stopped' = stopped \cup ({source_[h]} \ {Null})
    /\ UNCHANGED <<handle_, source_, os, detached, fatal>>

\* pthread_join of a detached thread does not succeed: its assertion fails.
JoinInDestructor(h) ==
    /\ life[h] = "stopping"
    /\ IF handle_[h] \in detached
       THEN Abort("detached destroyed")
       ELSE PosixJoin(h) /\ Remove(h) /\ UNCHANGED <<detached, stopped, fatal>>

\* The function of a thread returns.
End(i) ==
    /\ os[i] = "running"
    /\ os' = [os EXCEPT ![i] = "ended"]
    /\ UNCHANGED <<life, handle_, source_, detached, stopped, fatal>>

Next ==
    /\ fatal = "no"
    /\ \/ \E h \in Objects :
            \/ \E i \in Ids : Construct(h, i)
            \/ ConstructEmpty(h)
            \/ \E g \in Objects : MoveConstruct(h, g) \/ MoveAssign(h, g) \/ Swap(h, g)
            \/ Join(h) \/ Detach(h) \/ RequestStop(h)
            \/ Destroy(h) \/ StopInDestructor(h) \/ JoinInDestructor(h)
       \/ \E i \in Ids : End(i)

\* The function of a thread returns once its stop is requested (the only
\* reason to pass it a token); a destructor that has begun goes on.
Fairness ==
    /\ \A i \in Ids : WF_vars(fatal = "no" /\ i \in stopped /\ End(i))
    /\ \A h \in Objects : WF_vars(fatal = "no" /\ JoinInDestructor(h))

Spec == Init /\ [][Next]_vars
FairSpec == Spec /\ Fairness

------------------------------------------------------------------------------
\* No thread is lost and none is joined twice: what was started is named by one
\* object until it is joined, however it was moved, swapped and assigned, and
\* by at most one if it was detached; and a jthread that owns a thread holds
\* the stop source of that thread and of no other.
ThreadsAccounted ==
    /\ \A i \in Ids :
        LET owners == {h \in Objects : handle_[h] = i} IN
        /\ os[i] \in {"unborn", "joined"} => owners = {}
        /\ os[i] \in {"running", "ended"} => Cardinality(owners) = 1
    /\ \A h \in Jthreads : Joinable(h) => source_[h] = handle_[h]

\* ~jthread returns, as it stops the very thread it joins; only a detached
\* thread makes it fail.
DestructorReturns ==
    \A h \in Objects : life[h] = "stopping" ~> (life[h] = "dead" \/ fatal # "no")

\* The assertion of ~thread, "thread destructor called with out being joined",
\* and that of the join in ~jthread, for callers that have given their thread
\* away by detach(): such an object owns nothing to join.
DetachedDestructible == fatal # "detached destroyed"
==============================================================================
