------------------------------ MODULE StopState ------------------------------
(***************************************************************************)
(* sync::_stop_state (stdlib/stop_token.hpp), the state that stop_source,  *)
(* stop_token and stop_callback share.                                     *)
(*                                                                         *)
(* One word holds the stop_requested bit, the bit that locks the list of   *)
(* callbacks, and the numbers of tokens and sources.  The thread whose     *)
(* request_stop() sets the bit takes the callbacks off the list one by one *)
(* and runs each with the list unlocked, while other threads, or the       *)
(* callback itself, may destroy any of them.                               *)
(*                                                                         *)
(* A step is an atomic operation on the word together with what its thread *)
(* does to the list while it holds the lock; a failed compare-and-swap     *)
(* changes nothing and spinning is waiting.  The callbacks, whose pointers *)
(* form a doubly linked list, are a sequence: prev_ is null exactly for    *)
(* those that are not in it.                                               *)
(***************************************************************************)
EXTENDS Naturals, FiniteSets, SequencesExt

CONSTANTS Threads,
          Callbacks,    \* the stop_callback objects
          NoThread, NoCallback

ASSUME ThreadsAssumption ==
    IsFiniteSet(Threads) /\ Threads # {} /\ NoThread \notin Threads
ASSUME CallbacksAssumption ==
    IsFiniteSet(Callbacks) /\ NoCallback \notin Callbacks

VARIABLES
    stop_requested, locked, tokens, sources,    \* the parts of state_
    list,               \* the callbacks from head_ on
    thread_id_,         \* the thread that requested the stop
    current,            \* cb in request_stop()
    empty,              \* empty in request_stop()
    removed,            \* is_removed_ in request_stop()
    is_removed_,        \* the callbacks whose is_removed_ points to it
    finished,           \* those whose callback_finished_executing_ is set
    executions,         \* history: how often each callback ran
    life,               \* of each stop_callback object
    holdsSource,        \* the threads that own a stop_source
    holdsToken,         \* the threads that own a stop_token
    pc,                 \* where each thread is in its call
    target              \* the callback each thread registers or destroys

word == <<stop_requested, locked, tokens, sources>>
request == <<thread_id_, current, empty, removed>>
nodes == <<list, is_removed_, finished, executions, life>>
callers == <<holdsSource, holdsToken, pc, target>>
vars == <<word, request, nodes, callers>>

Labels == {"idle", "pop", "execute", "in_callback", "relock", "push",
           "erase_lock", "erase", "erase_sync", "erase_deref"}

TypeOK ==
    /\ stop_requested \in BOOLEAN /\ locked \in BOOLEAN
    /\ tokens \in 0 .. Cardinality(Threads) + Cardinality(Callbacks)
    /\ sources \in 1 .. 2 * Cardinality(Threads)
    /\ list \in Seq(Callbacks) /\ IsInjective(list)
    /\ thread_id_ \in Threads \cup {NoThread}
    /\ current \in Callbacks \cup {NoCallback}
    /\ empty \in BOOLEAN /\ removed \in BOOLEAN
    /\ is_removed_ \subseteq Callbacks
    /\ finished \subseteq Callbacks
    /\ executions \in [Callbacks -> 0 .. 1]
    /\ life \in [Callbacks ->
                    {"none", "constructing", "alive", "destroying", "gone"}]
    /\ holdsSource \subseteq Threads /\ holdsToken \subseteq Threads
    /\ pc \in [Threads -> Labels]
    /\ target \in [Threads -> Callbacks \cup {NoCallback}]

\* Every thread has a copy of one stop_source.
Init ==
    /\ stop_requested = FALSE /\ locked = FALSE
    /\ tokens = 0 /\ sources = Cardinality(Threads)
    /\ list = <<>>
    /\ thread_id_ = NoThread /\ current = NoCallback
    /\ empty = FALSE /\ removed = FALSE
    /\ is_removed_ = {} /\ finished = {}
    /\ executions = [c \in Callbacks |-> 0]
    /\ life = [c \in Callbacks |-> "none"]
    /\ holdsSource = Threads /\ holdsToken = {}
    /\ pc = [t \in Threads |-> "idle"]
    /\ target = [t \in Threads |-> NoCallback]

Goto(t, from, to) == pc[t] = from /\ pc' = [pc EXCEPT ![t] = to]
Aim(t, c) == target' = [target EXCEPT ![t] = c]
Live(c, stage) == life' = [life EXCEPT ![c] = stage]

------------------------------------------------------------------------------
(* stop_source and stop_token                                              *)

GetToken(t) ==
    /\ pc[t] = "idle" /\ t \in holdsSource \ holdsToken
    /\ tokens' = tokens + 1
    /\ holdsToken' = holdsToken \cup {t}
    /\ UNCHANGED <<stop_requested, locked, sources, request, nodes,
                   holdsSource, pc, target>>

DestroyToken(t) ==
    /\ pc[t] = "idle" /\ t \in holdsToken
    /\ tokens' = tokens - 1
    /\ holdsToken' = holdsToken \ {t}
    /\ UNCHANGED <<stop_requested, locked, sources, request, nodes,
                   holdsSource, pc, target>>

\* The destructor counts a source more, not a source less.
DestroySource(t) ==
    /\ pc[t] = "idle" /\ t \in holdsSource
    /\ sources' = sources + 1
    /\ holdsSource' = holdsSource \ {t}
    /\ UNCHANGED <<stop_requested, locked, tokens, request, nodes,
                   holdsToken, pc, target>>

------------------------------------------------------------------------------
(* request_stop()                                                          *)

RequestStopOnly(t) ==               \* mutant: the bit without the callbacks
    /\ t \in holdsSource
    /\ ~stop_requested /\ ~locked
    /\ stop_requested' = TRUE
    /\ pc[t] = "idle"
    /\ UNCHANGED <<locked, tokens, sources, request, nodes, callers>>

\* try_request_stop_andlock(); a call that finds the bit set returns.
RequestStop(t) ==
    /\ t \in holdsSource
    /\ ~stop_requested /\ ~locked
    /\ stop_requested' = TRUE /\ locked' = TRUE
    /\ Goto(t, "idle", "pop")
    /\ UNCHANGED <<tokens, sources, request, nodes,
                   holdsSource, holdsToken, target>>

PopNegated(t) ==                    \* mutant: != for == in empty
    /\ thread_id_' = t
    /\ locked' = FALSE
    /\ IF list = <<>>
        THEN /\ Goto(t, "pop", "idle")
             /\ UNCHANGED <<list, current, empty>>
        ELSE /\ Goto(t, "pop", "execute")
             /\ current' = Head(list)
             /\ list' = Tail(list)
             /\ empty' = (Tail(list) # <<>>)
    /\ UNCHANGED <<stop_requested, tokens, sources, removed, is_removed_,
                   finished, executions, life, holdsSource, holdsToken, target>>

\* One turn of the loop under the lock, up to the unlock().
Pop(t) ==
    /\ thread_id_' = t
    /\ locked' = FALSE
    /\ IF list = <<>>
        THEN /\ Goto(t, "pop", "idle")
             /\ UNCHANGED <<list, current, empty>>
        ELSE /\ Goto(t, "pop", "execute")
             /\ current' = Head(list)
             /\ list' = Tail(list)
             /\ empty' = (Tail(list) = <<>>)
    /\ UNCHANGED <<stop_requested, tokens, sources, removed, is_removed_,
                   finished, executions, life, holdsSource, holdsToken, target>>

Execute(t) ==
    /\ Goto(t, "execute", "in_callback")
    /\ removed' = FALSE
    /\ is_removed_' = is_removed_ \cup {current}
    /\ executions' = [executions EXCEPT ![current] = @ + 1]
    /\ UNCHANGED <<word, thread_id_, current, empty, list, finished, life,
                   holdsSource, holdsToken, target>>

\* The callback returns.  One that destroyed itself is not touched again.
Finish(t) ==
    /\ Goto(t, "in_callback", IF empty THEN "idle" ELSE "relock")
    /\ IF removed
        THEN UNCHANGED <<is_removed_, finished>>
        ELSE /\ is_removed_' = is_removed_ \ {current}
             /\ finished' = finished \cup {current}
    /\ current' = NoCallback
    /\ UNCHANGED <<word, thread_id_, empty, removed, list, executions, life,
                   holdsSource, holdsToken, target>>

Relock(t) ==
    /\ ~locked
    /\ locked' = TRUE
    /\ Goto(t, "relock", "pop")
    /\ UNCHANGED <<stop_requested, tokens, sources, request, nodes,
                   holdsSource, holdsToken, target>>

------------------------------------------------------------------------------
(* stop_callback's constructor: try_push_callback()                        *)

\* After a stop the constructor runs the callback and registers nothing.
RegisterLate(t, c) ==
    /\ pc[t] = "idle" /\ t \in holdsToken /\ life[c] = "none"
    /\ stop_requested
    /\ executions' = [executions EXCEPT ![c] = @ + 1]
    /\ Live(c, "gone")
    /\ UNCHANGED <<word, request, list, is_removed_, finished, callers>>

\* There is always a source counted, so a stop is always possible.
Register(t, c) ==
    /\ t \in holdsToken /\ life[c] = "none"
    /\ ~stop_requested /\ ~locked
    /\ locked' = TRUE
    /\ Goto(t, "idle", "push")
    /\ Live(c, "constructing") /\ Aim(t, c)
    /\ UNCHANGED <<stop_requested, tokens, sources, request, list,
                   is_removed_, finished, executions, holdsSource, holdsToken>>

\* The callback gets a token of its own, or the caller's that was moved.
Push(t) ==
    /\ Goto(t, "push", "idle")
    /\ list' = <<target[t]>> \o list
    /\ locked' = FALSE
    /\ \/ tokens' = tokens + 1 /\ UNCHANGED holdsToken
       \/ holdsToken' = holdsToken \ {t} /\ UNCHANGED tokens
    /\ Live(target[t], "alive") /\ Aim(t, NoCallback)
    /\ UNCHANGED <<stop_requested, sources, request, is_removed_, finished,
                   executions, holdsSource>>

------------------------------------------------------------------------------
(* stop_callback's destructor: erase_callback()                            *)

\* A callback may destroy callbacks, itself too.
Destroy(t, c) ==
    /\ life[c] = "alive"
    /\ pc[t] \in {"idle", "in_callback"}
    /\ pc' = [pc EXCEPT ![t] = "erase_lock"]
    /\ Live(c, "destroying") /\ Aim(t, c)
    /\ UNCHANGED <<word, request, list, is_removed_, finished, executions,
                   holdsSource, holdsToken>>

EraseLock(t) ==
    /\ ~locked
    /\ locked' = TRUE
    /\ Goto(t, "erase_lock", "erase")
    /\ UNCHANGED <<stop_requested, tokens, sources, request, nodes,
                   holdsSource, holdsToken, target>>

\* What the thread was doing when it called the destructor.
Caller(t) ==
    IF t = thread_id_ /\ current # NoCallback THEN "in_callback" ELSE "idle"

EraseListed(t) ==
    /\ \E i \in 1 .. Len(list) : list[i] = target[t] /\ list' = RemoveAt(list, i)
    /\ locked' = FALSE
    /\ tokens' = tokens - 1
    /\ Goto(t, "erase", Caller(t))
    /\ Live(target[t], "gone") /\ Aim(t, NoCallback)
    /\ UNCHANGED <<stop_requested, sources, request, is_removed_, finished,
                   executions, holdsSource, holdsToken>>

EraseTaken(t) ==
    /\ ~Contains(list, target[t])
    /\ locked' = FALSE
    /\ Goto(t, "erase", "erase_sync")
    /\ UNCHANGED <<stop_requested, tokens, sources, request, nodes,
                   holdsSource, holdsToken, target>>

EraseNoWait(t) ==                   \* mutant: no waiting for the other thread
    /\ Goto(t, "erase_sync", "erase_deref")
    /\ removed' = (removed \/ (thread_id_ = t /\ target[t] \in is_removed_))
    /\ UNCHANGED <<word, thread_id_, current, empty, nodes,
                   holdsSource, holdsToken, target>>

EraseWaitAlways(t) ==               \* mutant: no look at thread_id_
    /\ Goto(t, "erase_sync", "erase_deref")
    /\ target[t] \in finished
    /\ UNCHANGED <<word, request, nodes, holdsSource, holdsToken, target>>

\* On the requesting thread the callback is running or has run: the request
\* is told.  Another thread waits until it has run.
EraseSync(t) ==
    /\ Goto(t, "erase_sync", "erase_deref")
    /\ IF thread_id_ = t
        THEN removed' = (removed \/ target[t] \in is_removed_)
        ELSE target[t] \in finished /\ UNCHANGED removed
    /\ UNCHANGED <<word, thread_id_, current, empty, nodes,
                   holdsSource, holdsToken, target>>

EraseDeref(t) ==
    /\ tokens' = tokens - 1
    /\ Goto(t, "erase_deref", Caller(t))
    /\ Live(target[t], "gone") /\ Aim(t, NoCallback)
    /\ UNCHANGED <<stop_requested, locked, sources, request, list,
                   is_removed_, finished, executions, holdsSource, holdsToken>>

Next == \E t \in Threads :
    \/ GetToken(t) \/ DestroyToken(t) \/ DestroySource(t)
    \/ RequestStop(t) \/ Pop(t) \/ Execute(t) \/ Finish(t) \/ Relock(t)
    \/ \E c \in Callbacks : Register(t, c) \/ RegisterLate(t, c) \/ Destroy(t, c)
    \/ Push(t)
    \/ EraseLock(t) \/ EraseListed(t) \/ EraseTaken(t) \/ EraseSync(t)
    \/ EraseDeref(t)

\* A thread inside a call keeps running and callbacks return.  The lock is
\* taken finitely often, so weak fairness gets every spinning thread in.
Fairness == \A t \in Threads :
    /\ WF_vars(Pop(t) \/ Execute(t) \/ Finish(t) \/ Relock(t) \/ Push(t))
    /\ WF_vars(\/ EraseLock(t) \/ EraseListed(t) \/ EraseTaken(t)
               \/ EraseSync(t) \/ EraseDeref(t))

Spec == Init /\ [][Next]_vars
FairSpec == Spec /\ Fairness

------------------------------------------------------------------------------
(* Properties                                                              *)

\* request_stop() never touches a stop_callback that is gone: until the
\* callback returns the object is there, unless the callback destroyed it,
\* which the request then knows.  Nor does the list hold one that is gone.
NoUseAfterDestroy ==
    /\ \A c \in Callbacks :
        Contains(list, c) => life[c] \in {"alive", "destroying"}
    /\ current # NoCallback /\ life[current] = "gone" =>
        removed /\ pc[thread_id_] # "execute"

\* Every token and every registered callback holds one reference.
TokensCounted ==
    tokens = Cardinality(holdsToken)
                + Cardinality({c \in Callbacks :
                                    life[c] \in {"alive", "destroying"}})

\* When request_stop() returns true nothing is left to be run, although it
\* may return on what it saw of the list before the last callback ran.
RequestLeavesNothing ==
    [][\A t \in Threads :
        pc[t] \in {"pop", "in_callback"} /\ pc'[t] = "idle" => list' = <<>>]_vars

\* After a stop every registered callback runs or is destroyed.
EveryCallbackServed ==
    \A c \in Callbacks :
        stop_requested /\ Contains(list, c)
            ~> executions[c] = 1 \/ life[c] = "gone"

\* A destructor returns, also one that a callback calls on itself or on
\* another callback that has run.
DestructorReturns ==
    \A c \in Callbacks : life[c] = "destroying" ~> life[c] = "gone"
==============================================================================
