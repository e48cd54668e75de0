----------------------------- MODULE StopHandles -----------------------------
(***************************************************************************)
(* The objects that share a stop state: sync::stop_token and               *)
(* sync::stop_source (stdlib/stop_token.hpp), copied, moved, swapped,      *)
(* assigned and destroyed.  StopState models what goes on in one state;    *)
(* here are its two reference counts only, kept by many objects and for    *)
(* several states.                                                         *)
(*                                                                         *)
(* Assignment makes a temporary, swaps and destroys the temporary, which   *)
(* then refers to what the object referred to before.  ~stop_source counts *)
(* a source more instead of one less.                                      *)
(***************************************************************************)
EXTENDS Naturals, FiniteSets

CONSTANTS Tokens, Sources,      \* the objects
          States,               \* the states that can be made
          Null,                 \* no state
          MaxSources            \* bound: nobody counts a source beyond this

Objects == Tokens \cup Sources

VARIABLES live,         \* the objects that exist
          stop_state_,  \* the state each object refers to
          made,         \* the states that were allocated
          deleted,      \* those that were freed
          tokens, sources       \* the counts of each state

vars == <<live, stop_state_, made, deleted, tokens, sources>>

TypeOK ==
    /\ live \subseteq Objects
    /\ stop_state_ \in [Objects -> States \cup {Null}]
    /\ deleted \subseteq made /\ made \subseteq States
    /\ tokens \in [States -> Nat] /\ sources \in [States -> 0 .. MaxSources]

Init ==
    /\ live = {} /\ made = {} /\ deleted = {}
    /\ stop_state_ = [h \in Objects |-> Null]
    /\ tokens = [s \in States |-> 0] /\ sources = [s \in States |-> 0]

SameClass(h, g) == h # g /\ (h \in Tokens <=> g \in Tokens)
New(h) == h \notin live /\ live' = live \cup {h}
Refer(h, s) == stop_state_' = [stop_state_ EXCEPT ![h] = s]

Increment(count, s) == IF s = Null THEN count ELSE [count EXCEPT ![s] = @ + 1]

\* An object of h's class begins to refer to s and another ends to refer to r.
\* The count of tokens that reaches 0 frees a state without sources.
Recount(h, s, r) ==
    IF h \in Tokens
    THEN LET counted == Increment(tokens, s) IN
         /\ tokens' = IF r = Null THEN counted ELSE [counted EXCEPT ![r] = @ - 1]
         /\ deleted' = IF r # Null /\ counted[r] = 1 /\ sources[r] = 0
                       THEN deleted \cup {r} ELSE deleted
         /\ UNCHANGED sources
    ELSE /\ sources' = Increment(Increment(sources, s), r)
         /\ \A x \in States : sources'[x] <= MaxSources
         /\ UNCHANGED <<tokens, deleted>>

------------------------------------------------------------------------------
\* stop_token(), stop_source(nostopstate)
ConstructEmpty(h) ==
    /\ New(h)
    /\ UNCHANGED <<stop_state_, made, deleted, tokens, sources>>

\* stop_source(): a state begins with one source counted.
ConstructSource(h, s) ==
    /\ h \in Sources /\ s \notin made
    /\ New(h)
    /\ Refer(h, s)
    /\ made' = made \cup {s}
    /\ Recount(h, s, Null)

GetToken(h, source) ==
    /\ h \in Tokens /\ source \in live \cap Sources
    /\ New(h)
    /\ Refer(h, stop_state_[source])
    /\ Recount(h, stop_state_[source], Null)
    /\ UNCHANGED made

CopyConstruct(h, g) ==
    /\ SameClass(h, g) /\ g \in live
    /\ New(h)
    /\ Refer(h, stop_state_[g])
    /\ Recount(h, stop_state_[g], Null)
    /\ UNCHANGED made

MoveConstruct(h, g) ==
    /\ SameClass(h, g) /\ g \in live
    /\ New(h)
    /\ stop_state_' = [stop_state_ EXCEPT ![h] = stop_state_[g], ![g] = Null]
    /\ UNCHANGED <<made, deleted, tokens, sources>>

CopyAssign(h, g) ==
    /\ SameClass(h, g) /\ {h, g} \subseteq live
    /\ stop_state_[h] # stop_state_[g]
    /\ Refer(h, stop_state_[g])
    /\ Recount(h, stop_state_[g], stop_state_[h])
    /\ UNCHANGED <<live, made>>

MoveAssignSwapping(h, g) ==         \* mutant: swaps only, frees nothing
    /\ SameClass(h, g) /\ {h, g} \subseteq live
    /\ stop_state_' = [stop_state_ EXCEPT ![h] = stop_state_[g], ![g] = Null]
    /\ UNCHANGED <<live, made, deleted, tokens, sources>>

MoveAssign(h, g) ==
    /\ SameClass(h, g) /\ {h, g} \subseteq live
    /\ stop_state_' = [stop_state_ EXCEPT ![h] = stop_state_[g], ![g] = Null]
    /\ Recount(h, Null, stop_state_[h])
    /\ UNCHANGED <<live, made>>

Swap(h, g) ==
    /\ SameClass(h, g) /\ {h, g} \subseteq live
    /\ stop_state_' = [stop_state_ EXCEPT ![h] = stop_state_[g],
                                          ![g] = stop_state_[h]]
    /\ UNCHANGED <<live, made, deleted, tokens, sources>>

Destroy(h) ==
    /\ h \in live
    /\ live' = live \ {h}
    /\ Refer(h, Null)
    /\ Recount(h, Null, stop_state_[h])
    /\ UNCHANGED made

Next == \E h \in Objects :
    \/ ConstructEmpty(h) \/ Destroy(h)
    \/ \E s \in States : ConstructSource(h, s)
    \/ \E g \in Objects :
        \/ GetToken(h, g) \/ CopyConstruct(h, g) \/ MoveConstruct(h, g)
        \/ CopyAssign(h, g) \/ MoveAssign(h, g) \/ Swap(h, g)

Spec == Init /\ [][Next]_vars

------------------------------------------------------------------------------
Referring(class, s) == Cardinality({h \in live \cap class : stop_state_[h] = s})

\* Through every mix of copies, moves, swaps and assignments a state counts the
\* tokens that refer to it, and at least as many sources as do, so that
\* stop_possible() holds while there is one; and no object is left with a state
\* that was freed.
ReferencesCounted ==
    /\ \A s \in made :
        /\ tokens[s] = Referring(Tokens, s)
        /\ sources[s] >= Referring(Sources, s)
    /\ \A h \in live : stop_state_[h] \notin deleted
==============================================================================
