-------------------------------- MODULE MCStop --------------------------------
(***************************************************************************)
(* One stop state with its callbacks, and the objects that share states    *)
(* (stdlib/stop_token.hpp), side by side for TLC: the definitions of       *)
(* StopState are taken as they are, those of StopHandles by name.  Each    *)
(* behaviour is one of one of them, chosen at the start; the fairness of   *)
(* StopState is about threads inside a call and asks for nothing of a      *)
(* state that stays as constructed.                                        *)
(***************************************************************************)
EXTENDS StopState

CONSTANTS Tokens, Sources, States, MaxSources   \* of StopHandles

ASSUME HandlesAssumption ==
    /\ IsFiniteSet(Tokens) /\ IsFiniteSet(Sources) /\ Tokens \cap Sources = {}
    /\ NoCallback \notin States
    /\ MaxSources \in Nat

VARIABLES component,            \* "state" or "handles"
          h_live, h_state, h_made, h_deleted, h_tokens, h_sources

Handles == INSTANCE StopHandles WITH
    Null <- NoCallback,
    live <- h_live, stop_state_ <- h_state, made <- h_made,
    deleted <- h_deleted, tokens <- h_tokens, sources <- h_sources

h_vars == <<h_live, h_state, h_made, h_deleted, h_tokens, h_sources>>

AllInit ==
    /\ component \in {"state", "handles"}
    /\ Init /\ Handles!Init

AllNext ==
    /\ UNCHANGED component
    /\ \/ component = "state" /\ Next /\ UNCHANGED h_vars
       \/ component = "handles" /\ Handles!Next /\ UNCHANGED vars

AllSpec == AllInit /\ [][AllNext]_<<component, vars, h_vars>> /\ Fairness

------------------------------------------------------------------------------
\* Types, and the reference counts: every token, registered callback and source
\* is counted where it refers to.
Consistent ==
    /\ TypeOK /\ TokensCounted
    /\ Handles!TypeOK /\ Handles!ReferencesCounted
==============================================================================
