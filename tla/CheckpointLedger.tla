-------------------------- MODULE CheckpointLedger --------------------------
(***************************************************************************)
(* Resume positions of change streams (freshness.py, CheckpointLedger).    *)
(* Deliveries of a stream are checkpointed by whoever consumed them: late, *)
(* twice, out of order, or after an upgrade of the connector.              *)
(***************************************************************************)
EXTENDS Integers

CONSTANTS
    Streams,        \* a source and a stream of it
    Versions,       \* connector versions
    LastPosition,   \* bound: positions
    LastObserved    \* bound: observation times

VARIABLES
    tokens,         \* _tokens
    deliveries      \* the tokens that record() was called with, stored or not (history)

ledgervars == <<tokens, deliveries>>

NoToken == [position |-> -1, version |-> "none", at |-> -1]
Tokens == [position : 0..LastPosition, version : Versions, at : 0..LastObserved]

LedgerTypeOK ==
    /\ tokens \in [Streams -> {NoToken} \cup Tokens]
    /\ deliveries \in [Streams -> SUBSET Tokens]

LedgerInit ==
    /\ tokens = [s \in Streams |-> NoToken]
    /\ deliveries = [s \in Streams |-> {}]

\* Broken variant: the times are not compared.
ForwardPosition(old, new) ==
    \/ old = NoToken
    \/ new.version = old.version /\ new.position >= old.position

Forward(old, new) ==
    \/ old = NoToken
    \/ /\ new.version = old.version      \* else "explicit migration is required"
       /\ new.position >= old.position
       /\ new.at >= old.at

\* A token that does not lead forward is refused.
Record(s) ==
    \E t \in Tokens :
        /\ deliveries' = [deliveries EXCEPT ![s] = @ \cup {t}]
        /\ tokens' = IF Forward(tokens[s], t) THEN [tokens EXCEPT ![s] = t] ELSE tokens

LedgerNext == \E s \in Streams : Record(s)

LedgerSpec == LedgerInit /\ [][LedgerNext]_ledgervars

\* In whatever order the tokens of a stream came, those that were refused included, the one
\* that resume() returns is as far as any: no other token of its connector version is at
\* least as far and at least as late (record(), resume()).
ResumesFromFurthest ==
    \A s \in Streams :
        /\ deliveries[s] # {} => tokens[s] \in deliveries[s]
        /\ \A t \in deliveries[s] :
              /\ t.version = tokens[s].version
              /\ t.position >= tokens[s].position /\ t.at >= tokens[s].at
              => t = tokens[s]
=============================================================================
