---------------------------- MODULE MCKnowledge ----------------------------
(***************************************************************************)
(* Instances of SemanticMemory, SourceRouting and CheckpointLedger for     *)
(* TLC.  They share no state: in each behaviour one of them moves.         *)
(***************************************************************************)
EXTENDS SemanticMemory, SourceRouting, CheckpointLedger

CONSTANTS x, y, z, a1, a2, a3, k1, steward, agent, nobody,   \* memory
          v1, v2, w1, w2, d1, d2                    \* routing

VARIABLE part

(* Three entities: two pairs are declared the same, the third different. *)
Statements ==
    [a \in Ids |->
        CASE a = a1 -> [subject |-> x, predicate |-> "same_as", object |-> y]
          [] a = a2 -> [subject |-> z, predicate |-> "same_as", object |-> y]
          [] a = a3 -> [subject |-> x, predicate |-> "not_same_as", object |-> z]]

(* a1 and a2 play the same part: x and z are interchangeable. *)
Tools == INSTANCE TLC
Interchangeable == Tools!Permutations({a1, a2})

Claims == [c \in Candidates |-> a3]

(* Made now or before, made at the end of the clock, made at once but not yet valid. *)
SomePeriods == {[asserted |-> 0, from |-> 0, to |-> Never],
                [asserted |-> 1, from |-> 0, to |-> Never],
                [asserted |-> 0, from |-> 1, to |-> Never]}

(* Two sources for one concept, the better of which also has the other concept. *)
SomeMaps ==
    [m \in Mappings |->
        CASE m = 1 -> [concept |-> v1, asset |-> w1, confidence |-> 2, digest |-> d1]
          [] m = 2 -> [concept |-> v1, asset |-> w2, confidence |-> 1, digest |-> d1]
          [] m = 3 -> [concept |-> v2, asset |-> w2, confidence |-> 2, digest |-> d1]]

Narrow == [concepts |-> {v1, v2}, maxSources |-> 1, minimum |-> 1, delta |-> 0,
           maxAge |-> 0, onBreach |-> "refuse"]
Lax == [Narrow EXCEPT !.maxSources = 2, !.delta = 1, !.onBreach = "degrade"]
SomeRequests == {Narrow, Lax}

KnowledgeInit ==
    /\ part \in {"memory", "routing", "ledger"}
    /\ MemoryInit /\ RoutingInit /\ LedgerInit

KnowledgeNext ==
    /\ \/ part = "memory" /\ MemoryNext /\ UNCHANGED <<routevars, ledgervars>>
       \/ part = "routing" /\ RoutingNext /\ UNCHANGED <<memvars, ledgervars>>
       \/ part = "ledger" /\ LedgerNext /\ UNCHANGED <<memvars, routevars>>
    /\ UNCHANGED part

KnowledgeSpec == KnowledgeInit /\ [][KnowledgeNext]_<<memvars, routevars, ledgervars, part>>

\* What the graph, the memory, the routing tables and the checkpoint ledger may hold
\* (semantic.py, semantic_memory.py, governance.py, freshness.py, routing.py).
KnowledgeTypeOK == MemoryTypeOK /\ RoutingTypeOK /\ LedgerTypeOK
=============================================================================
