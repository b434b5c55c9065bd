---------------------------- MODULE QueryAccess -----------------------------
(***************************************************************************)
(* From an intent to the fields delivered: the planner compiles it under   *)
(* constraints (planning.py), the gateway's policy judges the request that *)
(* results, or one written by hand, under a grant (policy.py), and one of  *)
(* three readers executes it: the offline lab's tables (lab.py), the       *)
(* reference worker (phase6_worker.py), PostgreSQL (live/connectors.py).   *)
(* Grants and constraints are kept apart, and a grant may change between   *)
(* the steps.                                                              *)
(*                                                                         *)
(* Abstractions: one agent and source; filters are the fields they name;   *)
(* bounds on assets, rows and time, and the base policy, may refuse.       *)
(***************************************************************************)
EXTENDS Naturals, FiniteSets

CONSTANTS
    Tables, Fields, Links,   \* assets, fields, relationship ids
    Columns,                 \* the fields that each asset has at its source
    Joins,                   \* the two assets of each relationship
    Grants,                  \* grants: fields by asset, and relationships
    Intents                  \* requests: see Planned

Scopes(V) == UNION {[D -> V] : D \in SUBSET Tables}

\* QueryAccessGrant, and with the same content PlanningConstraints: neither is empty.
GrantShapes == {g \in [fields : Scopes(SUBSET Fields), links : SUBSET Links] :
                   DOMAIN g.fields # {}}

\* BoundedQueryPlan, and a QueryRequest that states the same.
PlanShapes == [assets : (SUBSET Tables) \ {{}}, select : Scopes(SUBSET Fields),
               where : Scopes(SUBSET Fields), links : SUBSET Links, plain : SUBSET Fields,
               keys : BOOLEAN]

\* RelationshipRef: a relationship joins two fields, possibly of one asset.
JoinEnds == {D \in SUBSET Tables : Cardinality(D) \in 1..2}

ASSUME AccessAssumption ==
    /\ Grants \subseteq GrantShapes /\ Intents \subseteq PlanShapes
    /\ Joins \in [Links -> JoinEnds] /\ Columns \in [Tables -> SUBSET Fields]

Nothing == [assets |-> {}, select |-> <<>>, where |-> <<>>, links |-> {}, plain |-> {},
            keys |-> TRUE]
Untouched == [reader |-> "none", selected |-> {}, filtered |-> {}]

VARIABLES
    grant, constraints,
    request,     \* QueryRequest
    origin,      \* "none", "planned" or "written"
    verdict,     \* "none", "refused" by the planner, "allowed" or "denied" by the policy
    decided,     \* the grant of the decision (history)
    access       \* who read, the fields delivered and those filtered by

accessvars == <<grant, constraints, request, origin, verdict, decided, access>>

AccessTypeOK ==
    /\ {grant, constraints, decided} \subseteq Grants
    /\ request \in PlanShapes \cup {Nothing}
    /\ origin \in {"none", "planned", "written"}
    /\ verdict \in {"none", "refused", "allowed", "denied"}
    /\ access.reader \in {"none", "tables", "worker", "postgresql"}
    /\ access.selected \cup access.filtered \subseteq Tables \X Fields

AccessInit ==
    /\ grant \in Grants /\ constraints \in Grants /\ decided = grant
    /\ request = Nothing /\ origin = "none" /\ verdict = "none" /\ access = Untouched

FieldsOf(g, t) == IF t \in DOMAIN g.fields THEN g.fields[t] ELSE {}

Within(scope, g) == \A t \in DOMAIN scope : scope[t] \subseteq FieldsOf(g, t)

\* BoundedQueryPlanner.compile(); its requests carry both scopes and no plain ones.
Compiles(i) ==
    /\ DOMAIN i.select = i.assets /\ Within(i.select, constraints)
    /\ DOMAIN i.where \subseteq i.assets /\ Within(i.where, constraints)
    /\ \A l \in i.links : l \in constraints.links /\ Joins[l] \subseteq i.assets

Planned(i) == [i EXCEPT !.plain = {}, !.keys = TRUE]

Compile(i) ==
    /\ origin = "none" /\ origin' = "planned"
    /\ request' = Planned(i)
    /\ verdict' \in IF Compiles(i) THEN {"none", "refused"} ELSE {"refused"}
    /\ UNCHANGED <<grant, constraints, decided, access>>

\* keys: whether where_by_asset is present; plain: the fields of a plain "where".
Write(i) ==
    /\ origin = "none" /\ origin' = "written"
    /\ request' = IF i.keys THEN i ELSE [i EXCEPT !.where = <<>>]
    /\ UNCHANGED <<grant, constraints, verdict, decided, access>>

Regrant(g) ==
    /\ grant' = g
    /\ UNCHANGED <<constraints, request, origin, verdict, decided, access>>

\* Broken variant: the selection is checked for the shape of the request only.
AdmitsAnyField(r) ==
    /\ r.assets \subseteq DOMAIN grant.fields
    /\ DOMAIN r.select = r.assets
    /\ r.links \subseteq grant.links
    /\ DOMAIN r.where \subseteq r.assets /\ Within(r.where, grant)

\* FieldRelationshipPolicy.evaluate().
Admits(r) ==
    /\ r.assets \subseteq DOMAIN grant.fields
    /\ DOMAIN r.select = r.assets /\ Within(r.select, grant)
    /\ r.links \subseteq grant.links
    /\ DOMAIN r.where \subseteq r.assets /\ Within(r.where, grant)

Authorise ==
    /\ origin # "none" /\ verdict = "none"
    /\ verdict' = IF Admits(request) THEN "allowed" ELSE "denied"
    /\ decided' = grant
    /\ UNCHANGED <<grant, constraints, request, origin, access>>

Pairs(scope) == UNION {{t} \X scope[t] : t \in DOMAIN scope}
PlainPairs == (request.assets \ DOMAIN request.where) \X request.plain

\* An empty selection of an asset selects the whole row.
Selection(t) == IF request.select[t] = {} THEN Columns[t] ELSE request.select[t]
Delivered == UNION {{t} \X Selection(t) : t \in request.assets}

Exist(scope) == \A t \in DOMAIN scope : scope[t] \subseteq Columns[t]

Allowed == verdict = "allowed" /\ access = Untouched

ReadBy(reader, filtered) ==
    /\ access' = [reader |-> reader, selected |-> Delivered, filtered |-> filtered]
    /\ UNCHANGED <<grant, constraints, request, origin, verdict, decided>>

\* StructuredConnector.execute() raises unless both scopes are there.
ReadTables ==
    /\ Allowed
    /\ request.keys /\ Exist(request.select) /\ Exist(request.where)
    /\ ReadBy("tables", Pairs(request.where))

\* The worker falls back on the plain filter of an asset without one of its own; a filter
\* by a field that no row has is not refused.
ReadWorker ==
    /\ Allowed
    /\ Cardinality(request.assets) = 1 /\ Exist(request.select)
    /\ ReadBy("worker", Pairs(request.where) \cup PlainPairs)

\* PostgreSQL refuses an empty selection.
ReadPostgreSQL ==
    /\ Allowed
    /\ Cardinality(request.assets) = 1
    /\ \A t \in request.assets : request.select[t] # {}
    /\ Exist(request.select) /\ Exist(request.where)
    /\ ReadBy("postgresql", Pairs(request.where))

AccessNext ==
    \/ origin = "none" /\ \E i \in Intents : Compile(i) \/ Write(i)
    \/ \E g \in Grants : Regrant(g)
    \/ Authorise
    \/ ReadTables
    \/ ReadWorker
    \/ ReadPostgreSQL

AccessSpec == AccessInit /\ [][AccessNext]_accessvars

-----------------------------------------------------------------------------
(* Properties *)

\* Policy and readers interpret one plan independently.  What is delivered comes from assets
\* of the grant that was decided on.  Of an asset that the request selects fields of, only
\* fields of that grant are delivered; of one with an empty selection the tables and the
\* worker deliver every column, PostgreSQL none.  Tables and PostgreSQL filter by fields of
\* that grant only; the worker may also filter by the plain filter, which the policy does
\* not look at, of an asset without a filter of its own.  docs/testing/phase-2-gates.md:18
\* has "unauthorized fields [...] fail before connector execution".
ReadsWithinGrant ==
    LET granted == Pairs(decided.fields)
    IN /\ \A p \in access.selected :
              /\ p[1] \in DOMAIN decided.fields
              /\ \/ p \in granted
                 \/ request.select[p[1]] = {} /\ access.reader # "postgresql"
       /\ \A p \in access.filtered :
              \/ p \in granted
              \/ access.reader = "worker" /\ p[1] \notin DOMAIN request.where

\* Planner and policy agree: a plan compiled under constraints that the grant of the
\* decision covers is not denied (compile(), to_query_request(), evaluate()).
PlansAreAdmitted ==
    origin = "planned" /\ verdict = "denied"
        => ~ (Within(constraints.fields, decided) /\ constraints.links \subseteq decided.links
              /\ request.assets \subseteq DOMAIN decided.fields)
=============================================================================
