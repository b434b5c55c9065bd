---------------------------- MODULE Access_proofs ----------------------------
(***************************************************************************)
(* Proofs about what crosses the harness's edges on behalf of an agent:    *)
(* QueryAccess, LabAccess, Northbound, Approvals, WorkerConnector and      *)
(* LiveSource, for any tables, grants, agents, catalogs, approvals,        *)
(* workers' replies and overlapping calls.                                 *)
(*                                                                         *)
(* The arguments: a reader delivers what the request names, and the policy *)
(* judged that; a listing is what its digest exposes to its agent; a       *)
(* signature fixes what it covers; what was handed to a caller is always a *)
(* well-formed beginning of the reply; and a call that holds a row or a    *)
(* key keeps every other one away from it until it ends.                   *)
(***************************************************************************)
EXTENDS QueryAccess, LabAccess, Northbound, Approvals, WorkerConnector, LiveSource,
        FiniteSetTheorems, TLAPS

-----------------------------------------------------------------------------
(* From intents to fields *)

AccessShapeInv ==
    /\ grant \in GrantShapes /\ constraints \in GrantShapes /\ decided \in GrantShapes
    /\ request \in PlanShapes \cup {Nothing}
    /\ access = Untouched \/ verdict = "allowed"

\* What the policy decided, it decided about the request and the grant it saw; what the
\* planner compiled lies within its constraints.
DecisionInv ==
    /\ verdict \in {"none", "refused", "allowed", "denied"}
    /\ origin \in {"none", "planned", "written"}
    /\ origin = "none" => verdict = "none"
    /\ verdict = "allowed" =>
          /\ DOMAIN request.select = request.assets
          /\ request.assets \subseteq DOMAIN decided.fields
          /\ Within(request.select, decided) /\ Within(request.where, decided)
    /\ origin = "planned" /\ verdict # "refused" =>
          /\ DOMAIN request.select = request.assets /\ Within(request.select, constraints)
          /\ DOMAIN request.where \subseteq request.assets /\ Within(request.where, constraints)
          /\ request.links \subseteq constraints.links
    /\ verdict = "denied" =>
          ~ (/\ request.assets \subseteq DOMAIN decided.fields
             /\ DOMAIN request.select = request.assets /\ Within(request.select, decided)
             /\ request.links \subseteq decided.links
             /\ DOMAIN request.where \subseteq request.assets /\ Within(request.where, decided))

AccessInv == AccessTypeOK /\ AccessShapeInv /\ DecisionInv /\ ReadsWithinGrant

LEMMA ScopesAre ==
    ASSUME NEW V, NEW scope \in Scopes(V)
    PROVE  DOMAIN scope \in SUBSET Tables /\ \A t \in DOMAIN scope : scope[t] \in V
  BY DEF Scopes

\* Fields that lie within a grant are fields the grant names.
LEMMA PairsWithin ==
    ASSUME NEW scope, NEW gr, Within(scope, gr)
    PROVE  Pairs(scope) \subseteq Pairs(gr.fields)
  <1> SUFFICES ASSUME NEW pair \in Pairs(scope) PROVE pair \in Pairs(gr.fields)
    OBVIOUS
  <1>1. PICK t \in DOMAIN scope : pair \in {t} \X scope[t]
    BY DEF Pairs
  <1>2. pair \in {t} \X FieldsOf(gr, t)
    BY <1>1 DEF Within
  <1>3. t \in DOMAIN gr.fields /\ FieldsOf(gr, t) = gr.fields[t]
    BY <1>2 DEF FieldsOf
  <1> QED BY <1>2, <1>3 DEF Pairs

LEMMA PairsTyped ==
    ASSUME NEW scope \in Scopes(SUBSET Fields)
    PROVE  Pairs(scope) \subseteq Tables \X Fields
  BY ScopesAre DEF Pairs

\* Constraints within a grant admit no more than the grant.
LEMMA WithinTransitive ==
    ASSUME NEW scope, NEW inner, NEW outer, Within(scope, inner), Within(inner.fields, outer)
    PROVE  Within(scope, outer)
  BY DEF Within, FieldsOf

LEMMA AccessInitHolds == AccessInit => AccessInv
  <1> SUFFICES ASSUME AccessInit PROVE AccessInv
    OBVIOUS
  <1>1. AccessTypeOK /\ AccessShapeInv
    BY AccessAssumption DEF AccessInit, AccessTypeOK, AccessShapeInv, Untouched
  <1>2. DecisionInv
    BY DEF AccessInit, DecisionInv
  <1>3. ReadsWithinGrant
    BY DEF AccessInit, ReadsWithinGrant, Untouched
  <1> QED BY <1>1, <1>2, <1>3 DEF AccessInv

LEMMA CompileKeeps ==
    ASSUME AccessInv, NEW i \in Intents, Compile(i)
    PROVE  AccessInv'
  <1> USE DEF AccessInv
  <1>1. /\ origin = "none" /\ origin' = "planned" /\ verdict = "none"
        /\ request' = Planned(i) /\ verdict' \in {"none", "refused"}
        /\ verdict' = "none" => Compiles(i)
        /\ UNCHANGED <<grant, constraints, decided, access>>
    BY DEF Compile, DecisionInv
  <1>2. i \in PlanShapes
    BY AccessAssumption
  <1>3. /\ Planned(i) \in PlanShapes
        /\ Planned(i).select = i.select /\ Planned(i).where = i.where
        /\ Planned(i).assets = i.assets /\ Planned(i).links = i.links
    BY <1>2 DEF Planned, PlanShapes
  <1>4. access = Untouched
    BY <1>1 DEF AccessShapeInv
  <1>5. AccessTypeOK' /\ AccessShapeInv'
    BY <1>1, <1>3, <1>4 DEF AccessTypeOK, AccessShapeInv
  <1>6. DecisionInv'
    <2>1. ASSUME verdict' = "none"
          PROVE  /\ DOMAIN request'.select = request'.assets
                 /\ Within(request'.select, constraints')
                 /\ DOMAIN request'.where \subseteq request'.assets
                 /\ Within(request'.where, constraints')
                 /\ request'.links \subseteq constraints'.links
      BY <1>1, <1>3, <2>1 DEF Compiles
    <2> QED BY <1>1, <2>1 DEF DecisionInv
  <1>7. ReadsWithinGrant'
    BY <1>1, <1>4 DEF ReadsWithinGrant, Untouched
  <1> QED BY <1>5, <1>6, <1>7

LEMMA WriteKeeps ==
    ASSUME AccessInv, NEW i \in Intents, Write(i)
    PROVE  AccessInv'
  <1> USE DEF AccessInv
  <1>1. /\ origin = "none" /\ origin' = "written" /\ verdict = "none"
        /\ request' = IF i.keys THEN i ELSE [i EXCEPT !.where = <<>>]
        /\ UNCHANGED <<grant, constraints, verdict, decided, access>>
    BY DEF Write, DecisionInv
  <1>2. i \in PlanShapes
    BY AccessAssumption
  <1>3. <<>> \in Scopes(SUBSET Fields)
    <2>1. <<>> \in [{} -> SUBSET Fields]
      OBVIOUS
    <2> QED BY <2>1 DEF Scopes
  <1>4. request' \in PlanShapes
    BY <1>1, <1>2, <1>3 DEF PlanShapes
  <1>5. access = Untouched
    BY <1>1 DEF AccessShapeInv
  <1>6. AccessTypeOK' /\ AccessShapeInv'
    BY <1>1, <1>4, <1>5 DEF AccessTypeOK, AccessShapeInv
  <1>7. DecisionInv'
    BY <1>1 DEF DecisionInv
  <1>8. ReadsWithinGrant'
    BY <1>1, <1>5 DEF ReadsWithinGrant, Untouched
  <1> QED BY <1>6, <1>7, <1>8

LEMMA AuthoriseKeeps ==
    ASSUME AccessInv, Authorise
    PROVE  AccessInv'
  <1> USE DEF AccessInv
  <1>1. /\ origin # "none" /\ verdict = "none" /\ decided' = grant
        /\ verdict' = IF Admits(request) THEN "allowed" ELSE "denied"
        /\ UNCHANGED <<grant, constraints, request, origin, access>>
    BY DEF Authorise
  <1>2. access = Untouched
    BY <1>1 DEF AccessShapeInv
  <1>3. AccessTypeOK' /\ AccessShapeInv'
    BY <1>1, <1>2 DEF AccessTypeOK, AccessShapeInv
  <1>4. DecisionInv'
    <2>1. Admits(request) <=>
              /\ request'.assets \subseteq DOMAIN decided'.fields
              /\ DOMAIN request'.select = request'.assets /\ Within(request'.select, decided')
              /\ request'.links \subseteq decided'.links
              /\ DOMAIN request'.where \subseteq request'.assets
              /\ Within(request'.where, decided')
      BY <1>1 DEF Admits
    <2>2. verdict # "refused" /\ origin' = origin /\ constraints' = constraints
          /\ request' = request
      BY <1>1
    <2> QED BY <1>1, <2>1, <2>2 DEF DecisionInv
  <1>5. ReadsWithinGrant'
    BY <1>1, <1>2 DEF ReadsWithinGrant, Untouched
  <1> QED BY <1>3, <1>4, <1>5

\* What is delivered of an asset is what is selected of it, or all its columns.
LEMMA SelectedIs ==
    ASSUME NEW pair \in Delivered
    PROVE  /\ pair = <<pair[1], pair[2]>> /\ pair[1] \in request.assets
           /\ pair[2] \in request.select[pair[1]] \/ request.select[pair[1]] = {}
           /\ pair[2] \in request.select[pair[1]] \/ pair[2] \in Columns[pair[1]]
  <1>1. PICK t \in request.assets : pair \in {t} \X Selection(t)
    BY DEF Delivered
  <1>2. CASE request.select[t] = {}
    BY <1>1, <1>2 DEF Selection
  <1>3. CASE request.select[t] # {}
    BY <1>1, <1>3 DEF Selection
  <1> QED BY <1>2, <1>3

\* What a reader delivers and filters by is what the policy judged, but for empty selections
\* and the worker's plain filter.
LEMMA ReadKeeps ==
    ASSUME AccessInv, ReadTables \/ ReadWorker \/ ReadPostgreSQL
    PROVE  AccessInv'
  <1> USE DEF AccessInv
  <1>1. /\ verdict = "allowed"
        /\ UNCHANGED <<grant, constraints, request, origin, verdict, decided>>
        /\ access'.selected = Delivered
        /\ access'.reader \in {"tables", "worker", "postgresql"}
        /\ access'.filtered \subseteq Pairs(request.where) \cup PlainPairs
        /\ access'.reader # "worker" => access'.filtered \subseteq Pairs(request.where)
        /\ access'.reader = "postgresql" =>
              \A t \in request.assets : request.select[t] # {}
    <2>1. CASE ReadTables
      BY <2>1 DEF ReadTables, Allowed, ReadBy
    <2>2. CASE ReadWorker
      BY <2>2 DEF ReadWorker, Allowed, ReadBy
    <2>3. CASE ReadPostgreSQL
      BY <2>3 DEF ReadPostgreSQL, Allowed, ReadBy
    <2> QED BY <2>1, <2>2, <2>3
  <1>2. /\ request.select \in Scopes(SUBSET Fields) /\ request.where \in Scopes(SUBSET Fields)
        /\ request.plain \subseteq Fields /\ request.assets \subseteq Tables
    <2>1. <<>> \in [{} -> SUBSET Fields]
      OBVIOUS
    <2>2. <<>> \in Scopes(SUBSET Fields)
      BY <2>1 DEF Scopes
    <2>3. CASE request = Nothing
      BY <2>2, <2>3 DEF Nothing
    <2>4. CASE request \in PlanShapes
      BY <2>4 DEF PlanShapes
    <2> QED BY <2>3, <2>4 DEF AccessShapeInv
  <1>3. /\ DOMAIN request.select = request.assets /\ request.assets \subseteq DOMAIN decided.fields
        /\ Within(request.select, decided) /\ Within(request.where, decided)
    BY <1>1 DEF DecisionInv
  <1>4. /\ Delivered \subseteq Tables \X Fields
        /\ Pairs(request.where) \subseteq Tables \X Fields
        /\ PlainPairs \subseteq Tables \X Fields
    <2>1. \A t \in request.assets : request.select[t] \subseteq Fields /\ Columns[t] \subseteq Fields
      BY <1>2, <1>3, ScopesAre, AccessAssumption
    <2>2. ASSUME NEW pair \in Delivered PROVE pair \in Tables \X Fields
      <3>1. /\ pair = <<pair[1], pair[2]>> /\ pair[1] \in request.assets
            /\ pair[2] \in request.select[pair[1]] \/ pair[2] \in Columns[pair[1]]
        BY <2>2, SelectedIs
      <3>2. pair[1] \in Tables /\ pair[2] \in Fields
        BY <1>2, <2>1, <3>1
      <3> QED BY <3>1, <3>2
    <2>3. Pairs(request.where) \subseteq Tables \X Fields
      BY <1>2, PairsTyped
    <2>4. PlainPairs \subseteq Tables \X Fields
      BY <1>2 DEF PlainPairs
    <2> QED BY <2>2, <2>3, <2>4
  <1>5. AccessTypeOK' /\ AccessShapeInv'
    BY <1>1, <1>4 DEF AccessTypeOK, AccessShapeInv
  <1>6. DecisionInv'
    BY <1>1 DEF DecisionInv
  <1>7. ASSUME NEW pair \in access'.selected
        PROVE  /\ pair[1] \in DOMAIN decided.fields
               /\ \/ pair \in Pairs(decided.fields)
                  \/ request.select[pair[1]] = {} /\ access'.reader # "postgresql"
    <2>1. /\ pair = <<pair[1], pair[2]>> /\ pair[1] \in request.assets
          /\ pair[2] \in request.select[pair[1]] \/ request.select[pair[1]] = {}
      BY <1>1, <1>7, SelectedIs
    <2>2. pair[2] \in request.select[pair[1]] => pair \in Pairs(request.select)
      <3>1. SUFFICES ASSUME pair[2] \in request.select[pair[1]] PROVE pair \in Pairs(request.select)
        OBVIOUS
      <3>2. pair \in {pair[1]} \X request.select[pair[1]]
        BY <2>1, <3>1
      <3> QED BY <1>3, <2>1, <3>2 DEF Pairs
    <2> QED BY <1>1, <1>3, <2>1, <2>2, PairsWithin
  <1>8. ASSUME NEW pair \in access'.filtered
        PROVE  \/ pair \in Pairs(decided.fields)
               \/ access'.reader = "worker" /\ pair[1] \notin DOMAIN request.where
    <2>1. pair \in PlainPairs => pair[1] \notin DOMAIN request.where
      BY DEF PlainPairs
    <2> QED BY <1>1, <1>3, <1>8, <2>1, PairsWithin
  <1>9. ReadsWithinGrant'
    BY <1>1, <1>7, <1>8 DEF ReadsWithinGrant
  <1> QED BY <1>5, <1>6, <1>9

LEMMA AccessInvHolds == AccessSpec => []AccessInv
  <1>1. AccessInv /\ [AccessNext]_accessvars => AccessInv'
    <2> SUFFICES ASSUME AccessInv, [AccessNext]_accessvars PROVE AccessInv'
      OBVIOUS
    <2>1. CASE UNCHANGED accessvars
      BY <2>1 DEF accessvars, AccessInv, AccessTypeOK, AccessShapeInv, DecisionInv,
                  ReadsWithinGrant
    <2>2. ASSUME NEW gr \in Grants, Regrant(gr) PROVE AccessInv'
      <3>1. grant' = gr /\ gr \in GrantShapes
            /\ UNCHANGED <<constraints, request, origin, verdict, decided, access>>
        BY <2>2, AccessAssumption DEF Regrant
      <3> QED BY <3>1 DEF AccessInv, AccessTypeOK, AccessShapeInv, DecisionInv,
                          ReadsWithinGrant
    <2> QED BY <2>1, <2>2, CompileKeeps, WriteKeeps, AuthoriseKeeps, ReadKeeps DEF AccessNext
  <1> QED BY <1>1, AccessInitHolds, PTL DEF AccessSpec

\* Planner and policy judge alike: a plan under constraints within the grant passes.
LEMMA PlansAdmitted == AccessInv => PlansAreAdmitted
  <1> SUFFICES ASSUME AccessInv, origin = "planned", verdict = "denied",
                      Within(constraints.fields, decided),
                      constraints.links \subseteq decided.links,
                      request.assets \subseteq DOMAIN decided.fields
               PROVE  FALSE
    BY DEF PlansAreAdmitted
  <1>1. Within(request.select, decided) /\ Within(request.where, decided)
    BY WithinTransitive DEF AccessInv, DecisionInv
  <1> QED BY <1>1 DEF AccessInv, DecisionInv

\* Of an asset with a selection, a reader delivers only what the grant of the decision names;
\* of one without, the tables and the worker deliver all columns of a granted asset.  Tables
\* and PostgreSQL filter by granted fields; the worker also by a plain filter, where an asset
\* has none of its own.  And a plan compiled under constraints that the grant covers is not
\* denied.
THEOREM AccessWithinGrant == AccessSpec => [](ReadsWithinGrant /\ PlansAreAdmitted)
  <1>1. AccessInv => ReadsWithinGrant /\ PlansAreAdmitted
    BY PlansAdmitted DEF AccessInv
  <1> QED BY <1>1, AccessInvHolds, PTL

-----------------------------------------------------------------------------
(* The offline lab *)

\* No role is called "none", so who is shown a document named a role, in both places, and
\* it is the agent's own.  Who names a customer in its attributes is one of that customer's,
\* and is shown its rows alone unless it filters by asset; nothing is said of the rest.
THEOREM LabShowsOwn == LabSpec => [](DocumentsMatchRoles /\ RowsMatchCustomers)
  <1> DEFINE P == DocumentsMatchRoles /\ RowsMatchCustomers
  <1>1. LabInit => P
    BY DEF LabInit, DocumentsMatchRoles, RowsMatchCustomers
  <1>2. P /\ [LabNext]_labvars => P'
    <2> SUFFICES ASSUME P, LabNext PROVE P'
      BY DEF labvars, DocumentsMatchRoles, RowsMatchCustomers
    <2>1. PICK q \in Asked : Ask(q)
      BY DEF LabNext
    <2>2. /\ asked' = {q}
          /\ shown' = IF Evaluate(q) = "allowlisted" THEN Served(q) ELSE {}
      BY <2>1 DEF Ask
    <2>3. ASSUME Evaluate(q) = "allowlisted"
          PROVE  /\ q.agent \in Agents /\ q.arole = q.prole /\ q.acustomer = q.pcustomer
                 /\ q.arole \in {"none", RoleOf[q.agent]}
                 /\ q.acustomer # "none" => q.acustomer \in CustomersOf[q.agent]
      BY <2>3 DEF Evaluate, RoleReason, CustomerReason
    <2>4. Served(q) = RowsOf(q) \/ Served(q) = Readable(q) \/ Served(q) = {}
      BY Zenon DEF Served
    <2>5. q.source # "orders" => Served(q) = Readable(q) \/ Served(q) = {}
      BY Zenon DEF Served
    <2>6. q.source = "orders" => Served(q) = RowsOf(q) \/ Served(q) = {}
      BY DEF Served
    <2>7. \A acl \in Readable(q) : q.prole \in acl /\ q.prole # "none"
      BY LabAssumption DEF Readable, Roles
    <2>8. DocumentsMatchRoles'
      BY <2>2, <2>3, <2>5, <2>7 DEF DocumentsMatchRoles
    <2>9. RowsMatchCustomers'
      BY <2>2, <2>3, <2>6 DEF RowsMatchCustomers, RowsOf, Applied
    <2> QED BY <2>8, <2>9
  <1> QED BY <1>1, <1>2, PTL DEF LabSpec

-----------------------------------------------------------------------------
(* Northbound doors *)

\* A listing is what the catalog of its digest exposes to its agent; a plan of a catalog's
\* door states the tool that its digest names.
NorthInv ==
    /\ NorthTypeOK
    /\ listings = [a \in Callers |-> listings[a]]
    /\ \A a \in Callers : \A l \in listings[a] :
          l.tools = [n \in {m \in DOMAIN l.digest : a \in l.digest[m].agents} |-> l.digest[n]]
    /\ \A p \in reply.plan : p.door = "a2a" => p.effect \in Exposed
    /\ \A p \in reply.plan : p.door # "a2a" =>
          /\ p.name \in DOMAIN p.pinned /\ p.agent \in p.pinned[p.name].agents
          /\ p.effect = p.pinned[p.name].effect
          /\ p.risk = p.pinned[p.name].risk /\ p.approval = p.pinned[p.name].approval

LEMMA ListToolsKeeps ==
    ASSUME NorthInv, NEW a \in Callers, NEW shape \in Shapes, ListTools(a, shape)
    PROVE  NorthInv'
  <1>1. catalog' = catalog /\ reply'.plan = NoPlan /\ reply'.as \in {"listed", "refused", "raised"}
    BY DEF ListTools, Answer
  <1>2. CASE listings' = listings
    BY <1>1, <1>2 DEF NorthInv, NorthTypeOK, NoPlan
  <1> DEFINE l0 == [digest |-> catalog, tools |-> ExposedTo(a)]
  <1>3. CASE listings' = [listings EXCEPT ![a] = @ \cup {l0}]
    <2>1. /\ l0.digest = catalog /\ catalog \in Catalogs
          /\ l0.tools = [n \in {m \in DOMAIN catalog : a \in catalog[m].agents} |-> catalog[n]]
      BY DEF ExposedTo, NorthInv, NorthTypeOK
    <2> HIDE DEF l0
    <2>2. /\ DOMAIN listings' = Callers /\ listings' = [b \in Callers |-> listings'[b]]
          /\ listings'[a] = listings[a] \cup {l0}
          /\ \A b \in Callers : b # a => listings'[b] = listings[b]
      BY <1>3 DEF NorthInv, NorthTypeOK
    <2>3. ASSUME NEW b \in Callers, NEW l \in listings'[b]
          PROVE  /\ l.digest \in Catalogs
                 /\ l.tools = [n \in {m \in DOMAIN l.digest : b \in l.digest[m].agents} |->
                                  l.digest[n]]
      <3>1. CASE l \in listings[b]
        BY <3>1 DEF NorthInv, NorthTypeOK
      <3>2. CASE b = a /\ l = l0
        BY <3>2, <2>1
      <3> QED BY <2>2, <2>3, <3>1, <3>2
    <2> QED BY <1>1, <2>2, <2>3 DEF NorthInv, NorthTypeOK, NoPlan
  <1> QED BY <1>2, <1>3 DEF ListTools

\* A request that makes no plan leaves what was listed.
LEMMA NoPlanKeeps ==
    ASSUME NorthInv, NEW as \in {"none", "refused", "raised"}, Answer(as, NoPlan),
           UNCHANGED listings, catalog' \in Catalogs
    PROVE  NorthInv'
  BY DEF NorthInv, NorthTypeOK, Answer, NoPlan

LEMMA CallToolKeeps ==
    ASSUME NorthInv, NEW a \in Callers, NEW door \in Doors, NEW name, NEW header, NEW pinned,
           NEW shape, CallTool(a, door, name, header, pinned, shape)
    PROVE  NorthInv'
  <1>1. catalog' = catalog /\ listings' = listings /\ catalog' \in Catalogs
    BY DEF CallTool, NorthInv, NorthTypeOK
  <1> DEFINE tool == catalog[name]
             p == [agent |-> a, door |-> door, name |-> name, pinned |-> pinned,
                   effect |-> tool.effect, risk |-> tool.risk, approval |-> tool.approval]
  <1>2. CASE /\ Offers(a, name, pinned) /\ Plannable(tool.risk, tool.approval)
             /\ Answer("plan", {p})
    <2>1. pinned = catalog /\ name \in DOMAIN catalog /\ a \in catalog[name].agents
      BY <1>2 DEF Offers
    <2>2. tool.risk \in Risks /\ tool.approval \in Approvals
      BY <1>1, <2>1, CatalogsAssumption
    <2>3. /\ p.agent = a /\ p.door = door /\ p.name = name /\ p.pinned = pinned
          /\ p.effect = tool.effect /\ p.risk = tool.risk /\ p.approval = tool.approval
      OBVIOUS
    <2>4. reply'.as = "plan" /\ reply'.plan = {p}
      BY <1>2 DEF Answer
    <2> HIDE DEF p
    <2>5. reply'.plan # NoPlan /\ PlanShape(p)
      BY <2>2, <2>3, <2>4 DEF PlanShape, NoPlan
    <2>6. NorthTypeOK'
      BY <1>1, <2>4, <2>5 DEF NorthTypeOK, NorthInv
    <2>7. p.door # "a2a"
      BY <2>3 DEF Doors
    <2> QED BY <1>1, <2>1, <2>3, <2>4, <2>6, <2>7 DEF NorthInv
  <1>3. CASE \E as \in {"refused", "raised"} : Answer(as, NoPlan)
    BY <1>1, <1>3, NoPlanKeeps
  <1> QED BY <1>2, <1>3 DEF CallTool

LEMMA SendMessageKeeps ==
    ASSUME NorthInv, NEW a \in Callers, NEW claimed, NEW effect, NEW risk \in Risks,
           NEW approval \in Approvals, NEW shape,
           SendMessage(a, claimed, effect, risk, approval, shape)
    PROVE  NorthInv'
  <1>1. catalog' = catalog /\ listings' = listings /\ catalog' \in Catalogs
    BY DEF SendMessage, NorthInv, NorthTypeOK
  <1> DEFINE p == [agent |-> a, door |-> "a2a", effect |-> effect, risk |-> risk,
                   approval |-> approval]
  <1>2. CASE effect \in Exposed /\ Answer("plan", {p})
    <2>1. /\ p.agent = a /\ p.door = "a2a" /\ p.risk = risk /\ p.approval = approval
          /\ p.effect = effect
      OBVIOUS
    <2>2. reply'.as = "plan" /\ reply'.plan = {p}
      BY <1>2 DEF Answer
    <2> HIDE DEF p
    <2>3. reply'.plan # NoPlan /\ PlanShape(p)
      BY <2>1, <2>2 DEF PlanShape, NoPlan
    <2>4. NorthTypeOK'
      BY <1>1, <2>2, <2>3 DEF NorthTypeOK, NorthInv
    <2> QED BY <1>1, <1>2, <2>1, <2>2, <2>4 DEF NorthInv
  <1>3. CASE \E as \in {"refused", "raised"} : Answer(as, NoPlan)
    BY <1>1, <1>3, NoPlanKeeps
  <1> QED BY <1>2, <1>3 DEF SendMessage, Delegates

LEMMA NorthInvHolds == NorthSpec => []NorthInv
  <1>1. NorthInit => NorthInv
    BY DEF NorthInit, NorthInv, NorthTypeOK, NoPlan
  <1>2. NorthInv /\ [NorthNext]_northvars => NorthInv'
    <2> SUFFICES ASSUME NorthInv, [NorthNext]_northvars PROVE NorthInv'
      OBVIOUS
    <2>1. CASE UNCHANGED northvars
      BY <2>1 DEF northvars, NorthInv, NorthTypeOK
    <2>2. ASSUME NEW c \in Catalogs, Redeploy(c) PROVE NorthInv'
      BY <2>2, NoPlanKeeps DEF Redeploy
    <2>3. CASE \E a \in Callers, s \in Shapes : ListTools(a, s)
      BY <2>3, ListToolsKeeps
    <2>4. CASE \E a \in Callers, d \in Doors, n \in ToolNames, c \in Catalogs, s \in Shapes :
                  \E h \in (IF d = "http" THEN ToolNames ELSE {n}) : CallTool(a, d, n, h, c, s)
      BY <2>4, CallToolKeeps
    <2>5. CASE \E a, b \in Callers, e \in Effects, r \in Risks, m \in Approvals, s \in Shapes :
                  SendMessage(a, b, e, r, m, s)
      BY <2>5, SendMessageKeeps
    <2> QED BY <2>1, <2>2, <2>3, <2>4, <2>5 DEF NorthNext
  <1> QED BY <1>1, <1>2, PTL DEF NorthSpec

\* A plan of the native, MCP or HTTP door made under the digest of a listing does what that
\* listing showed its agent, as it showed it; one of A2A does an exposed effect.
THEOREM PlansListed == NorthSpec => []PlansAreAsListed
  <1>1. NorthInv => PlansAreAsListed
    <2> SUFFICES ASSUME NorthInv, NEW p \in reply.plan, p.door # "a2a",
                        NEW l \in listings[p.agent], l.digest = p.pinned
                 PROVE  /\ p.name \in DOMAIN l.tools
                        /\ l.tools[p.name].effect = p.effect
                        /\ l.tools[p.name].risk = p.risk
                        /\ l.tools[p.name].approval = p.approval
      BY DEF PlansAreAsListed, NorthInv
    <2> DEFINE a == p.agent
               n0 == p.name
    <2>1. a \in Callers
      BY DEF NorthInv, NorthTypeOK, PlanShape
    <2>2. /\ n0 \in DOMAIN l.digest /\ a \in l.digest[n0].agents
          /\ p.effect = l.digest[n0].effect
          /\ p.risk = l.digest[n0].risk /\ p.approval = l.digest[n0].approval
      BY DEF NorthInv
    <2>3. l.tools = [n \in {m \in DOMAIN l.digest : a \in l.digest[m].agents} |-> l.digest[n]]
      BY <2>1 DEF NorthInv
    <2>4. n0 \in DOMAIN l.tools /\ l.tools[n0] = l.digest[n0]
      BY <2>2, <2>3
    <2> QED BY <2>2, <2>4
  <1> QED BY <1>1, NorthInvHolds, PTL

-----------------------------------------------------------------------------
(* Approvals *)

ApprovalsInv == ApprovalsTypeOK /\ IsFiniteSet(issued)

LEMMA ApprovalsTyped == ApprovalsSpec => []ApprovalsInv
  <1>1. ApprovalsInit => ApprovalsInv
    BY ApprovalsAssumption, FS_EmptySet DEF ApprovalsInit, ApprovalsInv, ApprovalsTypeOK
  <1>2. ApprovalsInv /\ [ApprovalsNext]_approvalvars => ApprovalsInv'
    <2> SUFFICES ASSUME ApprovalsInv, [ApprovalsNext]_approvalvars PROVE ApprovalsInv'
      OBVIOUS
    <2> USE DEF ApprovalsInv, ApprovalsTypeOK
    <2>1. CASE UNCHANGED approvalvars
      BY <2>1 DEF approvalvars
    <2>2. CASE ClockTicks
      BY <2>2, ApprovalsAssumption, FS_EmptySet DEF ClockTicks
    <2>3. ASSUME NEW a \in Actions, NEW p \in Policies, PreviewAction(a, p) PROVE ApprovalsInv'
      <3> DEFINE v == [action |-> a, policy |-> p, until |-> hour + 1]
      <3>1. v \in Previews
        BY ApprovalsAssumption DEF Previews, Hours
      <3>2. previews' = {v} /\ accepted' = {} /\ UNCHANGED <<hour, issued>>
        BY <2>3 DEF PreviewAction
      <3> HIDE DEF v
      <3>3. Cardinality({v}) = 1
        BY FS_Singleton
      <3> QED BY <3>1, <3>2, <3>3, FS_EmptySet
    <2>4. ASSUME NEW t \in Terms, NEW s \in Identities, Issue(t, s) PROVE ApprovalsInv'
      <3> DEFINE i == [terms |-> t, scope |-> s]
      <3>1. /\ Cardinality(issued) < MaxIssued /\ issued' = issued \cup {i}
            /\ accepted' = {} /\ UNCHANGED <<hour, previews>>
        BY <2>4 DEF Issue
      <3> HIDE DEF i
      <3>2. /\ IsFiniteSet(issued \cup {i}) /\ Cardinality(issued) \in Nat
            /\ \/ Cardinality(issued \cup {i}) = Cardinality(issued)
               \/ Cardinality(issued \cup {i}) = Cardinality(issued) + 1
        BY FS_AddElement, FS_CardinalityType
      <3> QED BY <3>1, <3>2, FS_EmptySet, ApprovalsAssumption
    <2>5. ASSUME NEW t \in Terms, NEW i \in issued, NEW a \in Actions, NEW s \in Identities,
                 NEW p \in Policies, NEW u \in BOOLEAN, Present(t, i, a, s, p, u)
          PROVE  ApprovalsInv'
      <3> DEFINE v == [action |-> a, scope |-> s, policy |-> p, at |-> hour, undo |-> u,
                       approver |-> t.approver]
      <3>1. accepted' = {v} /\ UNCHANGED <<hour, previews, issued>>
        BY <2>5 DEF Present
      <3> HIDE DEF v
      <3>2. Cardinality({v}) = 1
        BY FS_Singleton
      <3> QED BY <3>1, <3>2
    <2> QED BY <2>1, <2>2, <2>3, <2>4, <2>5 DEF ApprovalsNext
  <1> QED BY <1>1, <1>2, PTL DEF ApprovalsSpec

\* What is presented with the signature of an issued approval are the terms and the scope
\* of that approval.
LEMMA PresentKeeps ==
    ASSUME NEW terms \in Terms, NEW i \in issued, NEW a \in Actions, NEW scope \in Identities,
           NEW policy \in Policies, NEW undo \in BOOLEAN,
           Present(terms, i, a, scope, policy, undo)
    PROVE  AcceptedWasApproved'
  <1> DEFINE x == [action |-> a, scope |-> scope, policy |-> policy, at |-> hour,
                   undo |-> undo, approver |-> terms.approver]
  <1>1. accepted' = {x} /\ issued' = issued
    BY DEF Present
  <1>2. /\ terms = i.terms /\ scope = i.scope
        /\ i.terms.action = a /\ i.terms.policy = policy
        /\ i.terms.from <= hour /\ hour < i.terms.until
        /\ undo => i.terms.undo
    <2>1. Verifies(terms, Signature(i.terms, i.scope), a, scope, policy, undo)
      BY DEF Present
    <2>2. Signature(i.terms, i.scope) = Signature(terms, scope)
      BY <2>1 DEF Verifies
    <2>3. terms = i.terms /\ scope = i.scope
      BY <2>2 DEF Signature
    <2> QED BY <2>1, <2>3 DEF Verifies, InForce
  <1>3. /\ i.terms.approver = x.approver /\ i.terms.action = x.action /\ i.scope = x.scope
        /\ i.terms.policy = x.policy
        /\ i.terms.from <= x.at /\ x.at < i.terms.until
        /\ x.undo => i.terms.undo
    BY <1>2
  <1> QED BY <1>1, <1>3 DEF AcceptedWasApproved

\* What is executed or compensated is what a human approved: that action, for that
\* identity and policy, within the window and the leave to compensate of the approval,
\* whatever became of the approval between issue() and verify().
THEOREM AcceptedWasApprovedHolds == ApprovalsSpec => []AcceptedWasApproved
  <1>1. ApprovalsInit => AcceptedWasApproved
    BY DEF ApprovalsInit, AcceptedWasApproved
  <1>2. AcceptedWasApproved /\ [ApprovalsNext]_approvalvars => AcceptedWasApproved'
    <2> SUFFICES ASSUME AcceptedWasApproved, [ApprovalsNext]_approvalvars
                 PROVE  AcceptedWasApproved'
      OBVIOUS
    <2>1. CASE ClockTicks
      BY <2>1 DEF ClockTicks, AcceptedWasApproved
    <2>2. CASE \E a \in Actions, p \in Policies : PreviewAction(a, p)
      BY <2>2 DEF PreviewAction, AcceptedWasApproved
    <2>3. CASE \E t \in Terms, s \in Identities : Issue(t, s)
      BY <2>3 DEF Issue, AcceptedWasApproved
    <2>4. CASE \E t \in Terms, i \in issued, a \in Actions, s \in Identities, p \in Policies,
                  u \in BOOLEAN : Present(t, i, a, s, p, u)
      BY <2>4, PresentKeeps
    <2>5. CASE UNCHANGED approvalvars
      BY <2>5 DEF approvalvars, AcceptedWasApproved
    <2> QED BY <2>1, <2>2, <2>3, <2>4, <2>5 DEF ApprovalsNext
  <1> QED BY <1>1, <1>2, PTL DEF ApprovalsSpec

-----------------------------------------------------------------------------
(* Worker-backed connectors *)

\* Who was asked could be asked, under a profile that is valid.
ContainedInv ==
    /\ profile \in Profiles /\ ValidProfile(profile)
    /\ sent # {} => /\ \A e \in endpoint : Authorized(e)
                    /\ \A m \in sent : m.operation \in Checked => m.source = Own

\* What was handed on is a well-formed beginning of the reply; all of it, when the call
\* returned.
HandedInv ==
    /\ outcome \in {"none", "returned", "raised", "denied"}
    /\ handed \in Seq({"good", "bad"})
    /\ call # <<>> =>
          /\ call[1].reply \in Seq({"good", "bad"}) /\ outcome # "denied"
          /\ Len(handed) <= Len(call[1].reply)
          /\ \A i \in DOMAIN handed : handed[i] = call[1].reply[i]
          /\ call[1].operation \in Listing \cup {"query"} =>
                \A i \in DOMAIN handed : handed[i] = "good"
          /\ call[1].operation # "query" /\ outcome # "returned" => handed = <<>>
          /\ outcome = "returned" => Len(handed) = Len(call[1].reply)
          /\ call[1].operation = "query" /\ outcome = "raised" =>
                Len(handed) < Len(call[1].reply) /\ Upcoming = "bad"

LEMMA ContainedStep ==
    ASSUME ContainedInv, [ConnectorNext]_workervars
    PROVE  ContainedInv'
  <1>1. CASE UNCHANGED <<profile, endpoint, sent>>
    BY <1>1 DEF ContainedInv, Authorized
  <1>2. ASSUME NEW o \in Operations, NEW s \in SourceIds, NEW r \in Replies, Invoke(o, s, r)
        PROVE  ContainedInv'
    BY <1>2 DEF Invoke, ContainedInv, Authorized
  <1> QED BY <1>1, <1>2
          DEF ConnectorNext, Refuse, Yield, EndQuery, EndOther, Settle, workervars

LEMMA InvokeKeeps ==
    ASSUME NEW o \in Operations, NEW s \in SourceIds, NEW r \in Replies, Invoke(o, s, r)
    PROVE  HandedInv'
  <1> DEFINE k == [operation |-> o, source |-> s, reply |-> r]
  <1>1. k.operation = o /\ k.reply = r /\ r \in Seq({"good", "bad"})
    BY WorkerConnectorAssumption
  <1>2. call' = <<k>> /\ handed' = <<>> /\ outcome' = "none"
    BY DEF Invoke
  <1> HIDE DEF k
  <1>3. call'[1] = k
    BY <1>2
  <1>4. Len(r) \in Nat
    BY <1>1
  <1> QED BY <1>1, <1>2, <1>3, <1>4 DEF HandedInv

LEMMA YieldKeeps == HandedInv /\ Yield => HandedInv'
  <1> SUFFICES ASSUME HandedInv, Yield PROVE HandedInv'
    OBVIOUS
  <1> DEFINE r == call[1].reply
  <1>1. /\ call # <<>> /\ outcome = "none" /\ call[1].operation = "query"
        /\ Len(r) - Len(handed) > 0 /\ r[Len(handed) + 1] = "good"
        /\ handed' = Append(handed, r[Len(handed) + 1])
        /\ outcome' = "none" /\ call' = call
    BY DEF Yield, Left, Upcoming, Settle
  <1>2. /\ r \in Seq({"good", "bad"}) /\ handed \in Seq({"good", "bad"})
        /\ \A i \in DOMAIN handed : handed[i] = r[i] /\ handed[i] = "good"
    BY <1>1 DEF HandedInv
  <1> HIDE DEF r
  <1>3. /\ handed' \in Seq({"good", "bad"}) /\ Len(handed') = Len(handed) + 1
        /\ \A i \in DOMAIN handed' : handed'[i] = r[i] /\ handed'[i] = "good"
    BY <1>1, <1>2
  <1>4. Len(handed') <= Len(r)
    BY <1>1, <1>2, <1>3
  <1>5. call'[1].reply = r /\ call'[1].operation = "query"
    BY <1>1 DEF r
  <1> QED BY <1>1, <1>2, <1>3, <1>4, <1>5 DEF HandedInv

LEMMA EndKeeps == HandedInv /\ (EndQuery \/ EndOther) => HandedInv'
  <1> SUFFICES ASSUME HandedInv, EndQuery \/ EndOther PROVE HandedInv'
    OBVIOUS
  <1>1. call # <<>> /\ outcome = "none" /\ call' = call
    BY DEF EndQuery, EndOther, Settle
  <1> DEFINE r == call[1].reply
  <1>2. /\ r \in Seq({"good", "bad"}) /\ handed \in Seq({"good", "bad"})
        /\ Len(handed) <= Len(r) /\ Len(r) \in Nat /\ Len(handed) \in Nat
        /\ \A i \in DOMAIN handed : handed[i] = r[i]
    BY <1>1 DEF HandedInv
  <1>3. CASE EndQuery
    <2>1. /\ call[1].operation = "query" /\ handed' = handed
          /\ Len(r) - Len(handed) > 0 => r[Len(handed) + 1] = "bad"
          /\ outcome' = IF Len(r) - Len(handed) = 0 THEN "returned" ELSE "raised"
      BY <1>3 DEF EndQuery, Left, Upcoming, Settle
    <2>2. Upcoming' = r[Len(handed) + 1]
      BY <1>1, <2>1 DEF Upcoming
    <2>3. CASE Len(r) = Len(handed)
      BY <1>1, <1>2, <2>1, <2>3 DEF HandedInv
    <2>4. CASE Len(r) # Len(handed)
      BY <1>1, <1>2, <2>1, <2>2, <2>4 DEF HandedInv
    <2> QED BY <2>3, <2>4
  <1>4. CASE EndOther
    <2>1. call[1].operation # "query" /\ handed = <<>>
      BY <1>1, <1>4 DEF EndOther, HandedInv
    <2>2. CASE handed' = handed /\ outcome' = "raised"
      BY <1>1, <1>2, <2>1, <2>2 DEF HandedInv
    <2>3. CASE /\ handed' = r /\ outcome' = "returned"
               /\ call[1].operation \in Listing => \A i \in DOMAIN r : r[i] = "good"
      BY <1>1, <1>2, <2>1, <2>3 DEF HandedInv
    <2> QED BY <1>4, <2>2, <2>3 DEF EndOther, Settle
  <1> QED BY <1>3, <1>4

LEMMA HandedStep ==
    ASSUME HandedInv, [ConnectorNext]_workervars
    PROVE  HandedInv'
  <1>1. CASE UNCHANGED workervars
    BY <1>1 DEF workervars, HandedInv, Upcoming
  <1>2. ASSUME NEW o \in Operations, NEW s \in SourceIds, Refuse(o, s) PROVE HandedInv'
    BY <1>2 DEF Refuse, HandedInv
  <1> QED BY <1>1, <1>2, InvokeKeeps, YieldKeeps, EndKeeps DEF ConnectorNext

\* Only workers that the deployment may reach are asked, and no answer of theirs, however
\* malformed, passes for a whole one.
THEOREM WorkersContained == ConnectorSpec => []WorkersAreContained
  <1>1. ConnectorInit => ContainedInv /\ HandedInv
    BY DEF ConnectorInit, ConnectorStarts, ContainedInv, HandedInv
  <1>2. ContainedInv /\ HandedInv /\ [ConnectorNext]_workervars => (ContainedInv /\ HandedInv)'
    BY ContainedStep, HandedStep
  <1>3. ContainedInv => WorkersStayInside
    BY DEF ContainedInv, WorkersStayInside, Authorized, ValidProfile, IsLocal
  <1>4. HandedInv => RepliesAreWhole
    <2> SUFFICES ASSUME HandedInv, call # <<>>
                 PROVE  /\ outcome = "returned" => handed = call[1].reply
                        /\ outcome = "raised" =>
                              IF call[1].operation = "query" THEN Upcoming = "bad"
                              ELSE handed = <<>>
                        /\ call[1].operation \in Listing \cup {"query"} =>
                              \A i \in DOMAIN handed : handed[i] = "good"
      BY DEF RepliesAreWhole
    <2>1. ASSUME outcome = "returned" PROVE handed = call[1].reply
      <3> DEFINE r == call[1].reply
      <3>1. /\ r \in Seq({"good", "bad"}) /\ handed \in Seq({"good", "bad"})
            /\ Len(handed) = Len(r) /\ \A i \in DOMAIN handed : handed[i] = r[i]
        BY <2>1 DEF HandedInv
      <3> HIDE DEF r
      <3>2. handed = r
        BY <3>1
      <3> QED BY <3>2 DEF r
    <2> QED BY <2>1 DEF HandedInv
  <1>5. WorkersStayInside /\ RepliesAreWhole => WorkersAreContained
    BY DEF WorkersAreContained
  <1> QED BY <1>1, <1>2, <1>3, <1>4, <1>5, PTL DEF ConnectorSpec

-----------------------------------------------------------------------------
(* The live source *)

CallStages == {"start", "looked", "updated", "bound", "committed", "over"}
Wrote == {c \in Writers : \E w \in writes : w.call = c}

SourceShape ==
    /\ row = [o \in Orders |-> row[o]] /\ binding = [k \in Keys |-> binding[k]]
    /\ stage \in [Writers -> CallStages] /\ told = [c \in Writers |-> told[c]]
    /\ \A c \in Writers : told[c].as \in {"none", "applied", "replayed", "stale", "raised"}
    /\ \A c \in Writers : stage[c] = "over" <=> told[c].as # "none"
    /\ \A o \in Orders : row[o].version \in Nat /\ 1 <= row[o].version
                         /\ row[o].version <= 1 + Cardinality(Wrote)

\* A write is one call's, which has committed and has its key; a bound key is of a write.
WritesInv ==
    /\ \A w \in writes :
          /\ w.call \in Writers /\ stage[w.call] \in {"committed", "over"}
          /\ w.version \in Nat /\ 1 <= w.version
          /\ binding[Asks[w.call].key] = [by |-> w.call, version |-> w.version]
          /\ w.version <= row[Asks[w.call].order].version
          /\ w.was.version = Asks[w.call].version /\ w.was.value = Asks[w.call].expected
    /\ \A v, w \in writes : v # w =>
          /\ v.call # w.call
          /\ Asks[v.call].order = Asks[w.call].order => v.version # w.version
    /\ \A k \in Keys : binding[k] = Unbound \/ \E w \in writes :
          binding[k] = [by |-> w.call, version |-> w.version]
    /\ \A c \in Writers : stage[c] = "committed" => \E w \in writes : w.call = c

\* Calls that hold a row, or a key, hold it alone, and find it as they judged it.
HoldersInv ==
    /\ \A c \in Writers : stage[c] \in {"updated", "bound"} => Expected(c) /\ RowHolders(c) = {}
    /\ \A c \in Writers : stage[c] = "bound" =>
          binding[Asks[c].key] = Unbound /\ KeyHolders(c) = {}

LiveInv == SourceShape /\ WritesInv /\ HoldersInv /\ AnswersAreTrue

LEMMA WrittenOnce == WritesInv => WritesAreConditional
  <1> SUFFICES ASSUME WritesInv, NEW v \in writes, NEW w \in writes, v # w
               PROVE  Asks[v.call].key # Asks[w.call].key
    BY DEF WritesInv, WritesAreConditional
  <1>1. /\ binding[Asks[v.call].key] = [by |-> v.call, version |-> v.version]
        /\ binding[Asks[w.call].key] = [by |-> w.call, version |-> w.version]
        /\ v.call # w.call
    BY DEF WritesInv
  <1> QED BY <1>1

LEMMA AskedFor == ASSUME NEW c \in Writers PROVE Asks[c].key \in Keys /\ Asks[c].order \in Orders
  BY SourceAssumption DEF Keys

\* A call that goes on without committing.
LEMMA MoveKeeps ==
    ASSUME LiveInv, NEW c \in Writers, NEW s \in CallStages, UNCHANGED <<row, binding, writes>>,
           Goto(c, s), s # "committed",
           stage[c] \in {"committed", "over"} => s = "over",
           s = "updated" => Expected(c) /\ RowHolders(c) = {},
           s = "bound" => /\ stage[c] = "updated"
                          /\ binding[Asks[c].key] = Unbound /\ KeyHolders(c) = {},
           told' = [a \in Writers |-> told'[a]],
           \A d \in Writers : d # c => told'[d] = told[d],
           told'[c].as \in {"none", "applied", "replayed", "stale", "raised"},
           s = "over" <=> told'[c].as # "none",
           told'[c].as \in {"applied", "replayed"} =>
               \E w \in writes : Asks[w.call] = Asks[c] /\ w.version = told'[c].version
    PROVE  LiveInv'
  <1>1. /\ stage' \in [Writers -> CallStages] /\ stage'[c] = s
        /\ \A d \in Writers : d # c => stage'[d] = stage[d]
    BY DEF Goto, LiveInv, SourceShape
  <1>2. SourceShape'
    <2>1. row' = [o \in Orders |-> row'[o]] /\ binding' = [k \in Keys |-> binding'[k]]
      BY DEF LiveInv, SourceShape
    <2>2. \A d \in Writers : told'[d].as \in {"none", "applied", "replayed", "stale", "raised"}
      BY DEF LiveInv, SourceShape
    <2>3. \A d \in Writers : stage'[d] = "over" <=> told'[d].as # "none"
      BY <1>1 DEF LiveInv, SourceShape
    <2>4. Wrote' = Wrote
      BY DEF Wrote
    <2>5. \A o \in Orders : row'[o].version \in Nat /\ 1 <= row'[o].version
                            /\ row'[o].version <= 1 + Cardinality(Wrote')
      BY <2>4 DEF LiveInv, SourceShape
    <2> QED BY <1>1, <2>1, <2>2, <2>3, <2>5 DEF SourceShape
  <1>3. WritesInv'
    <2>1. \A w \in writes : stage'[w.call] \in {"committed", "over"}
      BY <1>1 DEF LiveInv, WritesInv
    <2>2. \A d \in Writers : stage'[d] = "committed" => stage[d] = "committed"
      BY <1>1
    <2> QED BY <2>1, <2>2 DEF LiveInv, WritesInv
  <1>4. HoldersInv'
    <2>1. ASSUME NEW d \in Writers, stage'[d] \in {"updated", "bound"}
          PROVE  Expected(d)' /\ RowHolders(d)' = {}
      <3>1. Expected(d) /\ RowHolders(d) = {}
        BY <1>1, <2>1 DEF LiveInv, HoldersInv
      <3>2. \A e \in Writers \ {d} :
                stage'[e] \in {"updated", "bound"} => Asks[e].order # Asks[d].order
        <4> SUFFICES ASSUME NEW e \in Writers \ {d}, stage'[e] \in {"updated", "bound"}
                     PROVE  Asks[e].order # Asks[d].order
          OBVIOUS
        <4>1. CASE stage[e] \in {"updated", "bound"}
          BY <3>1, <4>1 DEF RowHolders
        <4>2. CASE e = c /\ s = "updated"
          BY <1>1, <2>1, <4>2 DEF RowHolders
        <4> QED BY <1>1, <4>1, <4>2
      <3> QED BY <3>1, <3>2 DEF Expected, RowHolders
    <2>2. ASSUME NEW d \in Writers, stage'[d] = "bound"
          PROVE  binding[Asks[d].key] = Unbound /\ KeyHolders(d)' = {}
      <3>1. binding[Asks[d].key] = Unbound /\ KeyHolders(d) = {}
        BY <1>1, <2>2 DEF LiveInv, HoldersInv
      <3>2. \A e \in Writers \ {d} : stage'[e] = "bound" => Asks[e].key # Asks[d].key
        <4> SUFFICES ASSUME NEW e \in Writers \ {d}, stage'[e] = "bound"
                     PROVE  Asks[e].key # Asks[d].key
          OBVIOUS
        <4>1. CASE stage[e] = "bound"
          BY <3>1, <4>1 DEF KeyHolders
        <4>2. CASE e = c /\ s = "bound"
          BY <1>1, <2>2, <4>2 DEF KeyHolders
        <4> QED BY <1>1, <4>1, <4>2
      <3> QED BY <3>1, <3>2 DEF KeyHolders
    <2> QED BY <2>1, <2>2 DEF HoldersInv
  <1>5. AnswersAreTrue'
    BY DEF LiveInv, AnswersAreTrue
  <1> QED BY <1>2, <1>3, <1>4, <1>5 DEF LiveInv

\* The commit of a call that holds its row and its key.
LEMMA CommitKeeps ==
    ASSUME LiveInv, NEW c \in Writers, Commit(c)
    PROVE  LiveInv'
  <1> DEFINE o0 == Asks[c].order
             k0 == Asks[c].key
             new == row[o0].version + 1
             entry == [call |-> c, was |-> row[o0], version |-> new]
  <1>1. /\ stage[c] = "bound" /\ stage' = [stage EXCEPT ![c] = "committed"]
        /\ row' = [row EXCEPT ![o0] = [value |-> Asks[c].value, version |-> new]]
        /\ binding' = [binding EXCEPT ![k0] = [by |-> c, version |-> new]]
        /\ writes' = writes \cup {entry} /\ told' = told
    BY DEF Commit, Goto
  <1>2. o0 \in Orders /\ k0 \in Keys
    BY AskedFor
  <1>3. /\ stage' \in [Writers -> CallStages] /\ stage'[c] = "committed"
        /\ \A d \in Writers : d # c => stage'[d] = stage[d]
        /\ row' = [o \in Orders |-> row'[o]] /\ row'[o0].version = new
        /\ \A o \in Orders : o # o0 => row'[o] = row[o]
        /\ binding' = [k \in Keys |-> binding'[k]]
        /\ binding'[k0] = [by |-> c, version |-> new]
        /\ \A k \in Keys : k # k0 => binding'[k] = binding[k]
    BY <1>1, <1>2 DEF LiveInv, SourceShape, CallStages
  <1>4. /\ entry.call = c /\ entry.version = new /\ entry.was = row[o0]
        /\ row[o0].version \in Nat /\ new \in Nat /\ 1 <= new
    BY <1>2 DEF LiveInv, SourceShape
  <1>5. /\ binding[k0] = Unbound /\ KeyHolders(c) = {} /\ RowHolders(c) = {}
        /\ row[o0].version = Asks[c].version /\ row[o0].value = Asks[c].expected
    BY <1>1 DEF LiveInv, HoldersInv, Expected
  <1>6. \A w \in writes : /\ w.call \in Writers /\ w.call # c /\ Asks[w.call].key # k0
                          /\ w.version \in Nat /\ Asks[w.call].key \in Keys
                          /\ Asks[w.call].order \in Orders
    <2> SUFFICES ASSUME NEW w \in writes
                 PROVE  /\ w.call \in Writers /\ w.call # c /\ Asks[w.call].key # k0
                        /\ w.version \in Nat
      BY AskedFor
    <2>1. /\ w.call \in Writers /\ stage[w.call] \in {"committed", "over"}
          /\ w.version \in Nat /\ 1 <= w.version
          /\ binding[Asks[w.call].key] = [by |-> w.call, version |-> w.version]
      BY DEF LiveInv, WritesInv
    <2>2. [by |-> w.call, version |-> w.version] # Unbound
      BY <2>1 DEF Unbound
    <2> QED BY <1>1, <1>5, <2>1, <2>2
  <1> HIDE DEF entry, new, o0, k0
  <1>7. SourceShape'
    <2>1. IsFiniteSet(Wrote) /\ Cardinality(Wrote) \in Nat
      BY SourceAssumption, FS_Subset, FS_CardinalityType DEF Wrote
    <2>2. Wrote' = Wrote \cup {c} /\ c \notin Wrote
      BY <1>1, <1>4, <1>6 DEF Wrote
    <2>3. Cardinality(Wrote') = Cardinality(Wrote) + 1
      BY <2>1, <2>2, FS_AddElement
    <2>4. ASSUME NEW o \in Orders
          PROVE  row'[o].version \in Nat /\ 1 <= row'[o].version
                 /\ row'[o].version <= 1 + Cardinality(Wrote)'
      <3>1. /\ row[o].version \in Nat /\ 1 <= row[o].version
            /\ row[o].version <= 1 + Cardinality(Wrote)
            /\ row[o0].version <= 1 + Cardinality(Wrote)
        BY <1>2 DEF LiveInv, SourceShape
      <3>2. row'[o].version = row[o].version \/ row'[o].version = row[o0].version + 1
        BY <1>3 DEF new
      <3> QED BY <1>4, <2>1, <2>3, <3>1, <3>2
    <2>5. \A d \in Writers : stage'[d] = "over" <=> told'[d].as # "none"
      BY <1>1, <1>3 DEF LiveInv, SourceShape
    <2> QED BY <1>1, <1>3, <2>4, <2>5 DEF LiveInv, SourceShape
  <1>8. WritesInv'
    <2>1. ASSUME NEW w \in writes'
          PROVE  /\ w.call \in Writers /\ stage'[w.call] \in {"committed", "over"}
                 /\ w.version \in Nat /\ 1 <= w.version
                 /\ binding'[Asks[w.call].key] = [by |-> w.call, version |-> w.version]
                 /\ w.version <= row'[Asks[w.call].order].version
                 /\ w.was.version = Asks[w.call].version
                 /\ w.was.value = Asks[w.call].expected
      <3>1. CASE w = entry
        BY <1>3, <1>4, <1>5, <3>1 DEF o0, k0
      <3>2. CASE w \in writes
        <4>1. /\ stage[w.call] \in {"committed", "over"}
              /\ 1 <= w.version
              /\ binding[Asks[w.call].key] = [by |-> w.call, version |-> w.version]
              /\ w.version <= row[Asks[w.call].order].version
              /\ w.was.version = Asks[w.call].version
              /\ w.was.value = Asks[w.call].expected
          BY <3>2 DEF LiveInv, WritesInv
        <4>2. w.version <= row'[Asks[w.call].order].version
          <5>1. CASE Asks[w.call].order = o0
            BY <1>3, <1>4, <1>6, <3>2, <4>1, <5>1 DEF new
          <5>2. CASE Asks[w.call].order # o0
            BY <1>3, <1>6, <3>2, <4>1, <5>2
          <5> QED BY <5>1, <5>2
        <4> QED BY <1>3, <1>6, <3>2, <4>1, <4>2
      <3> QED BY <1>1, <3>1, <3>2
    <2>2. ASSUME NEW v \in writes', NEW w \in writes', v # w
          PROVE  /\ v.call # w.call
                 /\ Asks[v.call].order = Asks[w.call].order => v.version # w.version
      <3>1. ASSUME NEW u \in writes, Asks[u.call].order = o0
            PROVE  u.version # new
        <4>1. u.version <= row[o0].version
          BY <3>1 DEF LiveInv, WritesInv
        <4> QED BY <1>4, <1>6, <4>1 DEF new
      <3>2. CASE v \in writes /\ w \in writes
        BY <2>2, <3>2 DEF LiveInv, WritesInv
      <3>3. CASE v \in writes /\ w = entry
        BY <1>4, <1>6, <3>1, <3>3 DEF o0
      <3>4. CASE v = entry /\ w \in writes
        BY <1>4, <1>6, <3>1, <3>4 DEF o0
      <3> QED BY <1>1, <2>2, <3>2, <3>3, <3>4
    <2>3. ASSUME NEW k \in Keys
          PROVE  binding'[k] = Unbound \/ \E w \in writes' :
                     binding'[k] = [by |-> w.call, version |-> w.version]
      <3>1. CASE k = k0
        BY <1>1, <1>3, <1>4, <3>1
      <3>2. CASE k # k0
        <4>1. binding'[k] = binding[k]
          BY <1>3, <3>2
        <4>2. binding[k] = Unbound \/ \E w \in writes :
                  binding[k] = [by |-> w.call, version |-> w.version]
          BY DEF LiveInv, WritesInv
        <4>3. writes \subseteq writes'
          BY <1>1, <1>3
        <4> QED BY <4>1, <4>2, <4>3
      <3> QED BY <3>1, <3>2
    <2>4. ASSUME NEW d \in Writers, stage'[d] = "committed"
          PROVE  \E w \in writes' : w.call = d
      BY <1>1, <1>3, <1>4, <2>4 DEF LiveInv, WritesInv
    <2> QED BY <2>1, <2>2, <2>3, <2>4 DEF WritesInv
  <1>9. HoldersInv'
    <2>1. ASSUME NEW d \in Writers, stage'[d] \in {"updated", "bound"}
          PROVE  Expected(d)' /\ RowHolders(d)' = {}
      <3>1. d # c /\ stage[d] \in {"updated", "bound"}
        BY <1>3, <2>1
      <3>2. Expected(d) /\ RowHolders(d) = {}
        BY <3>1 DEF LiveInv, HoldersInv
      <3>3. Asks[d].order # o0 /\ Asks[d].order \in Orders
        BY <1>5, <3>1, AskedFor DEF RowHolders, o0
      <3> QED BY <1>3, <3>2, <3>3 DEF Expected, RowHolders
    <2>2. ASSUME NEW d \in Writers, stage'[d] = "bound"
          PROVE  binding'[Asks[d].key] = Unbound /\ KeyHolders(d)' = {}
      <3>1. d # c /\ stage[d] = "bound"
        BY <1>3, <2>2
      <3>2. binding[Asks[d].key] = Unbound /\ KeyHolders(d) = {}
        BY <3>1 DEF LiveInv, HoldersInv
      <3>3. Asks[d].key # k0 /\ Asks[d].key \in Keys
        BY <1>5, <3>1, AskedFor DEF KeyHolders, k0
      <3> QED BY <1>3, <3>2, <3>3 DEF KeyHolders
    <2> QED BY <2>1, <2>2 DEF HoldersInv
  <1>10. AnswersAreTrue'
    BY <1>1 DEF LiveInv, AnswersAreTrue
  <1> QED BY <1>7, <1>8, <1>9, <1>10 DEF LiveInv

LEMMA LookUpKeeps ==
    ASSUME LiveInv, NEW c \in Writers, LookUp(c)
    PROVE  LiveInv'
  <1> DEFINE found == binding[Asks[c].key]
  <1>1. stage[c] = "start" /\ UNCHANGED <<row, binding, writes>>
    BY DEF LookUp
  <1>2. told = [a \in Writers |-> told[a]] /\ told[c].as = "none"
    BY <1>1 DEF LiveInv, SourceShape
  <1>3. CASE Goto(c, "looked") /\ UNCHANGED told
    BY <1>1, <1>2, <1>3, MoveKeeps DEF CallStages
  <1>4. CASE found # Unbound /\ Asks[found.by] = Asks[c] /\ Tell(c, "replayed", found.version)
    <2>1. \E w \in writes : found = [by |-> w.call, version |-> w.version]
      BY <1>4, AskedFor DEF LiveInv, WritesInv
    <2>2. \E w \in writes : Asks[w.call] = Asks[c] /\ w.version = found.version
      BY <1>4, <2>1
    <2> HIDE DEF found
    <2>3. /\ told' = [a \in Writers |-> told'[a]]
          /\ \A d \in Writers : d # c => told'[d] = told[d]
          /\ told'[c].as = "replayed" /\ told'[c].version = found.version
      BY <1>2, <1>4 DEF Tell
    <2>4. Goto(c, "over")
      BY <1>4 DEF Tell
    <2> QED BY <1>1, <2>2, <2>3, <2>4, MoveKeeps DEF CallStages
  <1>5. CASE Tell(c, "raised", 0)
    <2>1. /\ told' = [a \in Writers |-> told'[a]]
          /\ \A d \in Writers : d # c => told'[d] = told[d]
          /\ told'[c].as = "raised" /\ Goto(c, "over")
      BY <1>2, <1>5 DEF Tell
    <2> QED BY <1>1, <2>1, MoveKeeps DEF CallStages
  <1> QED BY <1>3, <1>4, <1>5 DEF LookUp

\* A call that ends without an effect of its own.
LEMMA EndsKeeps ==
    ASSUME LiveInv, NEW c \in Writers, NEW as \in {"stale", "raised"}, NEW version,
           Tell(c, as, version), UNCHANGED <<row, binding, writes>>
    PROVE  LiveInv'
  <1>1. told = [a \in Writers |-> told[a]]
    BY DEF LiveInv, SourceShape
  <1>2. /\ told' = [a \in Writers |-> told'[a]]
        /\ \A d \in Writers : d # c => told'[d] = told[d]
        /\ told'[c].as = as /\ Goto(c, "over")
    BY <1>1 DEF Tell
  <1> QED BY <1>2, MoveKeeps DEF CallStages

LEMMA ConfirmKeeps ==
    ASSUME LiveInv, NEW c \in Writers, Confirm(c)
    PROVE  LiveInv'
  <1> DEFINE version == binding[Asks[c].key].version
  <1>1. /\ stage[c] = "committed" /\ UNCHANGED <<row, binding, writes>>
        /\ Tell(c, "applied", version)
    BY DEF Confirm
  <1>2. PICK w \in writes : w.call = c
    BY <1>1 DEF LiveInv, WritesInv
  <1>3. binding[Asks[w.call].key] = [by |-> w.call, version |-> w.version]
    BY DEF LiveInv, WritesInv
  <1>4. Asks[w.call] = Asks[c] /\ w.version = version
    BY <1>2, <1>3
  <1> HIDE DEF version
  <1>5. told = [a \in Writers |-> told[a]]
    BY DEF LiveInv, SourceShape
  <1>6. /\ told' = [a \in Writers |-> told'[a]]
        /\ \A d \in Writers : d # c => told'[d] = told[d]
        /\ told'[c].as = "applied" /\ told'[c].version = version /\ Goto(c, "over")
    BY <1>1, <1>5 DEF Tell
  <1> QED BY <1>1, <1>4, <1>6, MoveKeeps DEF CallStages

LEMMA UpdateKeeps ==
    ASSUME LiveInv, NEW c \in Writers, Update(c) \/ Bind(c)
    PROVE  LiveInv'
  <1>1. UNCHANGED <<row, binding, writes>> /\ stage[c] \in {"looked", "updated"}
    BY DEF Update, Bind
  <1>2. told = [a \in Writers |-> told[a]] /\ told[c].as = "none"
    BY <1>1 DEF LiveInv, SourceShape
  <1>3. CASE Expected(c) /\ RowHolders(c) = {} /\ Goto(c, "updated") /\ UNCHANGED told
    BY <1>1, <1>2, <1>3, MoveKeeps DEF CallStages
  <1>4. CASE /\ stage[c] = "updated" /\ binding[Asks[c].key] = Unbound /\ KeyHolders(c) = {}
             /\ Goto(c, "bound") /\ UNCHANGED told
    BY <1>1, <1>2, <1>4, MoveKeeps DEF CallStages
  <1>5. CASE \E as \in {"stale", "raised"} : \E version : Tell(c, as, version)
    BY <1>1, <1>5, EndsKeeps
  <1> QED BY <1>3, <1>4, <1>5 DEF Update, Bind

LEMMA LiveInvHolds == SourceSpec => []LiveInv
  <1>1. SourceInit => LiveInv
    <2> SUFFICES ASSUME SourceInit PROVE LiveInv
      OBVIOUS
    <2>1. IsFiniteSet(Wrote) /\ Cardinality(Wrote) \in Nat
      BY SourceAssumption, FS_Subset, FS_CardinalityType DEF Wrote
    <2>2. SourceShape
      BY <2>1 DEF SourceInit, SourceShape, CallStages
    <2>3. WritesInv /\ HoldersInv /\ AnswersAreTrue
      BY DEF SourceInit, WritesInv, HoldersInv, AnswersAreTrue
    <2> QED BY <2>2, <2>3 DEF LiveInv
  <1>2. LiveInv /\ [SourceNext]_sourcevars => LiveInv'
    <2> SUFFICES ASSUME LiveInv, [SourceNext]_sourcevars PROVE LiveInv'
      OBVIOUS
    <2>1. CASE UNCHANGED sourcevars
      BY <2>1 DEF sourcevars, LiveInv, SourceShape, WritesInv, HoldersInv, AnswersAreTrue, Wrote,
                  Expected, RowHolders, KeyHolders
    <2>2. ASSUME NEW c \in Writers, Drop(c) PROVE LiveInv'
      BY <2>2, EndsKeeps DEF Drop
    <2> QED BY <2>1, <2>2, LookUpKeeps, UpdateKeeps, CommitKeeps, ConfirmKeeps DEF SourceNext
  <1> QED BY <1>1, <1>2, PTL DEF SourceSpec

\* Overlapping calls neither lose an update nor are told of one that is not there.
THEOREM MutationsConditional == SourceSpec => []MutationsAreConditional
  <1>1. LiveInv => MutationsAreConditional
    BY WrittenOnce DEF LiveInv, MutationsAreConditional
  <1> QED BY <1>1, LiveInvHolds, PTL

\* Rows, keys and answers stay what the tables may hold; a row is written at most once a call.
LEMMA SourceTyped == LiveInv => SourceTypeOK
  <1> SUFFICES ASSUME LiveInv PROVE SourceTypeOK
    OBVIOUS
  <1>1. Cardinality(Wrote) <= Cardinality(Writers) /\ Cardinality(Wrote) \in Nat
        /\ Cardinality(Writers) \in Nat
    BY SourceAssumption, FS_Subset, FS_CardinalityType DEF Wrote
  <1>2. \A o \in Orders : row[o].version \in 1..Cardinality(Writers) + 1
    BY <1>1 DEF LiveInv, SourceShape
  <1>3. DOMAIN row = Orders /\ DOMAIN binding = Keys
    BY DEF LiveInv, SourceShape
  <1> QED BY <1>2, <1>3 DEF LiveInv, SourceShape, SourceTypeOK, CallStages
=============================================================================
