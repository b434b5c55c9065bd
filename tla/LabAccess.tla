----------------------------- MODULE LabAccess ------------------------------
(***************************************************************************)
(* Who sees what in the offline lab (lab.py): WhiteGoodsPolicy judges the  *)
(* scope that a request states twice, in its attributes and in its         *)
(* parameters, and the connectors apply the parameters.                    *)
(*                                                                         *)
(* Abstractions: documents are their ACLs, orders their customers; the     *)
(* ranking of hits, limits and products only make what is shown smaller.   *)
(***************************************************************************)
EXTENDS FiniteSets

CONSTANTS
    Agents,      \* known agents
    Stranger,    \* an agent the policy does not know
    RoleOf,      \* role of each known agent
    CustomersOf, \* customers of each known agent
    Acls,        \* the documents, as the sets of roles that may read them
    Customers

Roles == UNION Acls

\* "none" stands for a role or a customer that a request does not name.
ASSUME LabAssumption ==
    "none" \notin Roles \cup Customers /\ Stranger \notin Agents
Sources == {"documents", "search", "orders"}

\* role and customer as attributes (a) and as parameters (p); "none" when absent.
\* byAsset: the plan has canonical scopes; the customer, if any, is in where_by_asset (w),
\* which this policy does not read, and the connector does not read the plain filter (p).
Asked == [agent : Agents \cup {Stranger}, source : Sources,
          capability : {"query", "search", "subscribe"},
          arole : Roles \cup {"none"}, prole : Roles \cup {"none"},
          acustomer : Customers \cup {"none"}, pcustomer : Customers \cup {"none"},
          byAsset : BOOLEAN, wcustomer : Customers \cup {"none"}]

VARIABLES asked, reason, shown

labvars == <<asked, reason, shown>>

LabInit == asked = {} /\ reason = "none" /\ shown = {}

RoleReason(q) ==
    IF q.arole # q.prole THEN "scope_attribute_mismatch"
    ELSE IF q.arole \notin {"none", RoleOf[q.agent]} THEN "role_mismatch"
    ELSE "allowlisted"

CustomerReason(q) ==
    IF q.acustomer # q.pcustomer THEN "scope_attribute_mismatch"
    ELSE IF q.acustomer # "none" /\ q.acustomer \notin CustomersOf[q.agent]
    THEN "customer_scope_denied"
    ELSE "allowlisted"

\* WhiteGoodsPolicy.evaluate(): the first reason found stands.
Evaluate(q) ==
    IF q.agent \notin Agents THEN "unknown_agent"
    ELSE IF q.capability \notin {"query", "search"} THEN "capability_not_allowed"
    ELSE IF RoleReason(q) # "allowlisted" THEN RoleReason(q)
    ELSE CustomerReason(q)

\* DocumentConnector.execute() and SearchConnector.search(): no role reads nothing.
Readable(q) == {acl \in Acls : q.prole \in acl}

\* StructuredConnector.execute(): the filter by asset of a canonical plan, else the plain one.
Applied(q) == IF q.byAsset THEN q.wcustomer ELSE q.pcustomer
RowsOf(q) == IF Applied(q) = "none" THEN Customers ELSE {Applied(q)}

Served(q) ==
    CASE q.source = "orders" /\ q.capability = "query" -> RowsOf(q)
      [] q.source = "documents" /\ q.capability = "query" -> Readable(q)
      [] q.source = "search" /\ q.capability = "search" -> Readable(q)
      [] OTHER -> {}

Ask(q) ==
    /\ asked = {} /\ asked' = {q}
    /\ reason' = Evaluate(q)
    /\ shown' = IF reason' = "allowlisted" THEN Served(q) ELSE {}

LabNext == asked = {} /\ \E q \in Asked : Ask(q)

LabSpec == LabInit /\ [][LabNext]_labvars

-----------------------------------------------------------------------------
(* Properties *)

\* The policy reads the attributes, the connectors the parameters; still, a document
\* shown, by query or by search, is one that the agent's own role may read
\* (WhiteGoodsPolicy.evaluate() with DocumentConnector and SearchConnector).
DocumentsMatchRoles ==
    \A q \in asked : q.source # "orders" => \A acl \in shown : RoleOf[q.agent] \in acl

\* An agent whose attributes name a customer is one of that customer's, whatever it is
\* shown; and unless the plan is canonical, it is shown that customer's rows only.  Who
\* names no customer, and who filters by asset, is shown any customer's rows, although
\* docs/architecture/phase-1-white-goods-lab.md:25 says that a "cross-customer request is
\* rejected before a batch is emitted".
RowsMatchCustomers ==
    \A q \in asked : q.source = "orders" /\ q.acustomer # "none" /\ shown # {} =>
        /\ q.acustomer \in CustomersOf[q.agent]
        /\ ~ q.byAsset => shown = {q.acustomer}
=============================================================================
