----------------------------- MODULE Northbound -----------------------------
(***************************************************************************)
(* The doors through which agents reach the action model: the native       *)
(* adapter (protocol.py), the MCP profile over it, with and without HTTP,  *)
(* and the A2A profile over the delegation adapter (protocol_profiles.py,  *)
(* delegation.py).  Servers keep no state between requests: an agent lists *)
(* tools, the catalog may be redeployed, and a call pins the digest of the *)
(* listing its agent has read, or another.                                 *)
(*                                                                         *)
(* Abstractions: the digest of a catalog is the catalog; what a tool does  *)
(* (source, asset, operation, purpose) is one effect; an error answer of   *)
(* any code is a refusal; the shape of a request is exact, refused by some *)
(* check of its envelope or arguments, or such that the handler raises (no *)
(* method, a compensation without operation or with empty members).        *)
(***************************************************************************)
CONSTANTS
    Callers,     \* agents
    Catalogs,    \* deployable catalogs: tool name -> effect, risk, approval, agents
    Effects,
    Exposed      \* effects that the A2A adapter exposes

Doors == {"native", "mcp", "http"}
Shapes == {"exact", "refused", "raising"}
Risks == {"low", "medium", "high"}
Approvals == {"none", "human"}

\* NorthboundTool: risk and approval mode are enumerations.
ASSUME CatalogsAssumption ==
    \A c \in Catalogs : \A n \in DOMAIN c :
        c[n].risk \in Risks /\ c[n].approval \in Approvals

ToolNames == UNION {DOMAIN c : c \in Catalogs}

VARIABLES
    catalog,    \* the catalog deployed
    listings,   \* what each agent was listed, by catalog digest (history)
    reply       \* the answer to the last request, and the plan it holds

northvars == <<catalog, listings, reply>>
NoPlan == {}

\* SourceActionPlan
PlanShape(p) == /\ p.agent \in Callers /\ p.door \in Doors \cup {"a2a"}
                /\ p.risk \in Risks /\ p.approval \in Approvals

NorthTypeOK ==
    /\ catalog \in Catalogs
    /\ DOMAIN listings = Callers
    /\ \A a \in Callers : \A l \in listings[a] : l.digest \in Catalogs
    /\ reply.as \in {"none", "listed", "plan", "refused", "raised"}
    /\ reply.as = "plan" <=> reply.plan # NoPlan
    /\ \A p \in reply.plan : PlanShape(p)

NorthInit ==
    /\ catalog \in Catalogs
    /\ listings = [a \in Callers |-> {}]
    /\ reply = [as |-> "none", plan |-> NoPlan]

Answer(as, plan) == reply' = [as |-> as, plan |-> plan]

\* Adapters are built with a catalog; a new one is a new deployment.
Redeploy(c) ==
    /\ c # catalog /\ catalog' = c /\ Answer("none", NoPlan)
    /\ UNCHANGED listings

ExposedTo(a) ==
    [n \in {m \in DOMAIN catalog : a \in catalog[m].agents} |-> catalog[n]]

\* MCP's listing shows a destructive hint in place of the risk and no approval mode.
ListTools(a, shape) ==
    /\ \/ /\ shape = "exact" /\ Answer("listed", NoPlan)
          /\ listings' = [listings EXCEPT ![a] =
                @ \cup {[digest |-> catalog, tools |-> ExposedTo(a)]}]
       \/ shape = "refused" /\ Answer("refused", NoPlan) /\ UNCHANGED listings
       \/ shape = "raising" /\ Answer("raised", NoPlan) /\ UNCHANGED listings
    /\ UNCHANGED catalog

\* SourceActionPlan.__post_init__().
Plannable(risk, approval) == risk = "high" => approval = "human"

\* Broken variant: the digest is not compared with the catalog in force.
OffersUnpinned(a, name, pinned) ==
    name \in DOMAIN catalog /\ a \in catalog[name].agents

\* to_action_plan(): digest, name and scope.
Offers(a, name, pinned) ==
    pinned = catalog /\ name \in DOMAIN catalog /\ a \in catalog[name].agents

\* A call through one of the doors over the catalog; header is HTTP's name of the tool.
CallTool(a, door, name, header, pinned, shape) ==
    LET passes == Offers(a, name, pinned) /\ (door = "http" => header = name)
        tool == catalog[name]
    IN /\ \/ /\ passes /\ shape = "exact" /\ Plannable(tool.risk, tool.approval)
             /\ Answer("plan", {[agent |-> a, door |-> door, name |-> name,
                    pinned |-> pinned, effect |-> tool.effect, risk |-> tool.risk,
                    approval |-> tool.approval]})
          \/ /\ \/ ~ passes
                \/ shape = "refused"
                \/ passes /\ shape = "exact" /\ ~ Plannable(tool.risk, tool.approval)
             /\ Answer("refused", NoPlan)
          \/ shape = "raising" /\ Answer("raised", NoPlan)
       /\ UNCHANGED <<catalog, listings>>

\* The delegation adapter: the delegating agent speaks for itself, and asks for what the
\* agent card exposes.
Delegates(a, claimed, effect) == claimed = a /\ effect \in Exposed

\* A2A's SendMessage: the envelope names the delegating agent, the effect, and the risk
\* and the approval mode, which no catalog is asked about.
SendMessage(a, claimed, effect, risk, approval, shape) ==
    LET passes == Delegates(a, claimed, effect) IN
    /\ \/ /\ passes /\ shape = "exact" /\ Plannable(risk, approval)
          /\ Answer("plan", {[agent |-> a, door |-> "a2a", effect |-> effect,
                 risk |-> risk, approval |-> approval]})
       \/ /\ ~ (passes /\ Plannable(risk, approval)) \/ shape = "refused"
          /\ Answer("refused", NoPlan)
       \/ passes /\ shape = "raising" /\ Answer("raised", NoPlan)
    /\ UNCHANGED <<catalog, listings>>

NorthNext ==
    \/ \E c \in Catalogs : Redeploy(c)
    \/ \E a \in Callers, s \in Shapes : ListTools(a, s)
    \/ \E a \in Callers, d \in Doors, n \in ToolNames, c \in Catalogs, s \in Shapes :
           \E h \in (IF d = "http" THEN ToolNames ELSE {n}) : CallTool(a, d, n, h, c, s)
    \/ \E a, b \in Callers, e \in Effects, r \in Risks, m \in Approvals, s \in Shapes :
           SendMessage(a, b, e, r, m, s)

NorthSpec == NorthInit /\ [][NorthNext]_northvars

-----------------------------------------------------------------------------
(* Properties *)

\* Listing and call are separate requests with redeployments between them, and no server
\* remembers the first: still, a plan made under the digest of a listing does what that
\* listing showed its agent, at the risk and with the approval it showed (to_action_plan(),
\* _call_tool(), dispatch_http()).  Of A2A this says only that the effect is one that its
\* adapter exposes: its risk and approval are the requester's, whatever a catalog lists.
PlansAreAsListed ==
    \A p \in reply.plan :
        IF p.door = "a2a" THEN p.effect \in Exposed
        ELSE \A l \in listings[p.agent] : l.digest = p.pinned =>
                 /\ p.name \in DOMAIN l.tools
                 /\ l.tools[p.name].effect = p.effect
                 /\ l.tools[p.name].risk = p.risk /\ l.tools[p.name].approval = p.approval
=============================================================================
