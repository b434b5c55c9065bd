--------------------------- MODULE WorkerConnector --------------------------
(***************************************************************************)
(* A connector whose operations are messages to a worker                   *)
(* (worker_connector.py), behind the egress guard of a deployment profile  *)
(* (deployment.py).  The worker's reply is any list of items, each well    *)
(* formed or not; execute() hands its batches on one by one, the other     *)
(* operations return them together.                                        *)
(*                                                                         *)
(* Abstractions: of a host, whether it is loopback, one label or has dots; *)
(* of an endpoint, its host and whether its URL is absolute HTTP(S)        *)
(* without credentials and fragment; a profile's flags for DNS, telemetry  *)
(* and the mirror do not reach the guard and are left out.  A reply        *)
(* without its list is one whose first item is malformed.  Deadlines, the  *)
(* frames and the worker process are in WorkerClient.                      *)
(***************************************************************************)
EXTENDS Naturals, Sequences

CONSTANTS
    Hosts,         \* hosts that endpoints name and profiles allow
    HostKind,      \* of each: "loopback", "label" or "dotted"
    SourceIds, Own,  \* sources that requests name; the connector's own
    Replies        \* replies of the worker: sequences of "good" and "bad" items

ASSUME WorkerConnectorAssumption == Own \in SourceIds /\ Replies \subseteq Seq({"good", "bad"})

Modes == {"connected", "self-hosted", "air-gapped", "local-laptop"}
Profiles == [mode : Modes, allowed : SUBSET Hosts]
Endpoints == [host : Hosts, plain : BOOLEAN]

\* _check_asset_source() and the comparisons of execute() and search().
Checked == {"describe", "query", "search"}
Unchecked == {"health", "discover", "mutate", "checkpoint", "explain"}
Listing == {"describe", "search", "discover"}
Operations == Checked \cup Unchecked \cup {"subscribe"}

VARIABLES
    profile,    \* of the deployment
    endpoint,   \* none or one, with the guard
    call,       \* none or the call under way: operation, source, reply
    handed,     \* items handed to the caller
    outcome,    \* "none", "returned", "raised" or "denied"
    sent        \* the last message invoked of the worker, if any (history)

workervars == <<profile, endpoint, call, handed, outcome, sent>>

\* _is_local(): loopback or a single label.
IsLocal(h) == HostKind[h] # "dotted"

\* DeploymentProfile.__post_init__().
ValidProfile(p) ==
    p.mode = "local-laptop" => \A h \in p.allowed : IsLocal(h)

\* EgressGuard.authorize().
Authorized(e) ==
    /\ e.plain
    /\ \/ e.host \in profile.allowed
       \/ profile.mode = "connected"
       \/ HostKind[e.host] = "loopback"

ConnectorStarts(p, e) ==
    /\ profile = p /\ endpoint = e
    /\ call = <<>> /\ handed = <<>> /\ outcome = "none" /\ sent = {}

ConnectorInit ==
    \E p \in {q \in Profiles : ValidProfile(q)}, e \in {{}} \cup {{x} : x \in Endpoints} :
        ConnectorStarts(p, e)

\* Each operation asks the guard first; some then compare the source of the request.
Refuse(o, s) ==
    /\ outcome' = IF o # "subscribe" /\ \E e \in endpoint : ~ Authorized(e)
                  THEN "denied" ELSE "raised"
    /\ \/ o = "subscribe"
       \/ \E e \in endpoint : ~ Authorized(e)
       \/ o \in Checked /\ s # Own
    /\ call' = <<>> /\ handed' = <<>> /\ UNCHANGED <<profile, endpoint, sent>>

Invoke(o, s, r) ==
    /\ o # "subscribe" /\ \A e \in endpoint : Authorized(e)
    /\ o \in Checked => s = Own
    /\ call' = <<[operation |-> o, source |-> s, reply |-> r]>>
    /\ sent' = {[operation |-> o, source |-> s]}
    /\ handed' = <<>> /\ outcome' = "none"
    /\ UNCHANGED <<profile, endpoint>>

Left == Len(call[1].reply) - Len(handed)
Upcoming == call[1].reply[Len(handed) + 1]
Settle(o) == outcome' = o /\ UNCHANGED <<profile, endpoint, call, sent>>

\* The next batch of a query is parsed and handed on.
Yield ==
    /\ call # <<>> /\ outcome = "none" /\ call[1].operation = "query"
    /\ Left > 0 /\ Upcoming = "good"
    /\ handed' = Append(handed, Upcoming) /\ Settle("none")

\* Broken variant: the caller of a query is told that it ended when an item is malformed.
EndQueryQuietly ==
    /\ call # <<>> /\ outcome = "none" /\ call[1].operation = "query"
    /\ Left > 0 => Upcoming = "bad"
    /\ Settle("returned") /\ UNCHANGED handed

\* The reply is used up, or an item is malformed: the query raises, after the batches
\* that came before it.
EndQuery ==
    /\ call # <<>> /\ outcome = "none" /\ call[1].operation = "query"
    /\ Left > 0 => Upcoming = "bad"
    /\ Settle(IF Left = 0 THEN "returned" ELSE "raised") /\ UNCHANGED handed

\* Operations that list items parse all of them before they return any; the others pass
\* the worker's result on.
EndOther ==
    /\ call # <<>> /\ outcome = "none" /\ call[1].operation # "query"
    /\ IF call[1].operation \in Listing => \A i \in DOMAIN call[1].reply : call[1].reply[i] = "good"
       THEN handed' = call[1].reply /\ Settle("returned")
       ELSE Settle("raised") /\ UNCHANGED handed

ConnectorNext ==
    \/ \E o \in Operations, s \in SourceIds :
          /\ call = <<>> \/ outcome # "none"
          /\ Refuse(o, s) \/ \E r \in Replies : Invoke(o, s, r)
    \/ Yield
    \/ EndQuery
    \/ EndOther

ConnectorSpec == ConnectorInit /\ [][ConnectorNext]_workervars

-----------------------------------------------------------------------------
(* Properties *)

\* A worker is asked for an endpoint's data only when the profile lets it: none with dots
\* on a laptop, only allowed or loopback hosts in an air gap or a self-hosted deployment
\* (DeploymentProfile, authorize(), _authorize_endpoint()).  Describe, query and search
\* messages are only for the connector's own source.
WorkersStayInside ==
    sent # {} =>
        /\ \A e \in endpoint :
              /\ e.plain
              /\ profile.mode = "local-laptop" => HostKind[e.host] # "dotted"
              /\ profile.mode \in {"air-gapped", "self-hosted"} =>
                    e.host \in profile.allowed \/ HostKind[e.host] = "loopback"
        /\ \A m \in sent : m.operation \in Checked => m.source = Own

\* A caller is told of a normal end only when it has all items of the worker's reply, and
\* those of lists and batches are well formed; a query that raised had handed on every batch before the
\* malformed one, the other operations none (execute(), discover(), search()).
RepliesAreWhole ==
    call # <<>> =>
        /\ outcome = "returned" => handed = call[1].reply
        /\ outcome = "raised" =>
              IF call[1].operation = "query" THEN Upcoming = "bad" ELSE handed = <<>>
        /\ call[1].operation \in Listing \cup {"query"} =>
              \A i \in DOMAIN handed : handed[i] = "good"

\* Only workers that the deployment may reach are asked, and no answer of theirs, however
\* malformed, passes for a whole one (WorkerBackedConnector).
WorkersAreContained == WorkersStayInside /\ RepliesAreWhole
=============================================================================
