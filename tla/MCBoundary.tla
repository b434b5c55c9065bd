---------------------------- MODULE MCBoundary -----------------------------
(***************************************************************************)
(* Instances of the modules about the harness's edges, for TLC.  They      *)
(* share no state: in each behaviour one of them moves.                    *)
(***************************************************************************)
EXTENDS LiveSource, ChangeStream, ServicePages, QueryAccess, LabAccess,
        Northbound, Approvals, AuditLedger, SignedPackages, Decoding, ReleaseEvidence,
        Promotion, PackFactory, WorkerConnector, LocalLab, HarnessImage

CONSTANTS o1, o2, k1, k2, c1, c2, c3, c4,   \* live source
          t1, t2, f, g, l1,                 \* query access
          r1, r2, m1, m2,                   \* lab access: agents and customers
          e1, e2, n1, n2,               \* northbound: effects and tool names
          h1, h2, p1, p2, b1, b2,           \* approvals and the audit chain
          q1, q2, q3, s1, s3, j1, j2,   \* packages
          x1, x2, x3, y1, y2                 \* releases, packs, worker connectors

CONSTANT Sides      \* the modules that a run looks at

VARIABLE side

\* A request sent twice, one that uses its key for another order, and one that
\* competes with it for its order.
FourAsks ==
    LET repair == [key |-> k1, order |-> o1, value |-> "repair", version |-> 1,
                   expected |-> "open"]
    IN [c \in Writers |->
          CASE c \in {c1, c2} -> repair
            [] c = c3 -> [repair EXCEPT !.order = o2]
            [] c = c4 -> [repair EXCEPT !.key = k2, !.value = "replace"]]

\* Three entries of at most two events, in every order, with or without serial numbers.
SomeLogs ==
    {[i \in 1..3 |-> [sequence |-> p[i], id |-> d[p[i]], serial |-> s[p[i]]]] :
        p \in {q \in [1..3 -> 1..3] : \A i, j \in 1..3 : q[i] = q[j] => i = j},
        d \in {<<"e1", "e2", "e1">>, <<"e1", "e1", "e2">>, <<"e2", "e1", "e1">>},
        s \in [1..3 -> BOOLEAN]}

SomeCollections == {<<>>} \cup UNION {[1..n -> {o1, o2}] : n \in {1, 3, 4}}

ALog == [i \in 1..3 |-> [sequence |-> i, id |-> <<"e1", "e1", "e2">>[i], serial |-> TRUE]]
APage == <<"rest", <<>>, "all", 1, 1>>

\* Two tables, joined or not; a grant for both and narrower ones.
LinkEnds == [l \in Links |-> {t1, t2}]
SomeColumns == t1 :> {f, g} @@ t2 :> {f}
AGrant == [fields |-> (t1 :> {f, g} @@ t2 :> {f, g}), links |-> {l1}]
SomeGrants == {AGrant, [fields |-> (t1 :> {f} @@ t2 :> {f, g}), links |-> {l1}],
               [fields |-> (t1 :> {f, g}), links |-> {}]}
SomeIntents ==
    [assets : {{t1}, {t1, t2}}, select : Scopes({{}, {f}, {f, g}}), where : Scopes({{f}, {g}}),
     links : SUBSET Links, plain : {{}, {g}}, keys : BOOLEAN]

RoleFunction == [a \in Agents |-> IF a = r1 THEN "service" ELSE "quality"]
CustomerFunction == [a \in Agents |-> IF a = r1 THEN {m1} ELSE {}]
SomeAcls == {{"service"}, {"service", "quality"}, {"quality"}}

\* Two tools for two agents; one that changed its risk and who may use it; one that its
\* risk makes unusable.
Tool(e, r, m, a) == [effect |-> e, risk |-> r, approval |-> m, agents |-> a]
ACatalog == n1 :> Tool(e1, "low", "none", {r1, r2}) @@ n2 :> Tool(e2, "high", "human", {r1})
SomeCatalogs ==
    {ACatalog,
     n1 :> Tool(e1, "medium", "human", {r2}),
     n1 :> Tool(e2, "high", "none", {r1})}

\* A file alone; one too large; one along with a file under a reserved path.
SomePayloads == {q1 :> s1, q1 :> s3, q1 :> s1 @@ q3 :> s1}

ADocument == <<"text">>

\* Three datasets, in one order: references range over all graphs.
AloneDatasets == PackStarts([d \in Datasets |-> {}])
ThreeDatasets == <<x1, x2, x3>>

\* A loopback host, a single label and a host with dots.
HostKinds == x1 :> "loopback" @@ x2 :> "label" @@ x3 :> "dotted"
SomeReplies == {<<>>, <<"bad">>, <<"good", "good">>, <<"good", "bad">>}
AConnector == ConnectorStarts([mode |-> "connected", allowed |-> {}], {})

\* The parts that do not move keep one instance.
BoundaryInit ==
    /\ side \in Sides
    /\ SourceInit
    /\ StreamInit /\ (side = "stream" \/ log = ALog)
    /\ PagesInit /\ (side = "pages" \/ pageinput = APage)
    /\ AccessInit /\ (side = "access" \/ {grant, constraints} = {AGrant})
    /\ LabInit
    /\ NorthInit /\ (side = "north" \/ catalog = ACatalog)
    /\ ApprovalsInit
    /\ AuditInit
    /\ PackagesInit
    /\ DecodeInit /\ (side = "decode" \/ <<document, openEnded>> = <<ADocument, FALSE>>)
    /\ ReleaseInit
    /\ IF side = "promotion" THEN PromotionInit ELSE PromotionStarts(<<>>)
    /\ IF side = "pack" THEN PackInit ELSE AloneDatasets
    /\ IF side = "worker" THEN ConnectorInit ELSE AConnector
    /\ LocalInit /\ (side = "laptop" \/ files = s1)
    /\ HarnessInit /\ (side = "harness" \/ head = j1)

OthersStay ==
    /\ UNCHANGED side
    /\ side # "live" => UNCHANGED sourcevars
    /\ side # "stream" => UNCHANGED streamvars
    /\ side # "pages" => UNCHANGED pagevars
    /\ side # "access" => UNCHANGED accessvars
    /\ side # "lab" => UNCHANGED labvars
    /\ side # "north" => UNCHANGED northvars
    /\ side # "approvals" => UNCHANGED approvalvars
    /\ side # "audit" => UNCHANGED auditvars
    /\ side # "packages" => UNCHANGED packagevars
    /\ side # "decode" => UNCHANGED decodevars
    /\ side # "release" => UNCHANGED releasevars
    /\ side # "promotion" => UNCHANGED promotionvars
    /\ side # "pack" => UNCHANGED packvars
    /\ side # "worker" => UNCHANGED workervars
    /\ side # "laptop" => UNCHANGED localvars
    /\ side # "harness" => UNCHANGED harnessvars

BoundaryNext ==
    \/ side = "live" /\ SourceNext /\ OthersStay
    \/ side = "stream" /\ StreamNext /\ OthersStay
    \/ side = "pages" /\ PagesNext /\ OthersStay
    \/ side = "access" /\ AccessNext /\ OthersStay
    \/ side = "lab" /\ LabNext /\ OthersStay
    \/ side = "north" /\ NorthNext /\ OthersStay
    \/ side = "approvals" /\ ApprovalsNext /\ OthersStay
    \/ side = "audit" /\ AuditNext /\ OthersStay
    \/ side = "packages" /\ PackagesNext /\ OthersStay
    \/ side = "decode" /\ DecodeNext /\ OthersStay
    \/ side = "release" /\ ReleaseNext /\ OthersStay
    \/ side = "promotion" /\ PromotionNext /\ OthersStay
    \/ side = "pack" /\ PackNext /\ OthersStay
    \/ side = "worker" /\ ConnectorNext /\ OthersStay
    \/ side = "laptop" /\ LocalNext /\ OthersStay
    \/ side = "harness" /\ HarnessNext /\ OthersStay

boundaryvars == <<side, sourcevars, streamvars, pagevars, accessvars, labvars,
                  northvars, approvalvars, auditvars, packagevars, decodevars, releasevars,
                  promotionvars, packvars, workervars, localvars, harnessvars>>

BoundarySpec == BoundaryInit /\ [][BoundaryNext]_boundaryvars

-----------------------------------------------------------------------------
\* A reader of a stream, or of pages, is given what the source holds, each once and in
\* order, wherever it stopped and however the pages divide (lab.py, live/connectors.py).
ReadsAreWhole == NothingSkipped /\ RepeatsAreCrashes /\ PagesMakeTheCollection /\ EveryPageGains

\* A policy decides on a request, a reader interprets the same request again: what the
\* reader delivers is within what the decision was about, up to the selections, filters
\* and customers that the policy does not read and that each part names; and what the
\* planner compiles within constraints that the grant covers is not denied (policy.py,
\* planning.py, the labs' readers).
AccessIsScoped ==
    ReadsWithinGrant /\ PlansAreAdmitted /\ DocumentsMatchRoles /\ RowsMatchCustomers

\* What an installation accepts is what a publisher built, and is accepted when it is;
\* what a pack generates is whole (packaging.py, pack_factory.py).
PacksAreSound == AcceptedIsBuilt /\ BuiltIsAccepted /\ GenerationFollowsReferences

\* A release is accepted, and a lab promoted, on evidence of what is released and on its
\* last word (acceptance.py, promotion.py).
ReleasesAreEarned == AcceptedIsEvidenced /\ NoLaterFailureHidden

\* What the readiness certifier accepts has run and has been checked, however runs were
\* killed: service images are labelled with the sources read, the topic was seeded once, and
\* the harness image holds what was committed, up to the tag moved in between, a first
\* "down" that failed, and a checkout that changed during a build, as each part says
\* (live/local_lab.py, live/harness_runtime_lab.py, certify_phase7_readiness.py).
CertifiedIsReal ==
    CertifiedImagesRan /\ LockedFromSources /\ SeededOnce /\ CertifiedIsCommitted

\* What the variables of the composed modules may hold.
BoundaryTypeOK == SourceTypeOK /\ StreamTypeOK /\ PagesTypeOK /\ AccessTypeOK
                  /\ NorthTypeOK /\ ApprovalsTypeOK /\ AuditTypeOK /\ PackagesTypeOK /\
                  DecodeTypeOK /\ ReleaseTypeOK /\ PackTypeOK /\ LocalTypeOK
=============================================================================
