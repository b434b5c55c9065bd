--------------------------- MODULE SourceRouting ---------------------------
(***************************************************************************)
(* Which sources may answer a request: human-reviewed mappings of concepts *)
(* to assets and their quarantine on schema drift (governance.py), the     *)
(* freshness of assets (freshness.py), the router over both (routing.py)   *)
(* and the answer envelope (context.py).                                   *)
(*                                                                         *)
(* Schemas, observations and connectors change while a request is routed,  *)
(* executed and answered; every caller chooses the times it passes, within *)
(* the checks the code makes.                                              *)
(*                                                                         *)
(* Abstractions: an asset stands for its source; confidences are naturals; *)
(* a maximum age of 0 is one shorter than an instant;                      *)
(* what a mapping maps is a constant; the score and the lineage of a route *)
(* follow from its mappings; whoever builds the envelope states the        *)
(* coverage and the lineage; of an answer is kept which of the sources it  *)
(* covers its lineage does not cite.                                       *)
(***************************************************************************)
EXTENDS Integers, FiniteSets

CONSTANTS
    Concepts, Assets, Digests,
    Mappings,       \* mapping identities, in the order the router prefers them
    Maps,           \* the content of each mapping: concept, asset, confidence, digest
    Requests,       \* route requests
    LastInstant     \* bound: the clock stops here

Instants == 0..LastInstant
BreachActions == {"exclude", "degrade", "refuse"}
ReviewStates == {"none", "proposed", "approved", "rejected"}
RouteStatuses == {"selected", "refused", "escalation_required"}

\* SemanticMappingCandidate, FreshnessObservation, RouteRequest and ContextEnvelope, with
\* the checks of their constructors.
MappingContents == [concept : Concepts, asset : Assets, confidence : Nat, digest : Digests]
Observations == {o \in [at : Instants, event : Instants] : o.event <= o.at}
ValidRequest(q) ==
    /\ q.concepts # {} /\ q.concepts \subseteq Concepts
    /\ q.maxSources \in Nat \ {0} /\ q.minimum \in Nat /\ q.delta \in Nat
    /\ q.maxAge \in Nat /\ q.onBreach \in BreachActions
Envelopes == [outcome : {"answer", "refusal", "escalation"}, uncited : SUBSET Assets]

\* MappingReview: a review decides.
Reviews == {"approved", "rejected"}

ASSUME RoutingAssumption ==
    /\ Mappings \subseteq Nat /\ IsFiniteSet(Mappings)
    /\ Maps \in [Mappings -> MappingContents]
    /\ LastInstant \in Nat
    /\ \A q \in Requests : ValidRequest(q)

VARIABLES
    clock,        \* the wall clock
    schema,       \* the digest of each asset's schema at its source
    review,       \* _candidates and _reviews: what is decided about each mapping
    drift,        \* _drift: quarantined mappings
    observed,     \* FreshnessRegistry._observations
    decision,     \* the decision for the request in hand
    answer,       \* the envelope built for it
    seen          \* digests that drift detection met since a mapping's approval (history)

governed == <<schema, review, drift, seen>>
routed == <<decision, answer>>
routevars == <<clock, governed, observed, routed>>

NoDecision == [status |-> "none", request |-> "none", routes |-> {},
               degraded |-> {}]
NoAnswer == [outcome |-> "none", uncited |-> {}]
Unseen == [at |-> -1, event |-> -1]

RoutingTypeOK ==
    /\ clock \in Instants
    /\ schema \in [Assets -> Digests]
    /\ review \in [Mappings -> ReviewStates]
    /\ drift \subseteq Mappings
    /\ observed \in [Assets -> {Unseen} \cup Observations]
    /\ decision.status \in RouteStatuses \cup {"none"}
    /\ answer \in Envelopes \cup {NoAnswer}
    /\ seen \in [Mappings -> SUBSET Digests]

RoutingInit ==
    /\ clock = 0
    /\ \E d \in Digests : schema = [a \in Assets |-> d]
    /\ review = [m \in Mappings |-> "none"]
    /\ drift = {}
    /\ observed = [a \in Assets |-> Unseen]
    /\ decision = NoDecision
    /\ answer = NoAnswer
    /\ seen = [m \in Mappings |-> {}]

-----------------------------------------------------------------------------
(* SemanticMappingRegistry *)

\* approved()
Routable == {m \in Mappings : review[m] = "approved" /\ m \notin drift}

ProposeMapping(m) ==
    /\ review[m] = "none"
    /\ review' = [review EXCEPT ![m] = "proposed"]
    /\ UNCHANGED <<clock, schema, drift, seen, observed, routed>>

\* By a human, once, not before it was proposed.
ReviewMapping(m) ==
    /\ review[m] = "proposed"
    /\ \E s \in Reviews : review' = [review EXCEPT ![m] = s]
    /\ UNCHANGED <<clock, schema, drift, seen, observed, routed>>

\* The source changes the schema of an asset.
ChangeSchema(a) ==
    /\ \E d \in Digests \ {schema[a]} : schema' = [schema EXCEPT ![a] = d]
    /\ UNCHANGED <<clock, review, drift, seen, observed, routed>>

\* MappingDrift
Drifted(m) == Maps[m].digest # schema[Maps[m].asset]

ApprovedOf(a) == {m \in Mappings : review[m] = "approved" /\ Maps[m].asset = a}

\* Broken variant: a mapping that agrees with the schema again is released.
DriftReleases(a) ==
    /\ drift' = {m \in drift : Maps[m].asset # a}
                    \cup {m \in ApprovedOf(a) : Drifted(m)}
    /\ seen' = [m \in Mappings |-> IF m \in ApprovedOf(a) THEN seen[m] \cup {schema[a]}
                                                          ELSE seen[m]]
    /\ UNCHANGED <<clock, schema, review, observed, routed>>

DetectDrift(a) ==
    /\ drift' = drift \cup {m \in ApprovedOf(a) : Drifted(m)}
    /\ seen' = [m \in Mappings |-> IF m \in ApprovedOf(a) THEN seen[m] \cup {schema[a]}
                                                          ELSE seen[m]]
    /\ UNCHANGED <<clock, schema, review, observed, routed>>

-----------------------------------------------------------------------------
(* FreshnessRegistry *)

Observe(a) ==
    /\ \E o \in Observations :
          /\ o.at >= observed[a].at
          /\ observed' = [observed EXCEPT ![a] = o]
    /\ UNCHANGED <<clock, governed, routed>>

Age(a, at) == at - observed[a].event

Fresh(a, maxAge, at) == observed[a] # Unseen /\ Age(a, at) \in 0..maxAge

-----------------------------------------------------------------------------
(* SemanticSourceRouter.route() *)

CandidatesFor(q, c) ==
    {m \in Routable : Maps[m].concept = c /\ Maps[m].confidence >= q.minimum}

FreshFor(q, m) == Fresh(Maps[m].asset, q.maxAge, clock)

Eligible(q, c) ==
    {m \in CandidatesFor(q, c) : FreshFor(q, m) \/ q.onBreach = "degrade"}

\* By falling confidence, then by identity.
Precedes(m, n) == \/ Maps[m].confidence > Maps[n].confidence
                  \/ Maps[m].confidence = Maps[n].confidence /\ m < n

Winner(q, c) == CHOOSE m \in Eligible(q, c) : \A n \in Eligible(q, c) \ {m} : Precedes(m, n)

\* The second best is the closest to the best.
Ambiguous(q) == {c \in q.concepts : \E m, n \in Eligible(q, c) :
                    /\ m # n /\ m = Winner(q, c)
                    /\ Maps[m].confidence - Maps[n].confidence <= q.delta}

Uncovered(q) == {c \in q.concepts : Eligible(q, c) = {}}
Winners(q) == {Winner(q, c) : c \in q.concepts \ (Uncovered(q) \cup Ambiguous(q))}
Selected(q) == {Maps[m].asset : m \in Winners(q)}

RouteStatus(q) ==
    IF Ambiguous(q) # {} THEN "escalation_required"
    ELSE IF Uncovered(q) # {} \/ Cardinality(Selected(q)) > q.maxSources THEN "refused"
    ELSE "selected"

Route(q) ==
    /\ decision' = [status |-> RouteStatus(q), request |-> q,
                    routes |-> IF RouteStatus(q) = "selected" THEN Winners(q) ELSE {},
                    degraded |-> IF RouteStatus(q) = "selected"
                                 THEN {m \in Winners(q) : ~ FreshFor(q, m)} ELSE {}]
    /\ answer' = NoAnswer
    /\ UNCHANGED <<clock, governed, observed>>

-----------------------------------------------------------------------------
(* ContextEnvelope *)

\* CoverageStatement.is_complete: every source included is complete, none is excluded, and
\* they are the expected ones, if any are said to be expected.
CompleteCoverage(expected, covered) ==
    covered # {} /\ (expected # {} => covered = expected)

\* An answer asks for a complete route, complete coverage and some lineage; it compares
\* neither the sources covered nor those cited with the sources of the route.
Answerable(covered, cited) ==
    /\ decision.status = "selected" /\ cited # {}
    /\ \E expected \in SUBSET Assets : CompleteCoverage(expected, covered)

ConcludeAnswer ==
    /\ answer = NoAnswer
    /\ \E covered, cited \in SUBSET Assets :
          /\ Answerable(covered, cited)
          /\ answer' = [outcome |-> "answer", uncited |-> covered \ cited]
    /\ UNCHANGED <<clock, governed, observed, decision>>

\* A refusal or an escalation, as the router decided.
ConcludeWithout ==
    /\ answer = NoAnswer
    /\ \/ decision.status = "refused" /\ answer' = [NoAnswer EXCEPT !.outcome = "refusal"]
       \/ /\ decision.status = "escalation_required"
          /\ answer' = [NoAnswer EXCEPT !.outcome = "escalation"]
    /\ UNCHANGED <<clock, governed, observed, decision>>

RoutingTick == clock < LastInstant /\ clock' = clock + 1
               /\ UNCHANGED <<governed, observed, routed>>

RoutingNext ==
    \/ RoutingTick
    \/ \E m \in Mappings : ProposeMapping(m) \/ ReviewMapping(m)
    \/ \E a \in Assets : ChangeSchema(a) \/ DetectDrift(a) \/ Observe(a)
    \/ \E q \in Requests : Route(q)
    \/ ConcludeAnswer \/ ConcludeWithout

RoutingSpec == RoutingInit /\ [][RoutingNext]_routevars

-----------------------------------------------------------------------------
(* Properties *)

\* A route uses only mappings that a human approved and that agreed with every schema
\* drift detection has met since (review(), detect_drift(), approved()); what drift
\* detection met before the approval does not count, nor does what it has not looked at.
\* Unless a degradation is marked, which an asset never observed gets too, it uses only
\* assets that were observed, no older than the request allows and not in the future; and
\* when it is selected it covers every concept, by a mapping that no other one the request
\* admits comes near (route(): ambiguity is escalated).
RoutesAreGoverned ==
    [][decision' # decision =>
          /\ \A m \in decision'.routes :
                /\ review[m] = "approved" /\ seen[m] \subseteq {Maps[m].digest}
                /\ m \notin decision'.degraded =>
                      Fresh(Maps[m].asset, decision'.request.maxAge, clock)
          /\ decision'.status = "selected" =>
                \A c \in decision'.request.concepts :
                    \E m \in decision'.routes :
                        /\ Maps[m].concept = c
                        /\ \A n \in Eligible(decision'.request, c) \ {m} :
                              Maps[m].confidence > Maps[n].confidence + decision'.request.delta
              ]_routevars
=============================================================================
