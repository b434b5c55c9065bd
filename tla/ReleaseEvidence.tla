--------------------------- MODULE ReleaseEvidence --------------------------
(***************************************************************************)
(* The acceptance campaign of a release set (acceptance.py): evidence is   *)
(* gathered while components are released anew, the campaign is written    *)
(* as a document, the document may be edited, and the command line parses  *)
(* it and recomputes what it declares (cli.py, verify-acceptance).         *)
(*                                                                         *)
(* Abstractions: of the stages, one that needs an artifact and one that    *)
(* does not; a release is its revision and the digest of its artifact, if  *)
(* one is given; identities, times, references, images and the cost        *)
(* boundary are well formed.                                               *)
(***************************************************************************)
EXTENDS Naturals, FiniteSets

CONSTANTS
    Components,     \* REQUIRED_ACCEPTANCE_COMPONENTS
    SourceShapes,   \* LiveSourceShape
    Revisions,      \* Git revisions
    Artifacts,      \* digests of artifacts; a revision may be built more than once
    MaxEdits

ASSUME EvidenceAssumption == MaxEdits \in Nat /\ "none" \notin Artifacts

Stages == {"source", "runtime"}
Digested == {"runtime"}                \* ARTIFACT_REQUIRED_STAGES
Results == {"passed", "failed"}
Releases == [revision : Revisions, digest : Artifacts \cup {"none"}]

VARIABLES
    campaign,   \* release, verified shapes and evidence
    paper,      \* the document: nothing, or a campaign with its declarations
    edits,      \* how often it was edited
    reported     \* of the command line: nothing, or valid and accepted

releasevars == <<campaign, paper, edits, reported>>

ReleaseTypeOK ==
    /\ campaign.release \in [Components -> Releases]
    /\ campaign.verified \subseteq SourceShapes
    /\ \A e \in campaign.evidence : e.component \in Components /\ e.stage \in Stages
    /\ Cardinality(paper) <= 1 /\ Cardinality(reported) <= 1 /\ edits \in 0..MaxEdits

ReleaseInit ==
    /\ \E r \in Revisions :
          campaign = [release |-> [c \in Components |-> [revision |-> r, digest |-> "none"]],
                      verified |-> {}, evidence |-> {}]
    /\ paper = {} /\ edits = 0 /\ reported = {}

\* Broken variant: evidence of other revisions stays in the campaign.
MatchesAnyRevision(e, x) == e.release.digest = x.release[e.component].digest

\* Each piece of evidence is of the revision and artifact that the release set names.
Matches(e, x) == e.release = x.release[e.component]

\* StageEvidence.__post_init__() and LiveAcceptanceCampaign.__post_init__().
WellFormedCampaign(x) ==
    /\ \A d, e \in x.evidence : d.component = e.component /\ d.stage = e.stage => d = e
    /\ \A e \in x.evidence : Matches(e, x) /\ (e.stage \in Digested => e.release.digest # "none")

Becomes(x) ==
    /\ paper = {} /\ x # campaign /\ WellFormedCampaign(x)
    /\ campaign' = x /\ UNCHANGED <<paper, edits, reported>>

\* A component is released anew or its artifact is published: the campaign is refused
\* while it holds evidence of the former release.
Release(c, r) == Becomes([campaign EXCEPT !.release[c] = r])
DropEvidence(e) == Becomes([campaign EXCEPT !.evidence = @ \ {e}])
ObserveStage(c, s, result) ==
    Becomes([campaign EXCEPT !.evidence = @ \cup
                {[component |-> c, stage |-> s, result |-> result,
                  release |-> campaign.release[c]]}])
VerifyShape(h) == Becomes([campaign EXCEPT !.verified = @ \cup {h}])

StandingResults(x, c, s) == {e.result : e \in {d \in x.evidence : d.component = c /\ d.stage = s}}

\* blockers: missing digests, shapes not verified, stages that failed or are missing.
Blockers(x) ==
    {<<c, "digest">> : c \in {d \in Components : x.release[d].digest = "none"}}
    \cup {<<h, "verification">> : h \in SourceShapes \ x.verified}
    \cup {b \in {<<c, s, StandingResults(x, c, s)>> : c \in Components, s \in Stages} :
              b[3] # {"passed"}}

Accepts(x) == Blockers(x) = {}

\* to_contract(): the campaign and what it declares of itself.
WritePaper ==
    /\ paper = {}
    /\ paper' = {[campaign |-> campaign, accepted |-> Accepts(campaign),
                  blockers |-> Blockers(campaign), digest |-> campaign.release]}
    /\ UNCHANGED <<campaign, edits, reported>>

\* A declaration, a result or a release is edited in the document.
Edits(p) ==
    {[p EXCEPT !.accepted = ~ @], [p EXCEPT !.blockers = {}]}
    \cup {[p EXCEPT !.campaign.evidence = (@ \ {e}) \cup {[e EXCEPT !.result = "passed"]}] :
              e \in p.campaign.evidence}
    \cup {[p EXCEPT !.campaign.release[c] = r] : c \in Components, r \in Releases}

EditPaper ==
    /\ reported = {} /\ edits < MaxEdits
    /\ \E p \in paper : \E d \in Edits(p) \ {p} : paper' = {d}
    /\ edits' = edits + 1 /\ UNCHANGED <<campaign, reported>>

\* from_contract(): declarations are recomputed.
Parses(p) ==
    /\ WellFormedCampaign(p.campaign)
    /\ p.digest = p.campaign.release
    /\ p.accepted = Accepts(p.campaign)
    /\ p.blockers = Blockers(p.campaign)

\* The command line reports what the parsed campaign says; a document that does not
\* parse, or that the schema refuses, is neither valid nor accepted.
VerifyAcceptance ==
    /\ \E p \in paper, schema \in BOOLEAN :
          reported' = {[valid |-> schema /\ Parses(p),
                       accepted |-> schema /\ Parses(p) /\ Accepts(p.campaign)]}
    /\ UNCHANGED <<campaign, paper, edits>>

ReleaseNext ==
    \/ \E c \in Components, r \in Releases : Release(c, r)
    \/ \E e \in campaign.evidence : DropEvidence(e)
    \/ \E c \in Components, s \in Stages, r \in Results : ObserveStage(c, s, r)
    \/ \E h \in SourceShapes : VerifyShape(h)
    \/ WritePaper
    \/ EditPaper
    \/ VerifyAcceptance

ReleaseSpec == ReleaseInit /\ [][ReleaseNext]_releasevars

-----------------------------------------------------------------------------
(* Properties *)

\* Through releases made anew and a document edited on its way, acceptance is reported
\* only of a document whose own declarations agree with it and in which every component
\* passed every stage at the very revision and artifact of the release set that the
\* document's digest names (from_contract(), blockers, verify-acceptance).
AcceptedIsEvidenced ==
    \A v \in reported, p \in paper : v.accepted =>
        /\ p.accepted /\ p.blockers = {}
        /\ p.campaign.verified = SourceShapes
        /\ \A c \in Components, s \in Stages :
              [component |-> c, stage |-> s, result |-> "passed",
               release |-> p.digest[c]] \in p.campaign.evidence
=============================================================================
