---------------------------- MODULE Coordinator ----------------------------
(***************************************************************************)
(* Cross-source execution (coordination.py, CrossSourceCoordinator) over   *)
(* the read gateway, with its coverage statement (coverage.py), and the    *)
(* bridge that publishes a result's evidence to two other planes           *)
(* (cross_plane.py, CrossPlaneEvidenceBridge).                             *)
(*                                                                         *)
(* The steps of a plan are reads of ReadGateway, one task each; gather()   *)
(* waits for all of them.  The evidence sinks are external: they may lose  *)
(* a call or its answer, and a caller may publish the same result again.   *)
(* Evidence stands for its digest, which its content determines.           *)
(***************************************************************************)
EXTENDS ReadGateway

CONSTANTS
    Runs,            \* calls of CrossSourceCoordinator.execute()
    StepsOf,         \* the reads of a run's plan
    Publications,    \* calls of CrossPlaneEvidenceBridge.publish()
    SDKBound         \* bound: evidence the SDK sink has taken

ASSUME RunsAssumption ==
    /\ \A q \in Runs : /\ StepsOf[q] \subseteq Collected /\ StepsOf[q] # {}
                       /\ \A r \in StepsOf[q] : Kind(r) # "discover" /\ Caller[r] = None
    /\ \A q, p \in Runs : q # p => StepsOf[q] \cap StepsOf[p] = {}

ASSUME PlanesAssumption == SDKBound \in Nat

VARIABLES
    phase,     \* where each run is
    coverage,  \* the coverage statement of each run
    stage,     \* where each publication is
    about,     \* the run whose result it publishes
    receipt,   \* the receipt that the SDK sink gave it
    sdk,       \* evidence that the SDK sink has stored; a receipt is an index
    adlc       \* evidence and receipt that the ADLC sink has stored

reads == vars
bridge == <<stage, about, receipt, sdk, adlc>>
all == <<reads, phase, coverage, bridge>>

NoStatement == [included |-> {}, excluded |-> {}, complete |-> FALSE]

ExpectedSources(q) == {Source(r) : r \in StepsOf[q]}

Evidence(q) == [request |-> q, coverage |-> coverage[q]]

CoordinatorTypeOK ==
    /\ TypeOK
    /\ phase \in [Runs -> {"planned", "running", "stated", "raised"}]
    /\ \A q \in Runs :
          coverage[q] \in [included : SUBSET ExpectedSources(q),
                           excluded : SUBSET ExpectedSources(q), complete : BOOLEAN]
    /\ stage \in [Publications -> {"ready", "sdk", "adlc", "published", "failed"}]
    /\ about \in [Publications -> Runs \cup {None}]
    /\ receipt \in [Publications -> 0..SDKBound]
    /\ Len(sdk) <= SDKBound

CoordinatorInit ==
    /\ Init
    /\ phase = [q \in Runs |-> "planned"]
    /\ coverage = [q \in Runs |-> NoStatement]
    /\ stage = [p \in Publications |-> "ready"]
    /\ about = [p \in Publications |-> None]
    /\ receipt = [p \in Publications |-> 0]
    /\ sdk = <<>>
    /\ adlc = {}

-----------------------------------------------------------------------------
(* execute() *)

Pass(q, next) == phase' = [phase EXCEPT ![q] = next]

\* The plan's request is the caller's; every step becomes a task.
Dispatch(q) ==
    /\ phase[q] = "planned"
    /\ Pass(q, "running")
    /\ UNCHANGED <<reads, coverage, bridge>>

\* A read makes a step: a step of a plan only while the plan is executed.
Read(r) ==
    /\ \A q \in Runs : r \in StepsOf[q] => phase[q] = "running"
    /\ Step(r)
    /\ UNCHANGED <<phase, coverage, bridge>>

RegisterConnector(c) == Register(c) /\ UNCHANGED <<phase, coverage, bridge>>

Gathered(q) == phase[q] = "running" /\ \A r \in StepsOf[q] : pc[r] = "ended"

Outcomes(q, value) == {r \in StepsOf[q] : result[r] = value}

\* A step that was cancelled is re-raised: there is no result.
Reraise(q) ==
    /\ Gathered(q)
    /\ Outcomes(q, "cancelled") # {}
    /\ Pass(q, "raised")
    /\ UNCHANGED <<reads, coverage, bridge>>

\* Sources with a step that delivered, and sources with a step that failed.
Completed(q) == {Source(r) : r \in Outcomes(q, "returned")}
Failures(q) == {Source(r) : r \in StepsOf[q] \ Outcomes(q, "returned")}

\* CoverageStatement.is_complete
IsComplete(q, included, excluded) ==
    included = ExpectedSources(q) /\ excluded = {} /\ included # {}

\* Broken variant: a source that delivered anything is covered.
IncludeCompleted(q) == Completed(q)

Included(q) == Completed(q) \ Failures(q)

Excluded(q) == Failures(q)

Conclude(q) ==
    /\ Gathered(q)
    /\ Outcomes(q, "cancelled") = {}
    /\ coverage' = [coverage EXCEPT ![q] =
           [included |-> Included(q), excluded |-> Excluded(q),
            complete |-> IsComplete(q, Included(q), Excluded(q))]]
    /\ Pass(q, "stated")
    /\ UNCHANGED <<reads, bridge>>

\* The caller of execute() is cancelled, and gather() cancels every step.
CancelRun(q) ==
    /\ phase[q] = "running"
    /\ Leave({r \in StepsOf[q] : pc[r] # "ended"}, "cancelled")
    /\ Pass(q, "raised")
    /\ UNCHANGED <<registry, coverage, bridge>>

-----------------------------------------------------------------------------
(* publish() *)

Move(p, next) == stage' = [stage EXCEPT ![p] = next]

\* Again, after a failure or on top of an earlier publication.
Publish(p, q) ==
    /\ stage[p] \in {"ready", "published", "failed"} /\ phase[q] = "stated"
    /\ Move(p, "sdk")
    /\ about' = [about EXCEPT ![p] = q]
    /\ receipt' = [receipt EXCEPT ![p] = 0]
    /\ UNCHANGED <<reads, phase, coverage, sdk, adlc>>

\* The SDK plane stores the evidence; its receipt may be lost on the way.
SDKStores(p) ==
    /\ stage[p] = "sdk" /\ Len(sdk) < SDKBound
    /\ sdk' = Append(sdk, Evidence(about[p]))
    /\ \/ Move(p, "adlc") /\ receipt' = [receipt EXCEPT ![p] = Len(sdk')]
       \/ Move(p, "failed") /\ UNCHANGED receipt
    /\ UNCHANGED <<reads, phase, coverage, about, adlc>>

\* Broken variant: evidence goes on without a receipt.
SDKFailureIgnored(p) ==
    /\ stage[p] = "sdk"
    /\ Move(p, "adlc")
    /\ UNCHANGED <<reads, phase, coverage, about, receipt, sdk, adlc>>

\* The sink raises or returns no receipt.
SDKFails(p) ==
    /\ stage[p] = "sdk"
    /\ Move(p, "failed")
    /\ UNCHANGED <<reads, phase, coverage, about, receipt, sdk, adlc>>

ADLCStores(p) ==
    /\ stage[p] = "adlc"
    /\ adlc' = adlc \cup {[evidence |-> Evidence(about[p]), receipt |-> receipt[p]]}
    /\ \E next \in {"published", "failed"} : Move(p, next)
    /\ UNCHANGED <<reads, phase, coverage, about, receipt, sdk>>

ADLCFails(p) ==
    /\ stage[p] = "adlc"
    /\ Move(p, "failed")
    /\ UNCHANGED <<reads, phase, coverage, about, receipt, sdk, adlc>>

CoordinatorNext ==
    \/ \E r \in Reads : Read(r)
    \/ \E c \in Connectors : RegisterConnector(c)
    \/ \E q \in Runs : Dispatch(q) \/ Reraise(q) \/ Conclude(q) \/ CancelRun(q)
    \/ \E p \in Publications :
          \/ SDKStores(p) \/ SDKFails(p) \/ ADLCStores(p) \/ ADLCFails(p)
          \/ \E q \in Runs : Publish(p, q)

CoordinatorSpec == CoordinatorInit /\ [][CoordinatorNext]_all

\* The event loop runs what is ready, its timers, and the closing of generators.
CoordinatorFairness == \A r \in Slotted :
    /\ WF_all(Enter(r) /\ UNCHANGED <<registry, phase, coverage, bridge>>)
    /\ WF_all(Expire(r) /\ UNCHANGED <<registry, phase, coverage, bridge>>)
    /\ WF_all(Collect(r) /\ UNCHANGED <<registry, phase, coverage, bridge>>)

FairCoordinatorSpec == CoordinatorSpec /\ CoordinatorFairness

-----------------------------------------------------------------------------
(* Properties *)

\* What the ADLC plane has taken as evidence of a run carries a receipt that the SDK
\* plane gave for the same evidence, whatever was lost and published again; evidence
\* of a complete run is about a run whose every step delivered (publish()).
EvidenceIsBacked ==
    \A e \in adlc :
        /\ e.receipt \in 1..Len(sdk) /\ sdk[e.receipt] = e.evidence
        /\ e.evidence.coverage.complete =>
              \A r \in StepsOf[e.evidence.request] : result[r] = "returned"

\* A source is settled by the results of its steps.
Fate(q, s) ==
    LET steps == {r \in StepsOf[q] : Source(r) = s}
    IN IF \E r \in steps : pc[r] = "ended" /\ result[r] # "returned" THEN "excluded"
       ELSE IF \E r \in steps : pc[r] # "ended" THEN "pending" ELSE "covered"

Statement(q) ==
    LET kind == CASE phase[q] = "raised" -> "aborted"
                  [] phase[q] = "stated" -> IF coverage[q].complete THEN "complete"
                                                                    ELSE "partial"
                  [] OTHER -> "none"
    IN [kind |-> kind, covered |-> coverage[q].included, excluded |-> coverage[q].excluded]

Promise == INSTANCE CoveragePromise WITH
    Requests <- Runs,
    Expected <- [q \in Runs |-> ExpectedSources(q)],
    fate <- [q \in Runs |-> [s \in ExpectedSources(q) |-> Fate(q, s)]],
    statement <- [q \in Runs |-> Statement(q)]

\* The coordinator implements the promise of a coverage statement (coverage.py):
\* in whatever order steps end, a statement hides neither a source nor a failed step of one
\* (CoverageStatement, CrossSourceCoordinator.execute).
KeepsPromise == Promise!Spec
=============================================================================
