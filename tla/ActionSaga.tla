----------------------------- MODULE ActionSaga -----------------------------
(***************************************************************************)
(* The in-memory action gateway (actions.py, ActionGateway) under the saga *)
(* coordinator (ActionSagaCoordinator).  A run executes its steps one by   *)
(* one, each a preview and an execute; after a controlled failure it       *)
(* compensates the completed steps, last one first, each compensation      *)
(* being a derived plan that is previewed and executed too.  A run of one  *)
(* step is a plain preview() and execute().                                *)
(*                                                                         *)
(* Runs are tasks of one process: they share the gateway's idempotency     *)
(* table and the source, and overtake each other only while one awaits the *)
(* policy service or the connector.  An action below is the resumption of  *)
(* such an await, up to the next one.                                      *)
(*                                                                         *)
(* Abstractions: a plan stands for its digest; the key is the pair         *)
(* (source_id, idempotency_key); preview expiry, approvals and their clock *)
(* are a nondeterministic refusal; audit and telemetry are left out.       *)
(***************************************************************************)
EXTENDS Naturals, Sequences

CONSTANTS
    Runs,       \* calls of ActionSagaCoordinator.run
    Actions,    \* source action plans (forward)
    Keys,       \* (source, idempotency key) pairs of the forward plans
    KeyOf,      \* the key each plan carries
    ActionIds,  \* action_id values
    IdOf,       \* the action_id of each plan
    StepsOf,    \* the plans of each run, in order
    None        \* "no action"

ASSUME KeyOfAssumption == KeyOf \in [Actions -> Keys]
ASSUME IdOfAssumption == IdOf \in [Actions -> ActionIds]
ASSUME StepsOfAssumption == StepsOf \in [Runs -> Seq(Actions) \ {<<>>}]
ASSUME NoneAssumption == None \notin Actions

VARIABLES
    pc,             \* where each run is
    pos,            \* the forward step each run has reached
    undo,           \* the step being compensated, or 0
    outcome,        \* how each run ended
    reply,          \* what the source answered to a run that awaits it
    idempotency,    \* ActionGateway._idempotency: the plan bound to each slot
    source,         \* the source's own idempotency table
    wire            \* mutation requests sent and not yet processed

runVars == <<pc, pos, undo, outcome>>
vars == <<pc, pos, undo, outcome, reply, idempotency, source, wire>>

(* A plan to send: an action, or the compensation derived from it.  Both    *)
(* its key and its action_id are those of the action with ":compensate".    *)
Plans == [action : Actions, undo : BOOLEAN]
Slots == Keys \X BOOLEAN
SlotOf(plan) == <<KeyOf[plan.action], plan.undo>>

Forward(a) == [action |-> a, undo |-> FALSE]
Backward(a) == [action |-> a, undo |-> TRUE]

Points == {"idle", "previewing", "authorizing", "mutating", "ended"}
Outcomes == {"none", "completed", "failed", "compensated", "compensation-failed",
             "raised"}
Replies == {"none", "met", "unmet", "rejected"}

TypeOK ==
    /\ pc \in [Runs -> Points]
    /\ pos \in [Runs -> Nat] /\ undo \in [Runs -> Nat]
    /\ \A r \in Runs : pos[r] \in 1..Len(StepsOf[r]) /\ undo[r] < pos[r]
    /\ outcome \in [Runs -> Outcomes]
    /\ reply \in [Runs -> Replies]
    /\ idempotency \in [Slots -> Actions \union {None}]
    /\ source \in [Slots -> [action : Actions \union {None}, met : BOOLEAN]]
    /\ wire \in SUBSET [run : Runs, plan : Plans]

Init ==
    /\ pc = [r \in Runs |-> "idle"]
    /\ pos = [r \in Runs |-> 1]
    /\ undo = [r \in Runs |-> 0]
    /\ outcome = [r \in Runs |-> "none"]
    /\ reply = [r \in Runs |-> "none"]
    /\ idempotency = [s \in Slots |-> None]
    /\ source = [s \in Slots |-> [action |-> None, met |-> FALSE]]
    /\ wire = {}

-----------------------------------------------------------------------------
(* run(): what follows a step *)

Plan(r) == IF undo[r] = 0 THEN Forward(StepsOf[r][pos[r]])
                          ELSE Backward(StepsOf[r][undo[r]])
Slot(r) == SlotOf(Plan(r))

Goto(r, point) == pc' = [pc EXCEPT ![r] = point]

End(r, result) ==
    /\ Goto(r, "ended")
    /\ outcome' = [outcome EXCEPT ![r] = result]

\* The next step, or the end of the saga.
Advance(r) ==
    IF pos[r] < Len(StepsOf[r])
    THEN /\ pos' = [pos EXCEPT ![r] = @ + 1]
         /\ Goto(r, "previewing")
         /\ UNCHANGED <<undo, outcome>>
    ELSE End(r, "completed") /\ UNCHANGED <<pos, undo>>

\* The predecessor, or the end of the compensations.
Rewind(r) ==
    /\ undo' = [undo EXCEPT ![r] = @ - 1]
    /\ IF undo[r] > 1 THEN Goto(r, "previewing") /\ UNCHANGED outcome
                      ELSE End(r, "compensated")
    /\ UNCHANGED pos

StepSucceeds(r) == IF undo[r] = 0 THEN Advance(r) ELSE Rewind(r)

\* Broken variant: the step that failed is compensated too.
UndoFailedStep(r) ==
    /\ undo' = [undo EXCEPT ![r] = pos[r]]
    /\ Goto(r, "previewing")
    /\ UNCHANGED <<pos, outcome>>

\* Compensation starts with the last completed step.
StartUndo(r) ==
    /\ IF pos[r] = 1 THEN End(r, "failed") /\ UNCHANGED undo
       ELSE /\ undo' = [undo EXCEPT ![r] = pos[r] - 1]
            /\ Goto(r, "previewing")
            /\ UNCHANGED outcome
    /\ UNCHANGED pos

\* Broken variant: a compensation that fails is passed over.
SkipFailedUndo(r) == IF undo[r] = 0 THEN StartUndo(r) ELSE Rewind(r)

\* Broken variant: a compensation that fails is tried again.
RetryFailedUndo(r) ==
    IF undo[r] = 0 THEN StartUndo(r)
    ELSE Goto(r, "previewing") /\ UNCHANGED <<pos, undo, outcome>>

\* One of _controlled_failures.
StepFails(r) ==
    IF undo[r] = 0 THEN StartUndo(r)
    ELSE End(r, "compensation-failed") /\ UNCHANGED <<pos, undo>>

-----------------------------------------------------------------------------
(* preview() and execute() *)

Start(r) ==
    /\ pc[r] = "idle"
    /\ Goto(r, "previewing")
    /\ UNCHANGED <<pos, undo, outcome, reply, idempotency, source, wire>>

\* preview() returns an allowed preview; execute() validates it and the
\* approval and asks the policy service again.
PreviewAllowed(r) ==
    /\ pc[r] = "previewing"
    /\ Goto(r, "authorizing")
    /\ UNCHANGED <<pos, undo, outcome, reply, idempotency, source, wire>>

\* A denial, a stale preview, a missing approval, no declared compensation.
Refused(r) ==
    /\ pc[r] \in {"previewing", "authorizing"}
    /\ StepFails(r)
    /\ UNCHANGED <<reply, idempotency, source, wire>>

\* The policy service raises, the connector is unknown, or the task is
\* cancelled: no controlled failure, so run() ends at once.
Raises(r) ==
    /\ pc[r] \in {"previewing", "authorizing", "mutating"}
    /\ End(r, "raised")
    /\ reply' = [reply EXCEPT ![r] = "none"]
    /\ UNCHANGED <<pos, undo, idempotency, source, wire>>

Conflict(r) ==
    /\ pc[r] = "authorizing"
    /\ idempotency[Slot(r)] \notin {None, Plan(r).action}
    /\ StepFails(r)
    /\ UNCHANGED <<reply, idempotency, source, wire>>

\* The stored receipt is returned as already-executed.
Replay(r) ==
    /\ pc[r] = "authorizing"
    /\ idempotency[Slot(r)] = Plan(r).action
    /\ StepSucceeds(r)
    /\ UNCHANGED <<reply, idempotency, source, wire>>

Dispatch(r) ==
    /\ pc[r] = "authorizing"
    /\ idempotency[Slot(r)] = None
    /\ wire' = wire \union {[run |-> r, plan |-> Plan(r)]}
    /\ Goto(r, "mutating")
    /\ UNCHANGED <<pos, undo, outcome, reply, idempotency, source>>

\* The key is bound only now, after the await.
Bind(r) ==
    /\ idempotency' = [idempotency EXCEPT ![Slot(r)] = Plan(r).action]
    /\ reply' = [reply EXCEPT ![r] = "none"]
    /\ StepSucceeds(r)
    /\ UNCHANGED <<source, wire>>

\* Broken variant: postconditions_met is not looked at.
MutateSucceedsUnmet(r) == pc[r] = "mutating" /\ reply[r] \in {"met", "unmet"} /\ Bind(r)

MutateSucceeds(r) == pc[r] = "mutating" /\ reply[r] = "met" /\ Bind(r)

\* success or postconditions_met is not true, or mutate() raises, whether or
\* not the source has received, applied or answered the request.
MutateFails(r) ==
    /\ pc[r] = "mutating"
    /\ reply' = [reply EXCEPT ![r] = "none"]
    /\ StepFails(r)
    /\ UNCHANGED <<idempotency, source, wire>>

-----------------------------------------------------------------------------
(* The process and the source *)

\* The process dies while some run is active, and starts again with an empty
\* idempotency table; the source remembers.
Crash ==
    /\ \E r \in Runs : pc[r] \notin {"idle", "ended"}
    /\ pc' = [r \in Runs |-> IF pc[r] = "idle" THEN "idle" ELSE "ended"]
    /\ outcome' = [r \in Runs |->
                     IF pc[r] \in {"idle", "ended"} THEN outcome[r] ELSE "raised"]
    /\ reply' = [r \in Runs |-> "none"]
    /\ idempotency' = [s \in Slots |-> None]
    /\ UNCHANGED <<pos, undo, source, wire>>

\* The answer reaches the run if it still awaits this request, or is lost.
Deliver(m, answer) ==
    /\ \/ reply' = IF pc[m.run] = "mutating" /\ Plan(m.run) = m.plan
                   THEN [reply EXCEPT ![m.run] = answer] ELSE reply
       \/ UNCHANGED reply
    /\ wire' = wire \ {m}
    /\ UNCHANGED <<runVars, idempotency>>

\* A slot already applied: the stored result, or a refusal for another action.
SourceReplays(m) ==
    LET entry == source[SlotOf(m.plan)] IN
    /\ entry.action # None
    /\ Deliver(m, IF IdOf[entry.action] # IdOf[m.plan.action] THEN "rejected"
                  ELSE IF entry.met THEN "met" ELSE "unmet")
    /\ UNCHANGED source

SourceRejects(m) ==
    /\ source[SlotOf(m.plan)].action = None
    /\ Deliver(m, "rejected")
    /\ UNCHANGED source

SourceApplies(m, met) ==
    /\ source[SlotOf(m.plan)].action = None
    /\ source' = [source EXCEPT ![SlotOf(m.plan)] =
                    [action |-> m.plan.action, met |-> met]]
    /\ Deliver(m, IF met THEN "met" ELSE "unmet")

-----------------------------------------------------------------------------
(* The specification *)

RunStep(r) ==
    \/ PreviewAllowed(r) \/ Refused(r)
    \/ Conflict(r) \/ Replay(r) \/ Dispatch(r)
    \/ MutateSucceeds(r) \/ MutateFails(r)

SourceStep ==
    \E m \in wire :
        \/ SourceReplays(m) \/ SourceRejects(m)
        \/ \E met \in BOOLEAN : SourceApplies(m, met)

Next == (\E r \in Runs : Start(r) \/ RunStep(r) \/ Raises(r)) \/ Crash \/ SourceStep

Spec == Init /\ [][Next]_vars

(* The connector has been called and has neither answered nor raised.  No   *)
(* deadline bounds this await.                                              *)
Unanswered(r) == pc[r] = "mutating" /\ reply[r] = "none"

(* The event loop runs every ready task (the policy evaluators decide in    *)
(* process, without I/O); nothing has to be cancelled, and an await of the  *)
(* connector need not end.                                                  *)
FairSpec == Spec /\ \A r \in Runs : WF_vars(RunStep(r) /\ ~ Unanswered(r))

-----------------------------------------------------------------------------
(* Properties *)

Applied(plan) == source[SlotOf(plan)] = [action |-> plan.action, met |-> TRUE]

Completed(r) == IF outcome[r] = "completed" THEN 1..Len(StepsOf[r]) ELSE 1..(pos[r] - 1)

(* A receipt that run() collects, new or replayed, stands for a mutation    *)
(* the source has applied and whose postconditions it confirmed, whatever   *)
(* other runs, restarts or late requests did; and so does an entry of the   *)
(* idempotency table.  It needs the source to tell plans apart: plans that  *)
(* share a key must not share an action_id.                                 *)
ReceiptsAreReal ==
    /\ \A r \in Runs : \A j \in Completed(r) : Applied(Forward(StepsOf[r][j]))
    /\ \A s \in Slots : idempotency[s] # None =>
          Applied([action |-> idempotency[s], undo |-> s[2]])

(* run() compensates in reverse order and stops at the first failure: when  *)
(* it works on the compensation of a step, or ends as compensated, every    *)
(* later completed step has been undone at the source.                      *)
UndoneInReverse ==
    \A r \in Runs : undo[r] > 0 \/ outcome[r] = "compensated" =>
        \A j \in (undo[r] + 1)..(pos[r] - 1) : Applied(Backward(StepsOf[r][j]))

(* Only a step that returned a receipt is compensated: no compensation is   *)
(* on its way or applied whose own forward effect is not at the source,     *)
(* although a failed or unanswered step may have had an effect too.         *)
NoUndoWithoutEffect ==
    /\ \A m \in wire : m.plan.undo => Applied(Forward(m.plan.action))
    /\ \A k \in Keys : source[<<k, TRUE>>].action # None =>
          source[<<k, FALSE>>] = [action |-> source[<<k, TRUE>>].action, met |-> TRUE]

(* docs/architecture/phase-4-governed-actions.md: "Reusing a key for a      *)
(* different digest fails closed."  No two runs hold receipts for different *)
(* plans under one key.                                                     *)
KeyReuseFailsClosed ==
    \A r, s \in Runs : \A i \in Completed(r), j \in Completed(s) :
        KeyOf[StepsOf[r][i]] = KeyOf[StepsOf[s][j]] => StepsOf[r][i] = StepsOf[s][j]

(* Every run that starts ends for good, completed or compensated or with an *)
(* error, unless its connector never answers: no failure, of its own, of    *)
(* another run or of the process, makes it go round its steps and           *)
(* compensations for ever, and no other run, itself without an answer,      *)
(* keeps it waiting.                                                        *)
RunsEnd ==
    \A r \in Runs : <>[](pc[r] \in {"idle", "ended"}) \/ <>[]Unanswered(r)
=============================================================================
