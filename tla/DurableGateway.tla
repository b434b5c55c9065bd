--------------------------- MODULE DurableGateway ---------------------------
(***************************************************************************)
(* The durable action gateway (durability.py): execute() and reconcile()   *)
(* calls of one or more gateway processes that share an SQLite journal and *)
(* a mutation source.                                                      *)
(*                                                                         *)
(* A call is an asyncio task.  It can be overtaken by the other tasks of   *)
(* its process only while it awaits (the authorization service or the      *)
(* source); by the tasks of other processes, and by a crash, anywhere      *)
(* between two journal transactions.  An action below is therefore one     *)
(* transaction, one message, or the resumption of an await together with   *)
(* the transaction that follows it.  The call slots are reused, so a run   *)
(* holds any number of calls.                                              *)
(*                                                                         *)
(* Abstractions: the key is the pair (source_id, idempotency_key); distinct*)
(* plans have distinct digests; a receipt is its state; timestamps, audit  *)
(* entries, telemetry and the payload are left out.                        *)
(***************************************************************************)
EXTENDS Naturals, FiniteSets

CONSTANTS
    Processes,  \* operating-system processes running a gateway
    Calls,      \* call slots: concurrent asyncio tasks
    ProcessOf,  \* the process each slot belongs to
    Actions,    \* source action plans
    Keys,       \* (source, idempotency key) pairs
    KeyOf,      \* the key each plan carries
    ActionIds,  \* action_id values
    IdOf,       \* the action_id of each plan
    None,       \* "no action"
    MaxFaults,  \* bound on crashes, cancellations and journal I/O errors
    MaxSends    \* bound on the requests sent for one key

ASSUME ProcessOfAssumption == ProcessOf \in [Calls -> Processes]
ASSUME KeyOfAssumption == KeyOf \in [Actions -> Keys]
ASSUME IdOfAssumption == IdOf \in [Actions -> ActionIds]
ASSUME NoneAssumption == None \notin Actions
ASSUME MaxFaultsAssumption == MaxFaults \in Nat
ASSUME MaxSendsAssumption == MaxSends \in Nat \ {0}

VARIABLES
    pc,         \* where each call is
    action,     \* the plan each call works on
    reply,      \* what the source answered to a call that awaits it
    outcome,    \* what a call is about to return or raise
    journal,    \* action_records, one row per key
    prepared,   \* the last "prepared" event of each action_id (action_events)
    source,     \* the source's own idempotency table
    wire,       \* mutation requests sent and not yet processed by the source
    sends,      \* history: requests ever sent for each key
    faults      \* faults so far

callVars == <<pc, action, reply, outcome>>
journalVars == <<journal, prepared>>
sourceVars == <<source, wire, sends>>
vars == <<pc, action, reply, outcome, journal, prepared, source, wire, sends, faults>>

(* DurableActionState, and "absent" for a key without a row *)
RowStates == {"absent", "prepared", "executing", "executed", "failed",
              "reconciliation-required"}

Receipts == {"none", "executed", "recovered", "failed"}

Rows == [state : RowStates, action : Actions \union {None}, attempts : Nat,
         receipt : Receipts]

NoRow == [state |-> "absent", action |-> None, attempts |-> 0, receipt |-> "none"]

(* Statements that run without an await in between: the event loop cannot  *)
(* run another task of the process while a call is at one of them.         *)
SyncPoints == {"rereading", "beginning", "dispatching"}

AwaitPoints == {"authorizing", "mutating", "authorizing_reconcile", "querying",
                "returning"}

Points == {"idle"} \union SyncPoints \union AwaitPoints

Replies == {"none", "met", "unmet", "rejected", "proved", "unresolved"}

Outcomes == {"none", "refused", "conflict", "unknown", "failed", "executed",
             "recovered", "already-executed"}

Requests == [call : Calls, action : Actions]

TypeOK ==
    /\ pc \in [Calls -> Points]
    /\ action \in [Calls -> Actions \union {None}]
    /\ reply \in [Calls -> Replies]
    /\ outcome \in [Calls -> Outcomes]
    /\ journal \in [Keys -> Rows]
    /\ prepared \in [ActionIds -> Actions \union {None}]
    /\ source \in [Keys -> [action : Actions \union {None}, met : BOOLEAN]]
    /\ wire \in SUBSET Requests
    /\ sends \in [Keys -> Nat]
    /\ faults \in 0..MaxFaults

Init ==
    /\ pc = [c \in Calls |-> "idle"]
    /\ action = [c \in Calls |-> None]
    /\ reply = [c \in Calls |-> "none"]
    /\ outcome = [c \in Calls |-> "none"]
    /\ journal = [k \in Keys |-> NoRow]
    /\ prepared = [i \in ActionIds |-> None]
    /\ source = [k \in Keys |-> [action |-> None, met |-> FALSE]]
    /\ wire = {}
    /\ sends = [k \in Keys |-> 0]
    /\ faults = 0

-----------------------------------------------------------------------------
(* Helpers *)

Key(c) == KeyOf[action[c]]
Row(c) == journal[Key(c)]

\* Broken variant: one journal connection for all processes, whose transaction
\* stays open while the source is awaited.
LoopFreeOfAll(c) ==
    \A d \in Calls \ {c} : pc[d] \notin SyncPoints \union {"mutating", "querying"}

\* The event loop of c's process is free to run c.
LoopFree(c) ==
    \A d \in Calls \ {c} : ProcessOf[d] = ProcessOf[c] => pc[d] \notin SyncPoints

Goto(c, point) == pc' = [pc EXCEPT ![c] = point]

\* The call has its result or its exception and only emits telemetry now.
Answer(c, result) ==
    /\ Goto(c, "returning")
    /\ outcome' = [outcome EXCEPT ![c] = result]
    /\ reply' = [reply EXCEPT ![c] = "none"]
    /\ UNCHANGED action

Proceed(c, point) == Goto(c, point) /\ UNCHANGED <<action, reply, outcome>>

\* _finish: the row, whatever its state, takes the verdict and the receipt.
Finish(c, verdict, receipt) ==
    /\ Row(c).action = action[c]
    /\ journal' = [journal EXCEPT ![Key(c)] =
                     [@ EXCEPT !.state = verdict, !.receipt = receipt]]
    /\ UNCHANGED prepared

-----------------------------------------------------------------------------
(* execute() *)

\* Preview and approval are validated before the first await.
StartExecute(c, a) ==
    /\ pc[c] = "idle" /\ LoopFree(c)
    /\ action' = [action EXCEPT ![c] = a]
    /\ \/ Goto(c, "authorizing") /\ UNCHANGED outcome
       \/ Goto(c, "returning") /\ outcome' = [outcome EXCEPT ![c] = "refused"]
    /\ UNCHANGED <<reply, journalVars, sourceVars, faults>>

Replayable(row) == row.state = "executed" /\ row.receipt # "none"

\* Broken variant: execute() skips begin() and its write-ahead record.
DispatchUnrecorded(c) ==
    IF Replayable(Row(c)) THEN Answer(c, "already-executed") ELSE Proceed(c, "dispatching")

\* After prepare(): replay a stored receipt, or go on to begin().
UseRecord(c) ==
    IF Replayable(Row(c)) THEN Answer(c, "already-executed") ELSE Proceed(c, "beginning")

ExecuteDenied(c) ==
    /\ pc[c] = "authorizing" /\ LoopFree(c)
    /\ Answer(c, "refused")
    /\ UNCHANGED <<journalVars, sourceVars, faults>>

\* prepare() finds no row: the event and the row are one transaction.
PrepareNew(c) ==
    /\ pc[c] = "authorizing" /\ LoopFree(c)
    /\ Row(c).state = "absent"
    /\ journal' = [journal EXCEPT ![Key(c)] =
                     [state |-> "prepared", action |-> action[c], attempts |-> 0,
                      receipt |-> "none"]]
    /\ prepared' = [prepared EXCEPT ![IdOf[action[c]]] = action[c]]
    /\ Proceed(c, "rereading")
    /\ UNCHANGED <<sourceVars, faults>>

\* prepare() finds a row bound to another digest.
PrepareConflict(c) ==
    /\ pc[c] = "authorizing" /\ LoopFree(c)
    /\ Row(c).state # "absent" /\ Row(c).action # action[c]
    /\ Answer(c, "conflict")
    /\ UNCHANGED <<journalVars, sourceVars, faults>>

\* Broken variant: prepare() does not compare the digest.
PrepareAnyExisting(c) ==
    /\ pc[c] = "authorizing" /\ LoopFree(c)
    /\ Row(c).state # "absent"
    /\ UseRecord(c)
    /\ UNCHANGED <<journalVars, sourceVars, faults>>

PrepareExisting(c) ==
    /\ pc[c] = "authorizing" /\ LoopFree(c)
    /\ Row(c).state # "absent" /\ Row(c).action = action[c]
    /\ UseRecord(c)
    /\ UNCHANGED <<journalVars, sourceVars, faults>>

\* prepare() reads the row it has just committed in a second transaction.
Reread(c) ==
    /\ pc[c] = "rereading"
    /\ UseRecord(c)
    /\ UNCHANGED <<journalVars, sourceVars, faults>>

MayBegin(row) == row.state = "prepared"

\* begin(): the write-ahead transaction.
BeginPrepared(c) ==
    /\ pc[c] = "beginning"
    /\ MayBegin(Row(c))
    /\ journal' = [journal EXCEPT ![Key(c)] =
                     [@ EXCEPT !.state = "executing", !.attempts = Row(c).attempts + 1]]
    /\ Proceed(c, "dispatching")
    /\ UNCHANGED <<prepared, sourceVars, faults>>

\* begin() returns an executed row unchanged, and execute() ignores what it
\* returns.
BeginExecuted(c) ==
    /\ pc[c] = "beginning"
    /\ Row(c).state = "executed"
    /\ Proceed(c, "dispatching")
    /\ UNCHANGED <<journalVars, sourceVars, faults>>

BeginForbidden(c) ==
    /\ pc[c] = "beginning"
    /\ ~ MayBegin(Row(c)) /\ Row(c).state # "executed"
    /\ Answer(c, "unknown")
    /\ UNCHANGED <<journalVars, sourceVars, faults>>

\* The connector is looked up only after begin().
ConnectorMissing(c) ==
    /\ pc[c] = "dispatching"
    /\ Answer(c, "refused")
    /\ UNCHANGED <<journalVars, sourceVars, faults>>

Dispatch(c) ==
    /\ pc[c] = "dispatching"
    /\ sends[Key(c)] < MaxSends
    /\ wire' = wire \union {[call |-> c, action |-> action[c]]}
    /\ sends' = [sends EXCEPT ![Key(c)] = @ + 1]
    /\ Proceed(c, "mutating")
    /\ UNCHANGED <<journalVars, source, faults>>

MutateSucceeds(c) ==
    /\ pc[c] = "mutating" /\ LoopFree(c)
    /\ reply[c] = "met"
    /\ Finish(c, "executed", "executed")
    /\ Answer(c, "executed")
    /\ UNCHANGED <<sourceVars, faults>>

\* success or postconditions_met is not true: a definite failure.
MutateFails(c) ==
    /\ pc[c] = "mutating" /\ LoopFree(c)
    /\ reply[c] \in {"unmet", "rejected"}
    /\ Finish(c, "failed", "failed")
    /\ Answer(c, "failed")
    /\ UNCHANGED <<sourceVars, faults>>

\* Broken variant: an exception is taken for a definite failure.
MutateRaisesAsFailure(c) ==
    /\ pc[c] = "mutating" /\ LoopFree(c)
    /\ Finish(c, "failed", "failed")
    /\ Answer(c, "failed")
    /\ UNCHANGED <<sourceVars, faults>>

\* mutate() or the after_mutation hook raises, whether or not the source has
\* received, applied or answered the request.
MutateRaises(c) ==
    /\ pc[c] = "mutating" /\ LoopFree(c)
    /\ Finish(c, "reconciliation-required", "none")
    /\ Answer(c, "unknown")
    /\ UNCHANGED <<sourceVars, faults>>

-----------------------------------------------------------------------------
(* reconcile() *)

StartReconcile(c, a) ==
    /\ pc[c] = "idle" /\ LoopFree(c)
    /\ action' = [action EXCEPT ![c] = a]
    /\ Goto(c, "authorizing_reconcile")
    /\ UNCHANGED <<reply, outcome, journalVars, sourceVars, faults>>

\* pending(): the states whose outcome only the source can tell.
PendingStates == {"executing", "reconciliation-required"}

ReconcileDenied(c) ==
    /\ pc[c] = "authorizing_reconcile" /\ LoopFree(c)
    /\ Answer(c, "refused")
    /\ UNCHANGED <<journalVars, sourceVars, faults>>

ReconcileConflict(c) ==
    /\ pc[c] = "authorizing_reconcile" /\ LoopFree(c)
    /\ Row(c).action # action[c]
    /\ Answer(c, "conflict")
    /\ UNCHANGED <<journalVars, sourceVars, faults>>

\* Broken variant: reconcile() reports any row as if it were closed.
ReconcileReportsRow(c) ==
    /\ pc[c] = "authorizing_reconcile" /\ LoopFree(c)
    /\ Row(c).action = action[c]
    /\ Answer(c, Row(c).state)
    /\ UNCHANGED <<journalVars, sourceVars, faults>>

ReconcileClosed(c) ==
    /\ pc[c] = "authorizing_reconcile" /\ LoopFree(c)
    /\ Row(c).action = action[c] /\ Replayable(Row(c))
    /\ Answer(c, Row(c).receipt)
    /\ UNCHANGED <<journalVars, sourceVars, faults>>

\* The row is not pending, or the connector has no reconcile operation.
ReconcileImpossible(c) ==
    /\ pc[c] = "authorizing_reconcile" /\ LoopFree(c)
    /\ Row(c).action = action[c] /\ ~ Replayable(Row(c))
    /\ Answer(c, "unknown")
    /\ UNCHANGED <<journalVars, sourceVars, faults>>

\* Broken variant: a row left executing by a crash is not reconciled.
ReconcileAsksIfMarked(c) ==
    /\ pc[c] = "authorizing_reconcile" /\ LoopFree(c)
    /\ Row(c).action = action[c] /\ Row(c).state = "reconciliation-required"
    /\ Proceed(c, "querying")
    /\ UNCHANGED <<journalVars, sourceVars, faults>>

ReconcileAsks(c) ==
    /\ pc[c] = "authorizing_reconcile" /\ LoopFree(c)
    /\ Row(c).action = action[c] /\ Row(c).state \in PendingStates
    /\ Proceed(c, "querying")
    /\ UNCHANGED <<journalVars, sourceVars, faults>>

ReconcileProves(c) ==
    /\ pc[c] = "querying" /\ LoopFree(c)
    /\ reply[c] = "proved"
    /\ Finish(c, "executed", "recovered")
    /\ Answer(c, "recovered")
    /\ UNCHANGED <<sourceVars, faults>>

\* Broken variant: "not applied" is taken for a definite failure.
ReconcileUnresolvedAsFailure(c) ==
    /\ pc[c] = "querying" /\ LoopFree(c)
    /\ reply[c] = "unresolved"
    /\ Finish(c, "failed", "none")
    /\ Answer(c, "failed")
    /\ UNCHANGED <<sourceVars, faults>>

ReconcileUnresolved(c) ==
    /\ pc[c] = "querying" /\ LoopFree(c)
    /\ reply[c] = "unresolved"
    /\ Finish(c, "reconciliation-required", "none")
    /\ Answer(c, "unknown")
    /\ UNCHANGED <<sourceVars, faults>>

\* Nothing catches an exception of the connector's reconcile operation.
ReconcileRaises(c) ==
    /\ pc[c] = "querying" /\ LoopFree(c)
    /\ Answer(c, "refused")
    /\ UNCHANGED <<journalVars, sourceVars, faults>>

-----------------------------------------------------------------------------
(* The end of a call, and its faults *)

Return(c) ==
    /\ pc[c] = "returning"
    /\ Goto(c, "idle")
    /\ action' = [action EXCEPT ![c] = None]
    /\ outcome' = [outcome EXCEPT ![c] = "none"]
    /\ UNCHANGED <<reply, journalVars, sourceVars, faults>>

\* The calls in S end where they are, without touching the journal.
Drop(S) ==
    /\ faults < MaxFaults
    /\ faults' = faults + 1
    /\ pc' = [c \in Calls |-> IF c \in S THEN "idle" ELSE pc[c]]
    /\ action' = [c \in Calls |-> IF c \in S THEN None ELSE action[c]]
    /\ reply' = [c \in Calls |-> IF c \in S THEN "none" ELSE reply[c]]
    /\ outcome' = [c \in Calls |-> IF c \in S THEN "none" ELSE outcome[c]]
    /\ UNCHANGED <<journalVars, sourceVars>>

\* The task is cancelled (CancelledError is no Exception, so nothing records
\* it), or a journal transaction raises sqlite3.Error and is rolled back.
Abort(c) == pc[c] # "idle" /\ Drop({c})

\* The process dies and is started again; the journal file survives.
Crash(p) ==
    /\ \E c \in Calls : ProcessOf[c] = p /\ pc[c] # "idle"
    /\ Drop({c \in Calls : ProcessOf[c] = p})

-----------------------------------------------------------------------------
(* The source (external): its own idempotency table decides. *)

\* The answer reaches the call if it still awaits it, or is lost on the way.
Deliver(m, r) ==
    \/ reply' = IF pc[m.call] = "mutating" /\ action[m.call] = m.action
                THEN [reply EXCEPT ![m.call] = r] ELSE reply
    \/ UNCHANGED reply

\* A key already applied: the stored result, or a refusal for another action.
SourceReplays(m) ==
    LET entry == source[KeyOf[m.action]] IN
    /\ m \in wire
    /\ entry.action # None
    /\ Deliver(m, IF IdOf[entry.action] # IdOf[m.action] THEN "rejected"
                  ELSE IF entry.met THEN "met" ELSE "unmet")
    /\ wire' = wire \ {m}
    /\ UNCHANGED <<pc, action, outcome, journalVars, source, sends, faults>>

\* The preconditions on version and value do not hold.
SourceRejects(m) ==
    /\ m \in wire
    /\ source[KeyOf[m.action]].action = None
    /\ Deliver(m, "rejected")
    /\ wire' = wire \ {m}
    /\ UNCHANGED <<pc, action, outcome, journalVars, source, sends, faults>>

SourceApplies(m, met) ==
    /\ m \in wire
    /\ source[KeyOf[m.action]].action = None
    /\ source' = [source EXCEPT ![KeyOf[m.action]] = [action |-> m.action, met |-> met]]
    /\ Deliver(m, IF met THEN "met" ELSE "unmet")
    /\ wire' = wire \ {m}
    /\ UNCHANGED <<pc, action, outcome, journalVars, sends, faults>>

\* Broken variant: any entry under the key is proof, whatever its postconditions.
ProvenByKey(a) == source[KeyOf[a]].action # None

\* reconcile: has this action_id been applied under this key, and did it meet
\* its postconditions?
Proven(a) ==
    LET entry == source[KeyOf[a]] IN
    entry.action # None /\ IdOf[entry.action] = IdOf[a] /\ entry.met

SourceReconciles(c) ==
    /\ pc[c] = "querying" /\ reply[c] = "none"
    /\ reply' = [reply EXCEPT ![c] = IF Proven(action[c]) THEN "proved" ELSE "unresolved"]
    /\ UNCHANGED <<pc, action, outcome, journalVars, sourceVars, faults>>

-----------------------------------------------------------------------------
(* The specification *)

SyncStep(c) ==
    \/ Reread(c)
    \/ BeginPrepared(c) \/ BeginExecuted(c) \/ BeginForbidden(c)
    \/ ConnectorMissing(c) \/ Dispatch(c)

ExecuteResumes(c) ==
    \/ ExecuteDenied(c) \/ PrepareNew(c) \/ PrepareConflict(c) \/ PrepareExisting(c)

MutateEnds(c) == MutateSucceeds(c) \/ MutateFails(c) \/ MutateRaises(c)

ReconcileResumes(c) ==
    \/ ReconcileDenied(c) \/ ReconcileConflict(c) \/ ReconcileClosed(c)
    \/ ReconcileImpossible(c) \/ ReconcileAsks(c)

ReconcileEnds(c) == ReconcileProves(c) \/ ReconcileUnresolved(c) \/ ReconcileRaises(c)

(* A step that ends an await or runs on to the next one. *)
TaskStep(c) ==
    \/ SyncStep(c)
    \/ ExecuteResumes(c) \/ MutateEnds(c)
    \/ ReconcileResumes(c) \/ ReconcileEnds(c)
    \/ Return(c)

CallStep(c) ==
    \/ \E a \in Actions : StartExecute(c, a) \/ StartReconcile(c, a)
    \/ TaskStep(c)

SourceStep ==
    \/ \E m \in wire : SourceReplays(m) \/ SourceRejects(m)
    \/ \E m \in wire, met \in BOOLEAN : SourceApplies(m, met)
    \/ \E c \in Calls : SourceReconciles(c)

Fault == (\E c \in Calls : Abort(c)) \/ (\E p \in Processes : Crash(p))

Next == (\E c \in Calls : CallStep(c)) \/ SourceStep \/ Fault

Spec == Init /\ [][Next]_vars

(* The connector has been called and has neither answered nor raised.  No   *)
(* deadline bounds this await.                                              *)
Unanswered(c) == pc[c] \in {"mutating", "querying"} /\ reply[c] = "none"

(* asyncio runs every ready task in turn, so a call that can resume does    *)
(* (the policy evaluators decide in process, without I/O).  A call that the *)
(* connector leaves without an answer is not ready: it may be so for ever.  *)
LoopFairness == \A c \in Calls : SF_vars(TaskStep(c) /\ ~ Unanswered(c))

(* No call waits for its mutation for ever: its connection breaks at last.  *)
(* The operator keeps calling reconcile for every action, is not refused    *)
(* for ever, and the source answers some of these calls.                    *)
OperatorFairness ==
    /\ \A c \in Calls : SF_vars(MutateEnds(c))
    /\ \A a \in Actions :
        /\ SF_vars(\E c \in Calls : StartReconcile(c, a))
        /\ SF_vars(\E c \in Calls : action[c] = a /\ ReconcileAsks(c))
        /\ SF_vars(\E c \in Calls : action[c] = a /\ SourceReconciles(c))
        /\ SF_vars(\E c \in Calls : action[c] = a /\ ReconcileProves(c))

FairSpec == Spec /\ LoopFairness

-----------------------------------------------------------------------------
(* Safety *)

(* execute() binds the key to the exact digest and journals "executing"     *)
(* before the connector is called (prepare, begin, then mutate): whatever   *)
(* is on its way to the source or applied there belongs to the plan the     *)
(* journal binds to the key, and the journal has left "prepared".           *)
WriteAhead ==
    /\ \A m \in wire : journal[KeyOf[m.action]].action = m.action
    /\ \A k \in Keys :
        /\ source[k].action \in {None, journal[k].action}
        /\ sends[k] > 0 => journal[k].state \notin {"absent", "prepared"}

(* begin() lets an action out of "prepared" once, and no state it can reach *)
(* leads back: with one gateway process, however often it crashes and its   *)
(* calls are repeated, the source never gets a second request for a key.    *)
AtMostOneDispatch == \A k \in Keys : sends[k] <= 1

(* The write-ahead promise of pending() after a crash: an effect whose      *)
(* postconditions hold at the source is never lost from sight.  Its row is  *)
(* executed, or among the rows that reconcile() accepts.                    *)
EffectsAreRecoverable ==
    \A k \in Keys :
        source[k].met => journal[k].state \in PendingStates \union {"executed"}

Successes == {"executed", "recovered", "already-executed"}

(* Only the source's own word closes a record or returns a receipt to a     *)
(* caller (complete() after mutate or reconcile, and the replay paths): it  *)
(* has applied this very plan and met its postconditions.                   *)
SuccessIsReal ==
    /\ \A k \in Keys :
        journal[k].state = "executed" =>
            source[k].met /\ source[k].action = journal[k].action
    /\ \A c \in Calls :
        pc[c] = "returning" /\ outcome[c] \in Successes =>
            source[Key(c)].met /\ source[Key(c)].action = action[c]

(* A row that was executed is never turned into a failure or reopened for a *)
(* first dispatch, although _finish() does not look at the state it         *)
(* overwrites: the worst that happens to it is to be marked for             *)
(* reconciliation.  (Its plan can be sent again: BeginExecuted.)            *)
ExecutedNeverFails ==
    [][\A k \in Keys : journal[k].state = "executed" =>
          journal'[k].state \in {"executed", "reconciliation-required"}]_vars

(* docs/architecture/phase-5-durable-runtime.md: the proof of the source    *)
(* "closes the durable record" and a replay "returns the stored receipt".   *)
(* A closed record keeps its state and its receipt.                         *)
ClosedStaysClosed ==
    [][\A k \in Keys : journal[k].state = "executed" => journal'[k] = journal[k]]_vars

(* verify(), for a journal nobody has tampered with (the chain itself then  *)
(* matches): the last "prepared" event of the row's action_id carries the   *)
(* row's binding, a receipt belongs to an executed row and to no other.     *)
RowVerifies(row) ==
    /\ prepared[IdOf[row.action]] = row.action
    /\ row.receipt # "none" <=> row.state = "executed"

Verify == \A k \in Keys : journal[k].state # "absent" => RowVerifies(journal[k])

(* docs/testing/phase-5-gates.md, "Journal integrity": "the persistent      *)
(* metadata event chain verifies".                                          *)
JournalVerifies == Verify

Abstract ==
    INSTANCE AtMostOnceAction WITH
        binding <- [k \in Keys |-> journal[k].action],
        effect <- [k \in Keys |-> source[k].action]

(* The gateway of one process implements the at-most-once promise: the      *)
(* journal binds, dispatch sends, the source applies, and nothing else in   *)
(* execute(), reconcile() or a crash is visible to the source.              *)
AtMostOnce == Abstract!Spec

-----------------------------------------------------------------------------
(* Liveness *)

(* Only a connector that never answers keeps a call of execute() or         *)
(* reconcile(): no interleaving of tasks, no state of the journal and no    *)
(* other call, itself without an answer, keeps it from its end.             *)
CallsReturn ==
    \A c \in Calls : []<>(pc[c] = "idle") \/ <>[]Unanswered(c)

(* Reconciliation gets there: an effect that met its postconditions is      *)
(* eventually recorded as executed, whatever crash or exception hid it, if  *)
(* an operator keeps reconciling.                                           *)
EffectsAreEventuallyClosed ==
    OperatorFairness => \A k \in Keys : source[k].met ~> journal[k].state = "executed"
=============================================================================
