# TLA+ models of the data source harness

This directory models the run-time core of the data source harness
(`src/src/data_source_harness`, Python): the code that decides whether a
mutation may reach a source, what is remembered of it across crashes, how
connectors are called, and what a caller is told about coverage, freshness and
meaning. TLC checks small instances; theorems are proved with TLAPS for every
value of the constants. `PROJECT.json` lists components, runs, the source lines
behind each definition, hazards, findings and theorems.

Line references below are relative to `src/src/data_source_harness/` unless
they start with `src/`.

## The system

One *harness* process runs on an asyncio event loop beside the agent that uses
it. Requests come in with a tenant identity; connectors give access to sources.

| Component | State | Operations | Talks to |
|---|---|---|---|
| Durable gateway (`durability.py`) | SQLite tables `action_records` (one row per source and idempotency key) and `action_events` (hash chain) | `prepare`, `begin`, `complete`, `fail`, `require_reconciliation`, `pending`, `verify`; `execute`, `reconcile` | policy and telemetry services, connector (awaits), journal file (transactions), other gateway processes through the file |
| Action gateway (`actions.py:441`) | in-memory idempotency table, audit chain | `preview`, `execute`, `compensate` | policy, telemetry, connector |
| Saga coordinator (`actions.py:749`) | completed steps of the running saga | `run` | action gateway |
| Approvals (`actions.py:185-289`) | none | `issue`, `verify` | action gateways |
| Read gateway (`runtime.py`) | one semaphore per connector | `execute` (streaming), `search` | policy, telemetry, connector |
| Coordinator and coverage (`coordination.py`, `coverage.py`, `context.py`) | none across calls | `execute` of a multi-source plan | read gateway |
| Worker client (`worker.py`, `worker_connector.py`) | semaphore, active count, one child process per call | `invoke` | child process over pipes |
| Semantic graph and memory (`semantic.py`, `semantic_memory.py`) | assertions, retractions; candidates, promoted records | `append`, `retract`, `propose`, `review`, `promote`, `view` | each other |
| Mapping governance, freshness, router (`governance.py`, `freshness.py`, `routing.py`) | candidates, reviews, drift; observations; checkpoints | `propose`, `review`, `detect_drift`, `record`, `assess`, `route` | each other |
| Policy, planning (`policy.py`, `planning.py`) | grants | `evaluate`, `plan` | gateways |
| Decoder, packs, protocol adapters | registries | pure functions and registration | coordinator, gateways |
| Acceptance, promotion, evidence, deployment | none | pure decisions over evidence | release tooling |
| Reference labs (`src/reference_labs`) | example sources | the source side of the connector ABI | gateways |

### What is hard, and what makes each part correct

- **Durable gateway.** Concurrent calls on one key, a crash or a cancellation
  between two transactions, a journal that refuses a write, an answer that
  comes late or never, a second process on the same file. Correct when the
  journal is written before the source is called, a key is dispatched once, an
  effect is never lost from sight, and success is reported only on the
  source's word.
- **Action gateway and sagas.** A table read before an await and written after
  it, sagas that share steps, a restart that empties the table while requests
  are on their way, a compensation that fails. Correct when a receipt stands
  for a confirmed effect and compensation undoes exactly the completed steps,
  in reverse.
- **Worker client.** Deadline, cancellation (also twice), crash and excessive
  output of a child process that does what it likes, against a bound on the
  number of children. Correct when slots are neither lost nor returned twice,
  no more children run than slots exist, and every call ends.
- **Read gateway.** Generators that are not finished, a deadline that includes
  the consumer's time, limits reached in the middle of a chunk, one semaphore
  for nested reads. Correct when no more than the limit of reads of a connector
  run and every started read gives its slot back.
- **Coordinator, coverage, cross-plane bridge.** Some of several steps or
  sources fail; a sink stores and its answer is lost, and the result is
  published again. Correct when a result claims only sources whose every step
  it holds, and evidence never carries the receipt of something else.
- **Assertion graph and semantic memory.** Assertions with validity intervals
  that contradict each other at some time, retraction after promotion, the
  order of reviews. Correct when no present view becomes contradictory by a
  write, assertions made at the time they speak of never contradict, and
  what is promoted was approved by the reviewer it names.
- **Mapping registry, freshness, router.** Drift noticed in any stage of a
  mapping's life, observations out of order, checkpoints of several connector
  versions. Correct when the router never offers a mapping that drifted or an
  asset staler than its policy, and checkpoints never go back.
- **Policy, planning, protocol adapters, worker-backed connector.** What is
  decided on is interpreted again by somebody else: a plan by three readers, a
  tool listing by a later call, a profile by the client. Correct when nothing
  passes that the decision was not about.
- **Approvals, audit ledger, packages, acceptance, promotion, local labs.**
  Evidence that goes through other hands, is recombined, outdated or left
  behind by a killed run. Correct when what is accepted has happened.
- **Readers of the labs, decoder, pack generator.** Loops with cursors,
  counters and passes; correct when they equal a declarative definition of what
  they are to yield, and end.

## Plan

Most important first; all rows are done.

| # | Modules | Composition and abstraction | Theorems |
|---|---|---|---|
| 1 | `DurableGateway`, `AtMostOnceAction` | gateway + journal + source; refines `AtMostOnceAction` | type, write-ahead, recoverability, success, at most once, refinement |
| 2 | `ActionSaga` | sagas over the in-memory gateway + source | type, receipts, reverse compensation |
| 3 | `WorkerClient` | semaphore + child processes | type, parallelism ceiling |
| 4 | `Exchange`, `ReadGateway`, `Coordinator`, `CoveragePromise` | the coordinator and the evidence bridge over read gateways; refines `CoveragePromise` | type, slots, limits, evidence, refinement |
| 5 | `SemanticMemory` | memory promotes into the assertion graph | type, governed memory, prompt views, a consistent present |
| 6 | `SourceRouting`, `CheckpointLedger` | router over mapping registry and freshness, answer envelope; checkpoints | type, governed routes, checkpoints advance |
| 7 | the sixteen modules about the edges, composed by `MCBoundary` | policy, planner and readers; doors; approvals; packages; evidence; live source; labs | type, and every safety property |

Theorems state every safety property and action property that a passing run
checks; of the liveness properties, see the section on proofs.

## What is modelled

In all modules an action is what a task does from one `await` to the next, one
journal transaction, or one step of the outside world (source, operating
system). That is the granularity at which asyncio tasks and processes can
overtake each other.

### DurableGateway (`durability.py`)

| State | Code |
|---|---|
| `journal` | table `action_records`, one row per (source, idempotency key): state, digest (a plan stands for its digest), `attempts`, receipt |
| `prepared` | what `verify()` takes from `action_events`: the last `prepared` event of each action_id |
| `pc`, `action`, `reply`, `outcome` | the call frames of `DurableActionGateway.execute` and `reconcile` |
| `source`, `wire` | the source's idempotency table, and requests it has not processed |
| `sends`, `faults` | history and a bound; no counterpart in the code |

`execute` is StartExecute, then ExecuteDenied or one of PrepareNew (followed by
Reread, a transaction of its own), PrepareConflict and PrepareExisting, then
BeginPrepared, BeginExecuted or BeginForbidden, ConnectorMissing or Dispatch,
and MutateSucceeds, MutateFails or MutateRaises. `reconcile` is StartReconcile,
then ReconcileDenied, ReconcileConflict, ReconcileClosed, ReconcileImpossible or
ReconcileAsks, and ReconcileProves, ReconcileUnresolved or ReconcileRaises.
`Finish` is `_finish`. Between the points in `SyncPoints` there is no await: the
guard `LoopFree` keeps other tasks of that process out, while tasks of another
process and crashes get in. `Abort` is a cancelled task or an `sqlite3.Error`
(the transaction is rolled back), `Crash` the death of the process. The source
follows the reference labs: an idempotency table, conditional writes, and a
`reconcile` that compares key, action_id and postconditions. No await of the
connector has a deadline: a call whose answer was lost is `Unanswered`, and may
stay so for ever.

`AtMostOnceAction` is what an observer of the source is promised: a key is
bound once, its action is sent at most once and applied at most once, after it
was sent. The refinement maps `binding` to the journal's actions and `effect`
to the source's table.

### ActionSaga (`actions.py`: `ActionGateway`, `ActionSagaCoordinator`)

`idempotency` is `ActionGateway._idempotency`; `pos` and `undo` say which
forward step or compensation `run` works on. A step is PreviewAllowed, then
Refused, Conflict, Replay or Dispatch, then MutateSucceeds (which binds the key
after the await, as the code does) or MutateFails. Advance, Rewind, StartUndo
and StepFails are what `run` does after a step; Raises is any exception outside
`_controlled_failures`. Crash empties `idempotency` and leaves the source and
the requests on their way. Approvals, preview expiry and policy are a choice to
refuse; a compensation is the derived plan with key and action_id suffixed by
`:compensate`.

### WorkerClient (`worker.py`)

`waiters` and `active` are the semaphore's FIFO queue and its slots taken; each
call has a `worker` (none, running, exited or killed, reaped by the event
loop), a `helper` (any other process of the worker's session that holds its
pipes) and `stuck` (output left in a pipe nobody reads). Queue, Acquire and
CancelQueued are the semaphore; Spawn, SpawnFails and SpawnLate the start; Sent,
PipeBreaks and Complete the exchange; Timeout, Cancel and TooLong lead through
`Terminate` (`_terminate`) to Terminated or CancelTerminating. The worker
program is arbitrary: it may hang or exit at any time and, as the constant
`Misbehaviours` allows, leave its request unread, start helpers, or flood its
output.

### ReadGateway, Exchange (`runtime.py`, `models.py`, `worker_connector.py`)

| State | Code |
|---|---|
| `registry` | `_connectors` |
| `pc` | where a call of `discover`, `execute` or `search` waits |
| `waiters`, `slots` | each connector's `asyncio.Semaphore`: its FIFO queue and free slots |
| `rows`, `bytes` | `total_rows`, `total_bytes` |
| `passed`, `carried` | history: rows or hits, and bytes, in what the consumer was given |
| `result` | how the call ended |

Call or Refuse (preconditions), Authorize or Reject (policy), Admit (queue),
Enter (a slot), then for a query Pull (the next batch: BatchAccepted is the
checks of `execute`), Emit (telemetry), Resume (the consumer comes back),
Exhausted, Close (`aclose` by the consumer); for a search Answer; for a
discovery List and Report. Fail is any exception of a service or connector,
Expire the deadline, Cancel the cancellation of the task, which reaches every
read the task is in: a consumer may start reads of its own (`Caller`) while it
holds a batch, and those go with it. A generator that is suspended at a `yield`
when its consumer is interrupted keeps its slot until it is closed or collected
(Collect). `Exchange` says which items of a worker's
JSON become batches and hits, and how they are measured and checked.

### Coordinator, CoveragePromise (`coordination.py`, `coverage.py`, `cross_plane.py`)

A run is Dispatch (one task per step; the steps are reads of ReadGateway), then
Conclude, Reraise or CancelRun. `Included` and `Excluded` are the sets that the
code builds before it makes the coverage statement. A publication is Publish,
SDKStores or SDKFails, ADLCStores or ADLCFails: a sink may store and lose its
answer, and a caller may publish again. `CoveragePromise` knows sources and
their fate only: each is settled once, and a statement is made when all are.
The refinement maps `fate` to the results of a source's steps.

### SemanticMemory (`semantic.py`, `semantic_memory.py`)

`graph`, `retracted` and the assertion times are AssertionGraph; `candidate` and
`memory` are GovernedSemanticMemory. Assert, Retract and RetractAgain, Propose,
Review, Promote are its operations, with the checks in the code's order; who
builds an assertion chooses its times, and who builds a candidate its status and
reviewer (`Stances`); the clock ticks between operations. `claimed` and `judged`
are histories of who approved a candidate, by itself or through `review()`.
`Contradicts` is the graph's check on append: clusters of *same as* against
*not same as*, as they are at the present instant.

### SourceRouting, CheckpointLedger (`governance.py`, `freshness.py`, `routing.py`, `context.py`)

ProposeMapping, ReviewMapping and DetectDrift move a mapping through its life,
ChangeSchema changes what the source really has, Observe is `record` (it keeps
the newer observation, future ones as well), Route is `route` with its whole
selection, and ConcludeAnswer and ConcludeWithout make the context envelope: the
one compares neither the sources covered nor those cited with the route.
CheckpointLedger has the one operation that matters, Record; `deliveries` is the
history of the tokens it was called with.

### The edges (`MCBoundary`)

Sixteen modules that share no state; in each behaviour of `MCBoundary` one of
them moves.

| Module | Code | State and actions |
|---|---|---|
| `LiveSource` | `live/connectors.py`, PostgreSQL `mutate` | table, keys, row and key locks of open transactions; LookUp, Update, Bind, Commit, Confirm, Drop |
| `ChangeStream` | `lab.py`, EventConnector and `logical_events` | the file's events, a consumer with a stored checkpoint; Subscribe, Process, Record, Snapshot, CrashConsumer, Outage |
| `ServicePages` | `live/service_api.py`, REST and offline connector | one read of a paged collection; FetchPage, CallFails, OfflineRows, YieldPage |
| `QueryAccess` | `policy.py`, `planning.py`, three readers | grant, constraints, request, decision, and the fields that a reader delivered and filtered by; Compile, Write, Regrant, Authorise, ReadTables, ReadWorker, ReadPostgreSQL |
| `LabAccess` | `lab.py`, WhiteGoodsPolicy and connectors | Ask |
| `Northbound` | `protocol.py`, `protocol_profiles.py`, `delegation.py` | the catalog deployed, what each agent has read; Redeploy, ListTools, CallTool, SendMessage |
| `Approvals` | `actions.py`, previews and HMAC approvals | previews, approvals issued, the clock; ClockTicks, PreviewAction, Issue, Present |
| `AuditLedger` | `actions.py`, ActionAuditLedger | AppendEntry, EmitFails; ChangeEntry, LoseEntry and ExchangeEntries damage a copy |
| `SignedPackages` | `packaging.py` | builds, archives on their way, verification |
| `Decoding` | `decoder.py` | HTML tokens, ignored depth, whether the parser holds the last text back |
| `ReleaseEvidence` | `acceptance.py`, `cli.py` | releases (revision and artifact digest), evidence, the document; Release, ObserveStage, VerifyShape, DropEvidence, WritePaper, EditPaper, VerifyAcceptance |
| `Promotion` | `promotion.py` | evidence pieces in order, compatibility matrix |
| `PackFactory` | `pack_factory.py` | passes over waiting datasets; TryDataset, EndPass |
| `WorkerConnector` | `worker_connector.py`, `deployment.py` | one call: Refuse, Invoke, Yield, EndQuery, EndOther |
| `LocalLab` | `live/local_lab.py`, readiness certifier | sources, images, compose project, files; one action per command of a run, Kill, CommandFails, EditSources, BuildElsewhere |
| `HarnessImage` | `live/harness_runtime_lab.py`, readiness certifier | checkout with its untracked files, wheel, image, records; CheckClean, ReadRevision, PackWheel, BuildImage and so on, ChangeTree and TagElsewhere at any time |

The readers of `ChangeStream`, `ServicePages` and `ReadGateway` list and sort with
`Listing`.

## Runs

| Run | Instance | What it shows |
|---|---|---|
| `durable_one_process` | 1 process, 3 concurrent calls (symmetric), 2 plans on 1 key, 2 faults, 2 sends | WriteAhead, SuccessIsReal, and AtMostOnce: the refinement of `AtMostOnceAction` |
| `durable_two_processes` | 2 processes with 1 call slot each, 1 plan, 2 faults | what needs no single process (EffectsAreRecoverable, ExecutedNeverFails); every call returns unless its connector never answers; every effect is closed if an operator keeps reconciling |
| `durable_reopened` | 2 calls, 1 plan, no fault | violates ClosedStaysClosed (below) |
| `durable_failed_journal` | 1 call, 1 plan, no fault | violates JournalVerifies (below) |
| `saga` | 3 sagas of 3, 2 and 1 steps over 3 plans, two of which share a key | receipts are real, reverse compensation, no compensation without effect, every run ends unless its connector never answers |
| `saga_key_reuse` | 2 single actions, one key, one action_id | violates KeyReuseFailsClosed (below) |
| `worker` | 3 calls, 2 slots, helpers | slots and ceiling hold, every queued call ends |
| `worker_flood` | 2 calls, 1 slot, flooding workers | violates CallsEnd (below) |
| `retrieval` | a run of 3 steps over 2 connectors of 1 slot, a direct query that nests a search and a discovery, 8 kinds of batch and 7 lists of hits, 1 publication with 2 attempts | SlotsConserved, ConsumerWithinLimits (rows, hits and bytes), EvidenceIsBacked; KeepsPromise: the refinement of `CoveragePromise` |
| `queues` | 2 connectors of 1 slot, two collected queries and a direct one that nests a search | QueuedReadsProceed with no help but deadlines and the collection of abandoned generators |
| `knowledge` | 3 entities, 3 assertions (one promoted from memory), 3 spans of validity, 2 instants; 3 mappings of 2 concepts on 2 assets, 2 digests, 2 requests; 1 stream, 2 versions | no view at the present contradicts itself by later writes, memory was approved by the reviewer it names, routes rest on reviewed, undrifted, fresh mappings, a stream resumes from the furthest of its tokens |
| `boundary` | the sixteen modules above, one moving in each behaviour | one property per concern: MutationsAreConditional, ReadsAreWhole, AccessIsScoped, PlansAreAsListed, AcceptedWasApproved, ChainTellsDamage, PacksAreSound, OnlyVisibleTextIsKept, ReleasesAreEarned, WorkersAreContained, CertifiedIsReal |

*Bounds, durable, saga, worker.* Call slots are reused, so two or three of them
stand for any number of successive calls. Three concurrent calls are a first
call, one that overtakes it, and one that reconciles; two plans on one key are
the least that conflict. Two faults allow a crash during recovery from a crash.
`MaxSends = 2` only cuts off what happens after a second request for a key; with
one process it is never reached (theorem AtMostOneDispatchHolds). Keys do not
interact (no handler reads two rows, `verify` apart), so one is enough. Three
steps are the least for which the order of compensations matters in the middle
of a saga. Three calls on two slots are two in an exchange and one waiting for
either to leave.

*Bounds, retrieval.* One slot per connector makes a nested read wait for its own
caller, the one way in which reads can wait in a circle; two steps on one
source make a source that is half done; a limit of 2 rows with batches of 1 and
2 reaches it exactly, crosses it, and stays below. `SDKBound = 2` is a first
publication and a repeated one.

*Bounds, knowledge.* Three assertions are the least that contradict through a
chain (x = y, y = z, x # z). Two instants tell apart before and after any event;
a maximum age of 0 stands for one shorter than an instant. Two mappings of one
concept and one of another give ambiguity, a limit on sources that leaves a
concept uncovered, and one source for two concepts. `Stances` are the three
things that a candidate may say of itself. The first and the second assertion
play one part, with x and z exchanged, hence the symmetry; it is used in a run of
invariants and action properties only.

*Bounds, boundary.* Four writers are a request sent twice, one that reuses its
key and one that competes for its row; three log entries are an event repeated
on either side of another; four appointments cross pages of 1, 2 and 3 with and
without remainder; all reference graphs over three datasets contain every cycle
shape that an order of passes can meet; five tokens nest two elements and leave
one for text. One approval, two hours and two identities distinguish every
field of an approval; three entries and two damages recombine a chain. Two
revisions with two artifacts each make a release whose artifact was published
again. The other constants are pairs, the least that can be confused. `Sides` are
the modules that may move: all of them.

Deadlock is checked in the durable runs; in the others (`CHECK_DEADLOCK FALSE`)
the runs, calls, decisions and clocks are finite in number and the system stops
when all have ended.

## Fairness

- *Durable gateway*, `LoopFairness`: strong fairness of each call's TaskStep while
  the call is not `Unanswered`. asyncio runs every ready task in turn, and the
  policy evaluators decide in process. Of a connector that has been asked nothing
  is assumed: neither `durability.py` nor `actions.py` sets a timeout, and
  CallsReturn excepts the calls that are never answered. Strong, because other
  tasks may hold the loop in between. Abort and Crash are not part of it, nor is
  any step of the source: a request may be lost.
- `OperatorFairness`, the premise of EffectsAreEventuallyClosed: no mutation stays
  unanswered for ever (its connection breaks at last), someone keeps calling
  `reconcile` for each action (the code leaves this to the operator, see
  `pending`), is not denied for ever, and the source answers some calls.
- *Saga*: weak fairness of each run's RunStep while the run is not `Unanswered`; no
  fairness of Start, Raises, Crash or the source. RunsEnd excepts the runs that are
  never answered.
- *Worker client*: weak fairness of Acquire (the semaphore is FIFO and wakes
  its first waiter), of the end of spawning, of Timeout (a timer of the loop),
  of Terminated, and of Reap for ended processes. None of the worker's own
  steps: it may hang for ever.
- *Read gateway and coordinator*, `CoordinatorFairness`: weak fairness of Enter
  (a freed semaphore wakes its first waiter, and the loop runs it), of Expire
  (`asyncio.timeout` is a timer of the loop) and of Collect (asyncio's hook closes
  an asynchronous generator that nobody refers to any more). Nothing is assumed of
  connectors, policy or telemetry, and of consumers that they let a cancellation
  through and do not keep the generator: QueuedReadsProceed holds because every
  read that holds a slot runs under a deadline, even while its consumer works.
- The knowledge and boundary runs check safety only and assume nothing.

## Proofs

All proofs hold for every value of the constants that meets the named
assumptions of the modules: types of the functions, `None` not an action,
finitely many calls, reads and writers, at least one slot, the steps of a plan in
no other plan, distinct positive sequence numbers in an event file, collections
that are sequences, bounds and batch sizes that are natural numbers.

`DurableGateway_proofs` builds its invariant in layers. TypeInv adds to TypeOK
that a call that has started has a plan. *BindingInv*: a row exists exactly if it
names an action, the row, the calls past `prepare`, the requests and the source's
entries agree on it, and a call past `begin` or a request implies that the row has
left `prepared`; rows only move forward (lemma Advance). It gives **WriteAhead**.
*OutcomeInv*: while the source has no entry for a key at most one call is about to
dispatch it or one request for it is on its way, a success reply and an executed
row stand for a confirmed entry, and a failed row has no confirmed entry and none
to come. It is needed because SuccessIsReal says nothing of replies that have not
been consumed. It gives **SuccessIsReal**, **EffectsAreRecoverable** and
**ExecutedNeverFails**, for any number of processes. *DispatchInv* assumes a
single process (`SingleProcess`): at most one call is at a synchronous point, a
call about to dispatch stands for the one transition out of `prepared`, so `sends`
is at most 1. It gives **AtMostOneDispatch** and, with the step simulation
RefinementNext, **AtMostOnce** (the refinement).

`ActionSaga_proofs`: the source's table is never overwritten, so Applied(plan) is
stable. *SagaInv* says that success replies, table entries and compensations on
their way each imply Applied of what they stand for; the stated properties mention
receipts only and are not inductive without it. It gives **ReceiptsAreReal**,
**UndoneInReverse** and **NoUndoWithoutEffect**, under `DistinctIds`: plans that
share a key differ in action_id. Without that assumption ReceiptsAreReal is false;
run `saga_key_reuse` shows how. **RunsWindDown** and **RunsAreBounded** are the part
of RunsEnd that needs no fairness, and hold without that assumption too: the modelled awaits a
run can still have are a natural number that each of its steps, and Crash, lowers
and nothing raises, at most 6n - 2 for n steps. A run that fails at its last step
compensates at most n - 1 others, and the number counts these from the start, so that
turning back lowers it as well.

`WorkerClient_proofs`: *ClientInv* is TypeOK, QueueInv (the queue holds each
queued call once) and SlotInv (`active` is the number of calls between Acquire and
Leave); *RunningInv* says that a worker runs only while its call is in the
exchange. Together they give **ParallelismCeiling**, under the assumption that
workers read their requests.

`Coordinator_proofs`: *SlotInv* types `pc` and `slots` and says that readers
inside a connector and its free slots add up to its maximum. Every way out is
`Leave`, which frees the slots of exactly the reads it ends (cardinality of a
difference of finite sets), or Answer, which frees its own; every way in takes
one. *LimitInv* adds to ConsumerWithinLimits that the rows and the bytes that a query
has let pass are those it has counted, without which the check before a batch says
nothing of the batches before it. They give **SlotsConserved** and **ConsumerWithinLimits** for
any finite set of reads, nested or coordinated. *RunInv* says that a run that has
stated or raised has no read under way, and that it has made no statement before.
A step of the gateway settles at most the source of its own read, for a step of a
plan is a task of its own (StepsAreTasks), and a settled fate stays (StepSettles).
With these each step of the coordinator is a step of the promise or none:
**KeepsPromise**. *TruthInv* (a run that calls itself complete is) and *BridgeInv*
(a publication that has asked a sink is about a stated run, and its receipt is
that of what it is about) give **EvidenceIsBacked**, which is not inductive: it is
silent about publications between the two sinks. **CoordinatorTyped** needs
*QueueInv*: a read waits in its connector's queue once, and exactly while its `pc`
says so, or the queue's type would not survive a reader that leaves it; *TotalInv*
and *PlaneInv* bound the totals and the publications.

`Knowledge_proofs`. *GovernedInv* adds to MemoryIsGoverned that an approved
candidate that names a reviewer names the one who approved it, through `review()`
or by its own account, for `promote` stores whom it finds there:
**MemoryGoverned**. **PresentIsKeptConsistent**, an action property, needs the
type only: `append` compares the classes of *same as* before the write with the
*not same as* pairs after it, and classes are equal or disjoint, so that joining
two of them contradicts a pair only if the check sees it. *PromptInv* says of
assertions recorded when they are made and valid at all times what
PromptViewsConsistent says of views, without the present instant, and that none is
recorded later than now; the new one is known to everybody who knows another,
hence **PromptViewsAgree**. *RouteInv*: before its approval a mapping has met no
digest, and while it is routable no other than its own. It gives
**RoutesGoverned**; that a route covers each concept rests on the first of a
finite ordered set of mappings. **ResumesFromFurthestHolds** needs that the
order of tokens is transitive: what was refused was behind a token that the
present one is not behind. The parts share no variable: a step of the
composition is a step of each part or leaves it as it is, so **KnowledgeTyped**
and **KnowledgeGoverned** follow from the parts' theorems.

`Access_proofs`: the modules in which somebody decides and somebody else acts.
*AccessInv* says which grant the last decision was about, and that what was
allowed lies within it and what the planner compiled within its constraints:
**AccessWithinGrant**. *NorthInv*: a listing that an agent holds is what the
catalog with its digest exposes to that agent, and the plan replied is what such a
listing says, or one of A2A whose effect is exposed: **PlansListed**. *ApprovalsInv* is the type and that finitely many
approvals are issued; acceptance is decided in the step that accepts, and issued
approvals are never removed: **AcceptedWasApprovedHolds**. *ContainedInv* and
*HandedInv*: a request that was sent is authorised, and what was handed on is a
well-formed beginning of the worker's reply, all of it if the call returned:
**WorkersContained**. *LiveInv*: a transaction past its update still finds what it
expected in the row and nobody else on it, and past its binding nobody else on the
key; each committed write is in the table of keys and no newer than its row:
**MutationsConditional**. **LabShowsOwn** is the lab's policy. AccessWithinGrant and
LabShowsOwn state their exceptions in the formula: an empty selection, the worker's
plain filter, a plan that filters by asset at the lab, an agent that names no
customer.

`Boundary_proofs`: evidence, packs and readers. *LocalInv* and *HarnessInv* say of
each phase of a run, and of the files a killed run leaves behind, which image or
revision they are of, the tag having been moved and the checkout changed or not
(**LocalLabCertified**, **HarnessCommitted**); *ReleaseInv*
says that an acceptance that was reported follows from the paper
(**AcceptanceEarned**). **PromotionEarned**, **PackagesSound** (*PackagesInv*:
what is built is a package, what is on its way has an archive's form) and
**DamageIsTold** (*AuditInv*: what was appended is linked, and each entry of a
damaged copy comes from one of those) need little more than types; their work is
in the operators. The readers' loops need invariants of their own. *PackInv*: a
dataset comes after those it refers to; what waits has not been generated; and a
dataset tried in a pass without progress lacks a reference, so a generator that
gives up leaves a set each of whose members refers to another of it
(**PacksFollowReferences**). *PagesInv*: the rows are as many of those asked for
as the cursor and the limit allow (**PagesAreWhole**). *StreamInv* with
*Outstanding*: an open stream has pending exactly what lies beyond the event
processed last, and no event is processed more often than once, plus once for each
crash (**StreamNeverSkips**). *CountInv* says that the decoder's depth and what it
has kept are what a counter makes of the tokens read. **VisibleTextKept** compares
this with `Nested` and `Page`, which are defined by recursion over spans of the
document: first, that they satisfy their equations (the body applied again and
again to any predicate satisfies the equation up to greater and greater lengths);
then, by the shortest span that would break it, that the counter comes back to its
depth at the end of what nests and not before, that a page that begins at depth 0
ends there, and that a text found at depth 0 cuts a page in two pages.
**BoundaryTyped**, **EdgesAreKept** and five theorems about groups of parts put
them together as in `Knowledge_proofs`.

`Listing_proofs` has the lemmas about lists that the readers and queues need.
Comprehensions and sorting are no recursive definitions here:
`Listing.Increasing(S)` is the sequence of a finite set of numbers in ascending
order, and the lemmas say that there is one, since a set without one has a
smallest subset without one, and that every member is in it.

Only model-checked: liveness (CallsReturn, EffectsAreEventuallyClosed, RunsEnd,
CallsEnd, QueuedReadsProceed), which is out of the proof system's reach (of RunsEnd
the measure is proved, and that a run which has not ended always has a step to take
is left to TLC), and the violations. Where an argument goes by induction over data (lists, passes, spans),
the library's induction theorems cannot be instantiated; the proofs take a least
counterexample instead, from a well-founded order on finite sets.

## Where code and documents disagree

Shown by a run:

- `durable_failed_journal`: `verify()` rejects a journal that holds a failed
  action, for `fail()` stores a receipt and `verify()` (`durability.py:393`)
  allows receipts on executed rows only.
- `durable_reopened`: `_finish` overwrites the row whatever its state, so a call
  whose `mutate` raises after another call reconciled the action reopens the
  closed record and erases its receipt. ExecutedNeverFails says how far this
  can go.
- `saga_key_reuse`: the in-memory table is read before the await and written
  after it; two concurrent actions with one key and one action_id but different
  digests both get a success receipt.
- `worker_flood`: after a stream has exceeded its limit nobody reads it; if more
  is left than asyncio buffers, `process.wait()` in `_terminate`, which has no
  deadline, never returns, and the call keeps its slot.

Seen while modelling, present in the models, without a run of their own. Where a
property would say otherwise, it names the case as its exception:

- Memory: `propose()` stores the status and the reviewer that a candidate comes with
  (`semantic_memory.py:71`), and neither `review()` nor `promote()` compares the
  reviewer with the proposer (`semantic_memory.py:84`), while the phase 4 gates
  (`src/docs/testing/phase-4-gates.md:22`) say that unreviewed and self-reviewed
  promotion is denied. MemoryIsGoverned says which approval an entry rests on.
- Answers: `ContextEnvelope` asks for some lineage (`context.py:37`) where
  `src/docs/testing/phase-2-gates.md:20` speaks of record-level provenance across all
  included sources (`uncited` in SourceRouting).
- Readers: an empty selection passes the policy and is the whole row for the tables
  (`src/reference_labs/white_goods/lab.py:265`) and the worker; the worker falls back
  on a plain `where` (`phase6_worker.py:106`) that the policy does not look at. The
  phase 2 gates (`src/docs/testing/phase-2-gates.md:18`) have unauthorized fields fail
  before the connector.
- Lab policy: it reads the customer in the plain `where` (`lab.py:608`), the connector
  the one in `where_by_asset`; `src/docs/architecture/phase-1-white-goods-lab.md:25`
  says that cross-customer requests are rejected.
- Harness image: status, revision, wheel and image are four commands on a checkout
  that may change between them, and untracked files are not looked at
  (`harness_runtime_lab.py:33`), while
  `src/docs/architecture/phase-7-live-acceptance.md:47` says that the evidence binds
  the revision to the image (`torn`).
- Laptop lab: the last `down` may fail unnoticed (`local_lab.py:397`), while
  `src/docs/testing/phase-7-readiness-gates.md:48` says that the refresh tears its
  containers and volumes down (TakeDown).

- `verify()` keys prepared events by action_id alone, so an untampered journal
  in which two keys carry one action_id fails (`durability.py:370`; RowVerifies).
- With two processes on one journal, `begin()` lets an executed row through and
  `execute()` calls the source again (`durability.py:490`; BeginExecuted). The
  architecture document leaves several replicas out of scope; the properties of
  `durable_two_processes` are what still holds.
- A saga that was compensated and is run again replays the stored receipts of
  the compensated steps and reports completion (`actions.py:509`; Replay).
- A worker that closes its stdin unread makes `drain()` raise an exception that
  `_invoke` does not handle: it stays alive while its slot is free
  (`worker.py:242`; PipeBreaks). Hence the assumption of ParallelismCeilingHolds.
- A process started by a worker that has exited by itself outlives a call that
  runs into its deadline: nothing is killed once the worker is reaped
  (`worker.py:275`; Terminate).
- Saga: an exception that is not one of `_controlled_failures` ends `run()` with
  completed steps uncompensated (`actions.py:776`; Raises). A `mutate` that
  raises after the source applied it counts as failed and is not compensated
  (`actions.py:538`): no property claims otherwise.
- Read gateway: a deadline that passes while the consumer holds a batch reaches
  it as a raw `CancelledError`; awaits of policy and telemetry have no deadline;
  rows of a payload that is not a list are taken as declared, or as 0.
- Worker-backed connector: search passes no timeout to the worker; mutate,
  checkpoint and explain do not compare the source; the batches before a
  malformed one have been handed on.
- Coordinator: partial results and lineage of excluded sources are still
  returned beside the statement.
- `AssertionGraph` compares a new assertion with what is active at present: one
  dated in the future, or promoted with its old date, may contradict in a view
  of another time.
  PromptViewsConsistent and PresentStaysConsistent say what remains true.
  `view()` keeps memory whose assertion was retracted.
- Router: REFUSE behaves like EXCLUDE when another mapping of the concept is
  eligible; a missing observation is eligible under DEGRADE; a decision is not
  checked again before the answer; drift before approval goes unnoticed; an
  observation of equal time replaces one with a newer event time
  (`freshness.py:67`).
- Live connectors block inside async methods, so that gateway deadlines cannot
  fire meanwhile; a result without rows raises for lack of lineage; of two
  overlapping calls with one request the second is told that its preconditions
  failed although the request took effect (AnswersAreTrue is one-sided);
  PostgreSQL has no `reconcile()`; a service page size of 0 would loop.
- Decoder: the HTML parser is fed and never closed (`decoder.py:173`); a last text
  with an ampersand that neither a space nor a semicolon follows stays in its
  buffer and is lost (`HeldBack`, the exception in OnlyVisibleTextIsKept).
- Doors: A2A takes risk and approval mode from the requester, not the catalog
  (`delegation.py:82`), hence PlansAreAsListed says only of its effect that it is
  exposed; a missing `method` and an empty compensation operation escape the handlers as
  exceptions.
- Approvals can be used again until they expire; the audit chain does not see
  entries missing at its end; `build_signed_package` accepts paths and sizes
  that verification refuses; an acceptance document forged consistently in all
  its fields is accepted; a later pass hides an earlier failure in promotion,
  and the revision of evidence is not compared with the matrix; a pack
  reference to a field the target lacks escapes as `KeyError`; a profile's DNS
  and telemetry flags never reach the guard.
- Local lab: the first `down` ignores failure, so that a topic may survive and
  be seeded twice, while the checks look at the first nine events only (`quiet`
  in SeededOnce); the label of an image is taken before it is built and stays
  cached, so that LockedFromSources is about labels only; the tag may be moved
  between its comparison and its inspection (`moved`); lock and report are two
  files written one after the other; both labs share a compose project name.

## Not modelled, and why

- The hash chain and HMAC of the journal's `action_events`: nothing reads them
  back except `verify()`, and on an untampered journal they match. The audit
  ledger's chain is in AuditLedger.
- Clocks of the gateways: expiry of a preview is a possible refusal in
  ActionSaga (its times are in Approvals), a deadline a step that may happen at
  any time.
- Contents of parameters, receipts, rows and worker messages: only what decides
  about an outcome is kept (met, unmet, rejected; well formed or not). Digests
  and signatures are ideal.
- Processes that leave the worker's session (`setsid`): the client cannot
  reach them.
- The labs' certifiers and probes (`certify*.py`, `harness_probe.py`,
  `cross_plane_lab.py`, the bundle and wheelhouse tools): scripts that run the
  harness and compare its answers; they hold no state. Of the readiness
  certifier the two checks that bind the labs' records are modelled.
- The S3, Kafka and REST connectors as far as they only talk to their service,
  and ranking of search hits.
- Pure I/O and generated material: command line (but `verify-acceptance`),
  scaffolding, pack files, runtime server, `evidence.py`, conformance suite.
- Contracts, data classes, connector registry and telemetry sinks: no behaviour
  of their own.
- Composition of the edges with the gateways: the gateways take policy,
  approvals and connectors as parties that may answer anything, which includes
  what the edge modules allow; a composed run would add states, not behaviours.
