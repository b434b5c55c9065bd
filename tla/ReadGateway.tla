---------------------------- MODULE ReadGateway ----------------------------
(***************************************************************************)
(* Governed reads (runtime.py, HarnessGateway): discovery, streaming       *)
(* queries and searches over registered connectors.  A query or a search   *)
(* waits, without a deadline, for one of its connector's slots and holds   *)
(* it under the deadline of its request.  A streaming query keeps slot and *)
(* deadline while its consumer works on a batch, and the consumer may      *)
(* start another read meanwhile.                                           *)
(*                                                                         *)
(* Reads are tasks of one event loop; an action is what a task does from   *)
(* one await to the next.  Policy, telemetry and connectors are external:  *)
(* they may answer anything, fail, or never answer.  A cancelled consumer   *)
(* does not close its stream: the suspended generator keeps its slot until  *)
(* it is collected, and the event loop closes it.                          *)
(*                                                                         *)
(* Abstractions: a deadline may pass whenever a read runs under it; the    *)
(* cancellations of one task are delivered at once.                        *)
(***************************************************************************)
EXTENDS Exchange, FiniteSets, SequencesExt, Listing

CONSTANTS
    Reads,        \* calls of discover(), execute() and search()
    Connectors,   \* connectors
    Request,      \* the request of a read: source, kind, limit (rows or top_k)
    Caller,       \* the read whose batch the caller of a read is holding
    Collected,    \* reads run by a coordinator: batches are only collected
    Offers,       \* the kinds of read that a connector's capabilities allow
    MaxParallelism, MaxResultBytes,   \* ConnectorProfile.limits
    Batches,      \* what a connector may yield for a query
    HitLists      \* sequences of hits that it may return for a search

Kinds == {"discover", "query", "search"}

\* QueryRequest and SearchRequest, with the checks of their constructors; discover() has
\* a source only.
QueryRequests == [source : Connectors, kind : {"query"}, limit : Nat \ {0}]
SearchRequests == [source : Connectors, kind : {"search"}, limit : Nat \ {0}]
Discoveries == [source : Connectors, kind : {"discover"}, limit : Nat]

\* ConnectorProfile: every connector can be asked what it has.
ValidCapabilities(S) == "discover" \in S /\ S \subseteq Kinds

\* ConnectorLimits
ValidLimits(parallelism, size) == parallelism \in Nat \ {0} /\ size \in Nat \ {0}

\* The bytes of the hits of a search, added up.
TotalSize(hits) == FoldSeq(LAMBDA h, n : h.size + n, 0, hits)

ASSUME ReadsAssumption ==
    /\ IsFiniteSet(Reads) /\ Collected \subseteq Reads /\ None \notin Reads
    /\ \A r \in Reads : Request[r] \in QueryRequests \cup SearchRequests \cup Discoveries
ASSUME OffersAssumption ==      \* payloads have a size, and counts are whole numbers
    /\ \A b \in Batches : /\ {b.rows, b.size} \subseteq Nat
                          /\ {b.rowCount, b.byteCount} \subseteq Int \cup {None}
    /\ \A hits \in HitLists : Len(hits) \in Nat /\ TotalSize(hits) \in Nat
ASSUME CallerAssumption ==      \* nested reads do not nest further
    \A r \in Reads : Caller[r] # None =>
        Caller[r] \in Reads \ Collected /\ Caller[Caller[r]] = None
ASSUME ConnectorsAssumption ==
    \A c \in Connectors : /\ ValidCapabilities(Offers[c])
                          /\ ValidLimits(MaxParallelism[c], MaxResultBytes[c])

VARIABLES
    registry,   \* registered connectors
    pc,         \* where each read is
    waiters,    \* reads in the queue of each connector's semaphore
    slots,      \* free slots of each connector's semaphore
    rows,       \* total_rows of a query
    bytes,      \* total_bytes of a query
    passed,     \* rows or hits in what has passed the checks (history)
    carried,    \* bytes of payload in what has passed them (history)
    result      \* what each read ended with

totals == <<rows, bytes, passed, carried>>
vars == <<registry, pc, waiters, slots, totals, result>>

InSlot == {"pulling", "emitting", "holding", "abandoned"}
Points == {"idle", "authorizing", "queued", "listing", "reporting", "ended"} \cup InSlot

\* "failed" is any exception but CancelledError: a refusal, PolicyDenied, a result
\* violation, ConnectorDeadlineExceeded, or what a connector or a service raised.
Results == {"none", "failed", "cancelled", "closed", "returned"}

Source(r) == Request[r].source
Kind(r) == Request[r].kind
Active(r) == pc[r] \notin {"idle", "ended", "abandoned"}
Slotted == {r \in Reads : Kind(r) # "discover"}
Nested(r) == {s \in Reads : Caller[s] = r}

\* The reads that one task is in at the same time.
Root(r) == IF Caller[r] = None THEN r ELSE Caller[r]
Task(r) == {s \in Reads : Root(s) = Root(r)}

TypeOK ==
    /\ registry \subseteq Connectors
    /\ pc \in [Reads -> Points]
    /\ waiters \in [Connectors -> Seq(Reads)]
    /\ \A c \in Connectors : slots[c] \in 0..MaxParallelism[c]
    /\ rows \in [Reads -> Nat] /\ bytes \in [Reads -> Nat]
    /\ passed \in [Reads -> Nat] /\ carried \in [Reads -> Nat]
    /\ result \in [Reads -> Results]

\* _semaphore(): made at the first use, with all its slots free.
Semaphore(c) == MaxParallelism[c]

Init ==
    /\ registry = {}
    /\ pc = [r \in Reads |-> "idle"]
    /\ waiters = [c \in Connectors |-> <<>>]
    /\ slots = [c \in Connectors |-> Semaphore(c)]
    /\ rows = [r \in Reads |-> 0]
    /\ bytes = [r \in Reads |-> 0]
    /\ passed = [r \in Reads |-> 0]
    /\ carried = [r \in Reads |-> 0]
    /\ result = [r \in Reads |-> "none"]

-----------------------------------------------------------------------------
(* Control *)

Goto(r, point) == pc' = [pc EXCEPT ![r] = point]

Holders(S, c) == {r \in S : Source(r) = c /\ pc[r] \in InSlot}

\* A queue that the reads S have left.
Without(queue, S) == EntriesAt(queue, {i \in DOMAIN queue : queue[i] \notin S})

Forget(S) ==
    /\ rows' = [r \in Reads |-> IF r \in S THEN 0 ELSE rows[r]]
    /\ bytes' = [r \in Reads |-> IF r \in S THEN 0 ELSE bytes[r]]
    /\ passed' = [r \in Reads |-> IF r \in S THEN 0 ELSE passed[r]]
    /\ carried' = [r \in Reads |-> IF r \in S THEN 0 ELSE carried[r]]

\* Broken variant: a read that was not consumed to its end keeps its slot.
LeaveHolding(S, value) ==
    /\ pc' = [r \in Reads |-> IF r \in S THEN "ended" ELSE pc[r]]
    /\ result' = [r \in Reads |-> IF r \in S THEN value ELSE result[r]]
    /\ waiters' = [c \in Connectors |-> Without(waiters[c], S)]
    /\ slots' = [c \in Connectors |->
                    slots[c] + Cardinality({r \in Holders(S, c) : pc[r] # "holding"})]
    /\ Forget(S)

\* The reads S end and unwind: a waiter leaves the queue, a holder its slot.
Leave(S, value) ==
    /\ pc' = [r \in Reads |-> IF r \in S THEN "ended" ELSE pc[r]]
    /\ result' = [r \in Reads |-> IF r \in S THEN value ELSE result[r]]
    /\ waiters' = [c \in Connectors |-> Without(waiters[c], S)]
    /\ slots' = [c \in Connectors |-> slots[c] + Cardinality(Holders(S, c))]
    /\ Forget(S)

End(r, value) == Leave({r}, value)

\* The task of r is cancelled: what it awaits unwinds, a stream whose batch it
\* holds is left suspended.
Interrupt(r) ==
    LET S == {s \in Task(r) : Active(s)}
        awaited == {s \in S : pc[s] # "holding"}
    IN /\ pc' = [s \in Reads |-> IF s \in awaited THEN "ended"
                                 ELSE IF s \in S THEN "abandoned" ELSE pc[s]]
       /\ result' = [s \in Reads |-> IF s \in S THEN "cancelled" ELSE result[s]]
       /\ waiters' = [c \in Connectors |-> Without(waiters[c], S)]
       /\ slots' = [c \in Connectors |-> slots[c] + Cardinality(Holders(awaited, c))]
       /\ Forget(S)

-----------------------------------------------------------------------------
(* Authorization *)

Registered(r) == Source(r) \in registry /\ Kind(r) \in Offers[Source(r)]

\* The caller's task starts the read, or takes it up while it holds a batch.
Call(r) ==
    /\ pc[r] = "idle"
    /\ Caller[r] # None => pc[Caller[r]] = "holding"
    /\ \A s \in Task(r) : Active(s) => s = Caller[r]

\* registry.get() raises KeyError or UnsupportedCapability.
Refuse(r) ==
    /\ Call(r) /\ ~ Registered(r)
    /\ End(r, "failed")

Authorize(r) ==
    /\ Call(r) /\ Registered(r)
    /\ Goto(r, "authorizing")
    /\ UNCHANGED <<waiters, slots, totals, result>>

\* PolicyDenied, or an exception of the policy or the telemetry service.
Reject(r) ==
    /\ pc[r] = "authorizing"
    /\ End(r, "failed")

\* The decision is recorded; discovery has no slot, other reads queue for one.
Admit(r) ==
    /\ pc[r] = "authorizing"
    /\ \/ /\ Kind(r) = "discover"
          /\ Goto(r, "listing")
          /\ UNCHANGED waiters
       \/ /\ Kind(r) # "discover"
          /\ Goto(r, "queued")
          /\ waiters' = [waiters EXCEPT ![Source(r)] = Append(@, r)]
    /\ UNCHANGED <<slots, totals, result>>

\* Broken variant: a reader overtakes, and a slot too many is given out.
EnterAny(r) ==
    /\ pc[r] = "queued"
    /\ waiters' = [waiters EXCEPT ![Source(r)] = Without(@, {r})]
    /\ Goto(r, "pulling")
    /\ UNCHANGED <<slots, totals, result>>

\* asyncio.Semaphore serves in order of arrival; the deadline starts here.
Enter(r) ==
    /\ pc[r] = "queued"
    /\ LET c == Source(r)
       IN /\ slots[c] > 0 /\ r = Head(waiters[c])
          /\ waiters' = [waiters EXCEPT ![c] = Tail(@)]
          /\ slots' = [slots EXCEPT ![c] = @ - 1]
    /\ Goto(r, "pulling")
    /\ UNCHANGED <<totals, result>>

-----------------------------------------------------------------------------
(* Streaming: execute() *)

Count(r, b) ==
    /\ rows' = [rows EXCEPT ![r] = @ + BatchRows(b)]
    /\ bytes' = [bytes EXCEPT ![r] = @ + BatchBytes(b)]
    /\ passed' = [passed EXCEPT ![r] = @ + BatchRows(b)]
    /\ carried' = [carried EXCEPT ![r] = @ + b.size]

\* Broken variant: the bytes of each batch are measured by themselves.
BatchAcceptedSingly(r, b) ==
    /\ BatchBuilt(b) /\ BatchSound(b, Source(r))
    /\ BatchBytes(b) <= MaxResultBytes[Source(r)]
    /\ rows[r] + BatchRows(b) <= Request[r].limit

BatchAccepted(r, b) ==
    /\ BatchBuilt(b) /\ BatchSound(b, Source(r))
    /\ bytes[r] + BatchBytes(b) <= MaxResultBytes[Source(r)]
    /\ rows[r] + BatchRows(b) <= Request[r].limit

\* The connector yields a batch; it is counted, and checked.
Pull(r) ==
    /\ pc[r] = "pulling" /\ Kind(r) = "query"
    /\ \E b \in Batches :
          IF BatchAccepted(r, b)
          THEN Count(r, b) /\ Goto(r, "emitting") /\ UNCHANGED <<waiters, slots, result>>
          ELSE End(r, "failed")

\* The telemetry event is out: the batch goes to the consumer.
Emit(r) ==
    /\ pc[r] = "emitting"
    /\ Goto(r, IF r \in Collected THEN "pulling" ELSE "holding")
    /\ UNCHANGED <<waiters, slots, totals, result>>

Exhausted(r) ==
    /\ pc[r] = "pulling" /\ Kind(r) = "query"
    /\ End(r, "returned")

\* The connector or the telemetry service raises.
Fail(r) ==
    /\ pc[r] \in {"pulling", "emitting", "listing", "reporting"}
    /\ \E why \in {"failed", "cancelled"} : End(r, why)

\* The consumer asks for the next batch, or closes the stream, or nobody refers
\* to it any more.
ConsumerReady(r) == pc[r] = "holding" /\ \A s \in Nested(r) : ~ Active(s)

Resume(r) ==
    /\ ConsumerReady(r)
    /\ Goto(r, "pulling")
    /\ UNCHANGED <<waiters, slots, totals, result>>

Close(r) ==
    /\ ConsumerReady(r)
    /\ End(r, "closed")

-----------------------------------------------------------------------------
(* search() and discover() *)

HitsAccepted(r, hits) ==
    /\ Len(hits) <= Request[r].limit
    /\ \A i \in 1..Len(hits) : HitBuilt(hits[i]) /\ HitSound(hits[i], Source(r))
    /\ TotalSize(hits) <= MaxResultBytes[Source(r)]

\* The slot is free before the hits are checked.
Answer(r) ==
    /\ pc[r] = "pulling" /\ Kind(r) = "search"
    /\ \E hits \in HitLists :
          IF HitsAccepted(r, hits)
          THEN /\ Goto(r, "reporting")
               /\ slots' = [slots EXCEPT ![Source(r)] = @ + 1]
               /\ passed' = [passed EXCEPT ![r] = Len(hits)]
               /\ carried' = [carried EXCEPT ![r] = TotalSize(hits)]
               /\ UNCHANGED <<waiters, rows, bytes, result>>
          ELSE End(r, "failed")

List(r) ==
    /\ pc[r] = "listing"
    /\ Goto(r, "reporting")
    /\ UNCHANGED <<waiters, slots, totals, result>>

Report(r) ==
    /\ pc[r] = "reporting"
    /\ End(r, "returned")

-----------------------------------------------------------------------------
(* Deadlines and cancellation *)

\* Broken variant: only the connector is timed, not its consumer.
ExpireInConnector(r) ==
    /\ pc[r] = "pulling"
    /\ End(r, "failed")

\* asyncio.timeout cancels the task that entered it.  Inside the generator this
\* becomes ConnectorDeadlineExceeded; while the consumer holds a batch, it ends
\* whatever the consumer awaits, and the consumer.
Expire(r) ==
    /\ pc[r] \in {"pulling", "emitting", "holding"}
    /\ IF pc[r] = "holding" THEN Interrupt(r) ELSE End(r, "failed")

\* The caller's task is cancelled.
Cancel(r) ==
    /\ Active(r) /\ r \notin Collected
    /\ Interrupt(r)

\* The suspended generator of a cancelled consumer is collected: the event
\* loop's hook closes it, and it leaves its slot.
Collect(r) ==
    /\ pc[r] = "abandoned"
    /\ End(r, "cancelled")

\* ConnectorRegistry.register; an identity is registered once.
Register(c) ==
    /\ c \notin registry
    /\ registry' = registry \cup {c}
    /\ UNCHANGED <<pc, waiters, slots, totals, result>>

Step(r) ==
    /\ \/ Refuse(r) \/ Authorize(r) \/ Reject(r) \/ Admit(r) \/ Enter(r)
       \/ Pull(r) \/ Emit(r) \/ Exhausted(r) \/ Fail(r) \/ Resume(r) \/ Close(r)
       \/ Answer(r) \/ List(r) \/ Report(r)
       \/ Expire(r) \/ Cancel(r) \/ Collect(r)
    /\ UNCHANGED registry

Next == (\E r \in Reads : Step(r)) \/ \E c \in Connectors : Register(c)

Spec == Init /\ [][Next]_vars

\* The event loop runs what is ready, its timers, and the closing of generators
\* that no consumer refers to any more.
Fairness == \A r \in Slotted : /\ WF_vars(Enter(r) /\ UNCHANGED registry)
                               /\ WF_vars(Expire(r) /\ UNCHANGED registry)
                               /\ WF_vars(Collect(r) /\ UNCHANGED registry)

FairSpec == Spec /\ Fairness

-----------------------------------------------------------------------------
(* Properties *)

\* Every slot is free or held by one read, whichever way reads end: max_parallelism
\* is the number of reads inside a connector, and no slot is ever lost (the async
\* with of execute() and search(), left by return, exception, closing, deadline
\* and cancellation).
SlotsConserved ==
    \A c \in Connectors : slots[c] + Cardinality(Holders(Reads, c)) = MaxParallelism[c]

\* Over all its batches a consumer is given no more rows, or hits, than it asked
\* for and no more bytes of payload than the connector declares, whatever the
\* batches say of their own sizes (execute() and search()).
ConsumerWithinLimits ==
    \A r \in Reads : /\ passed[r] <= Request[r].limit
                     /\ carried[r] <= MaxResultBytes[Source(r)]

\* A read that waits for a slot gets one or ends, whatever policy, telemetry,
\* connectors and consumers do: the deadlines of those who hold slots see to it,
\* also when a consumer waits for a slot that only it can free.  It takes
\* consumers that let the cancellation through and do not keep their stream.
QueuedReadsProceed == \A r \in Slotted : pc[r] = "queued" ~> pc[r] # "queued"
=============================================================================
