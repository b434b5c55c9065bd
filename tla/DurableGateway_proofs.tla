----------------------- MODULE DurableGateway_proofs -----------------------
(***************************************************************************)
(* Theorems about DurableGateway, for every number of processes, calls,    *)
(* plans and faults.                                                       *)
(***************************************************************************)
EXTENDS DurableGateway, TLAPS

USE ProcessOfAssumption, KeyOfAssumption, IdOfAssumption, NoneAssumption,
    MaxFaultsAssumption, MaxSendsAssumption

-----------------------------------------------------------------------------
(* Type correctness *)

(* A call that has started works on a plan. *)
Busy == \A c \in Calls : pc[c] # "idle" => action[c] \in Actions

TypeInv == TypeOK /\ Busy

LEMMA TypeInit == Init => TypeInv
  BY DEF Init, TypeInv, TypeOK, Busy, NoRow, Rows, RowStates, Receipts, Points,
         SyncPoints, AwaitPoints, Replies, Outcomes

(* Finish leaves a well-formed journal and does nothing else. *)
LEMMA FinishRow ==
    ASSUME TypeInv, NEW c \in Calls, pc[c] # "idle", NEW v \in RowStates, NEW r \in Receipts,
           Finish(c, v, r)
    PROVE  /\ Key(c) \in Keys
           /\ journal' \in [Keys -> Rows]
           /\ prepared' = prepared
           /\ journal[Key(c)].action = action[c]
           /\ journal'[Key(c)].action = action[c]
           /\ journal'[Key(c)].state = v
           /\ journal'[Key(c)].receipt = r
           /\ \A k \in Keys : k # Key(c) => journal'[k] = journal[k]
  <1>1. Key(c) \in Keys
    BY DEF TypeInv, TypeOK, Busy, Key
  <1>2. journal \in [Keys -> Rows] /\ journal[Key(c)] \in Rows
    BY <1>1 DEF TypeInv, TypeOK
  <1> DEFINE row == [journal[Key(c)] EXCEPT !.state = v, !.receipt = r]
  <1>3. row \in Rows /\ row.action = journal[Key(c)].action /\ row.state = v /\ row.receipt = r
    BY <1>2 DEF Rows
  <1>4. journal' = [journal EXCEPT ![Key(c)] = row]
    BY DEF Finish
  <1> HIDE DEF row
  <1>5. journal' \in [Keys -> Rows] /\ journal'[Key(c)] = row
        /\ \A k \in Keys : k # Key(c) => journal'[k] = journal[k]
    BY <1>1, <1>2, <1>3, <1>4
  <1> QED BY <1>1, <1>3, <1>5 DEF Finish, Row

(* begin() moves a prepared row to executing and counts the attempt. *)
LEMMA BeginRow ==
    ASSUME TypeInv, NEW c \in Calls, BeginPrepared(c)
    PROVE  /\ Key(c) \in Keys
           /\ journal' \in [Keys -> Rows]
           /\ journal[Key(c)].state = "prepared"
           /\ journal'[Key(c)].action = journal[Key(c)].action
           /\ journal'[Key(c)].state = "executing"
           /\ journal'[Key(c)].receipt = journal[Key(c)].receipt
           /\ \A k \in Keys : k # Key(c) => journal'[k] = journal[k]
  <1>1. Key(c) \in Keys
    BY DEF TypeInv, TypeOK, Busy, Key, BeginPrepared
  <1>2. journal \in [Keys -> Rows] /\ journal[Key(c)] \in Rows
    BY <1>1 DEF TypeInv, TypeOK
  <1> DEFINE n == Row(c).attempts + 1
             row == [journal[Key(c)] EXCEPT !.state = "executing", !.attempts = n]
  <1>3. row \in Rows /\ row.action = journal[Key(c)].action /\ row.state = "executing"
        /\ row.receipt = journal[Key(c)].receipt
    <2>1. n \in Nat
      BY <1>2 DEF Rows, Row
    <2> HIDE DEF n
    <2> QED BY <1>2, <2>1 DEF Rows, RowStates
  <1>4. journal' = [journal EXCEPT ![Key(c)] = row]
    BY DEF BeginPrepared, Row
  <1> HIDE DEF row
  <1>5. journal' \in [Keys -> Rows] /\ journal'[Key(c)] = row
        /\ \A k \in Keys : k # Key(c) => journal'[k] = journal[k]
    BY <1>1, <1>2, <1>3, <1>4
  <1> QED BY <1>1, <1>3, <1>5 DEF BeginPrepared, MayBegin, Row

LEMMA TypeNext == TypeInv /\ [Next]_vars => TypeInv'
  <1> SUFFICES ASSUME TypeInv, [Next]_vars PROVE TypeInv'
    OBVIOUS
  <1> USE DEF TypeInv, TypeOK, Busy, Points, SyncPoints, AwaitPoints, Replies, Outcomes,
              Requests, journalVars, sourceVars, Goto, Answer, Proceed, Key, Row
  <1>1. ASSUME NEW c \in Calls, NEW a \in Actions, StartExecute(c, a) PROVE TypeInv'
    BY <1>1 DEF StartExecute
  <1>2. ASSUME NEW c \in Calls, NEW a \in Actions, StartReconcile(c, a) PROVE TypeInv'
    BY <1>2 DEF StartReconcile
  <1>3. ASSUME NEW c \in Calls, SyncStep(c) PROVE TypeInv'
    <2>1. CASE Reread(c)
      BY <2>1 DEF Reread, UseRecord
    <2>2. CASE BeginPrepared(c)
      <3>1. journal' \in [Keys -> Rows]
        BY <2>2, BeginRow
      <3> QED BY <2>2, <3>1 DEF BeginPrepared
    <2>3. CASE BeginExecuted(c) \/ BeginForbidden(c) \/ ConnectorMissing(c)
      BY <2>3 DEF BeginExecuted, BeginForbidden, ConnectorMissing
    <2>4. CASE Dispatch(c)
      BY <2>4 DEF Dispatch
    <2> QED BY <1>3, <2>1, <2>2, <2>3, <2>4 DEF SyncStep
  <1>4. ASSUME NEW c \in Calls, ExecuteResumes(c) PROVE TypeInv'
    <2>1. CASE PrepareNew(c)
      BY <2>1 DEF PrepareNew, Rows, RowStates, Receipts
    <2>2. CASE ExecuteDenied(c) \/ PrepareConflict(c)
      BY <2>2 DEF ExecuteDenied, PrepareConflict
    <2>3. CASE PrepareExisting(c)
      BY <2>3 DEF PrepareExisting, UseRecord
    <2> QED BY <1>4, <2>1, <2>2, <2>3 DEF ExecuteResumes
  <1>5. ASSUME NEW c \in Calls, MutateEnds(c) PROVE TypeInv'
    <2>1. pc[c] # "idle" /\ \E v \in RowStates, r \in Receipts : Finish(c, v, r)
      BY <1>5 DEF MutateEnds, MutateSucceeds, MutateFails, MutateRaises, RowStates, Receipts
    <2>2. journal' \in [Keys -> Rows] /\ prepared' = prepared
      BY <2>1, FinishRow
    <2> QED BY <1>5, <2>2 DEF MutateEnds, MutateSucceeds, MutateFails, MutateRaises
  <1>6. ASSUME NEW c \in Calls, ReconcileResumes(c) PROVE TypeInv'
    <2>1. CASE ReconcileClosed(c)
      BY <2>1 DEF ReconcileClosed, Replayable, Rows, Receipts
    <2>2. CASE ReconcileDenied(c) \/ ReconcileConflict(c) \/ ReconcileImpossible(c)
               \/ ReconcileAsks(c)
      BY <2>2 DEF ReconcileDenied, ReconcileConflict, ReconcileImpossible, ReconcileAsks
    <2> QED BY <1>6, <2>1, <2>2 DEF ReconcileResumes
  <1>7. ASSUME NEW c \in Calls, ReconcileEnds(c) PROVE TypeInv'
    <2>1. CASE ReconcileRaises(c)
      BY <2>1 DEF ReconcileRaises
    <2>2. CASE ReconcileProves(c) \/ ReconcileUnresolved(c)
      <3>1. pc[c] # "idle" /\ \E v \in RowStates, r \in Receipts : Finish(c, v, r)
        BY <2>2 DEF ReconcileProves, ReconcileUnresolved, RowStates, Receipts
      <3>2. journal' \in [Keys -> Rows] /\ prepared' = prepared
        BY <3>1, FinishRow
      <3> QED BY <2>2, <3>2 DEF ReconcileProves, ReconcileUnresolved
    <2> QED BY <1>7, <2>1, <2>2 DEF ReconcileEnds
  <1>8. ASSUME NEW c \in Calls, Return(c) PROVE TypeInv'
    BY <1>8 DEF Return
  <1>9. ASSUME SourceStep PROVE TypeInv'
    <2>1. ASSUME NEW m \in wire, SourceReplays(m) PROVE TypeInv'
      BY <2>1 DEF SourceReplays, Deliver
    <2>2. ASSUME NEW m \in wire, SourceRejects(m) PROVE TypeInv'
      BY <2>2 DEF SourceRejects, Deliver
    <2>3. ASSUME NEW m \in wire, NEW met \in BOOLEAN, SourceApplies(m, met) PROVE TypeInv'
      BY <2>3 DEF SourceApplies, Deliver
    <2>4. ASSUME NEW c \in Calls, SourceReconciles(c) PROVE TypeInv'
      BY <2>4 DEF SourceReconciles
    <2> QED BY <1>9, <2>1, <2>2, <2>3, <2>4 DEF SourceStep
  <1>10. ASSUME Fault PROVE TypeInv'
    BY <1>10 DEF Fault, Abort, Crash, Drop
  <1>11. CASE UNCHANGED vars
    BY <1>11 DEF vars
  <1> QED
    BY <1>1, <1>2, <1>3, <1>4, <1>5, <1>6, <1>7, <1>8, <1>9, <1>10, <1>11
    DEF Next, CallStep, TaskStep

(* The state keeps its shape, and faults stay within their bound: the       *)
(* journal's rows only ever hold the states, plans and receipts that        *)
(* prepare(), begin() and _finish() write.                                  *)
THEOREM TypeCorrect == Spec => []TypeOK
  <1>1. TypeInv => TypeOK
    BY DEF TypeInv
  <1> QED BY TypeInit, TypeNext, <1>1, PTL DEF Spec

-----------------------------------------------------------------------------
(* The write-ahead invariant *)

Unsent == {"absent", "prepared"}

(* A row exists exactly when it is bound. *)
RowShape == \A k \in Keys : journal[k].state = "absent" <=> journal[k].action = None

(* A call past prepare() works under its own binding; past begin(), the     *)
(* row has left "prepared".                                                 *)
CallBoundAt(c) ==
    /\ pc[c] \in SyncPoints \union {"mutating", "querying"} =>
          journal[KeyOf[action[c]]].action = action[c]
    /\ pc[c] \in {"dispatching", "mutating", "querying"} =>
          journal[KeyOf[action[c]]].state \notin Unsent

CallBound == \A c \in Calls : CallBoundAt(c)

WireBound ==
    \A m \in wire : /\ journal[KeyOf[m.action]].action = m.action
                    /\ journal[KeyOf[m.action]].state \notin Unsent

SourceBound ==
    \A k \in Keys :
        /\ source[k].action \in {None, journal[k].action}
        /\ source[k].action # None => journal[k].state \notin Unsent
        /\ source[k].met => source[k].action # None
        /\ sends[k] > 0 => journal[k].state \notin Unsent

BindingInv == TypeInv /\ RowShape /\ CallBound /\ WireBound /\ SourceBound

LEMMA BindingInit == Init => BindingInv
  <1> SUFFICES ASSUME Init PROVE BindingInv
    OBVIOUS
  <1>1. TypeInv
    BY TypeInit
  <1>2. RowShape /\ CallBound /\ WireBound /\ SourceBound
    BY DEF Init, NoRow, RowShape, CallBound, CallBoundAt, WireBound, SourceBound, Unsent, SyncPoints
  <1> QED BY <1>1, <1>2 DEF BindingInv

(* No step unbinds a row or takes it back to where it may be sent.          *)
RowsAdvance ==
    \A k \in Keys :
        /\ journal[k].state # "absent" =>
              journal'[k].state # "absent" /\ journal'[k].action = journal[k].action
        /\ journal[k].state \notin Unsent => journal'[k].state \notin Unsent
        /\ journal'[k].state = "absent" <=> journal'[k].action = None

LEMMA FinishAdvances ==
    ASSUME BindingInv, NEW c \in Calls, pc[c] \in {"mutating", "querying"},
           NEW v \in RowStates \ Unsent, NEW r \in Receipts, Finish(c, v, r)
    PROVE  RowsAdvance
  <1>1. pc[c] # "idle" /\ v \in RowStates
    OBVIOUS
  <1>2. /\ Key(c) \in Keys
        /\ journal'[Key(c)].action = journal[Key(c)].action
        /\ journal'[Key(c)].state = v
        /\ \A k \in Keys : k # Key(c) => journal'[k] = journal[k]
    BY <1>1, FinishRow DEF BindingInv
  <1>3. journal[Key(c)].state # "absent" /\ journal[Key(c)].action # None
    BY <1>2 DEF BindingInv, CallBound, CallBoundAt, RowShape, Key, Unsent
  <1> QED BY <1>2, <1>3 DEF BindingInv, RowShape, RowsAdvance, Unsent

(* Which steps write the journal. *)
LEMMA JournalFrame ==
    ASSUME [Next]_vars
    PROVE  \/ UNCHANGED journal
           \/ \E c \in Calls : \/ PrepareNew(c) \/ BeginPrepared(c) \/ MutateEnds(c)
                               \/ ReconcileProves(c) \/ ReconcileUnresolved(c)
  <1>1. ASSUME NEW c \in Calls, TaskStep(c)
        PROVE  \/ UNCHANGED journal
               \/ PrepareNew(c) \/ BeginPrepared(c) \/ MutateEnds(c)
               \/ ReconcileProves(c) \/ ReconcileUnresolved(c)
    BY <1>1 DEF TaskStep, SyncStep, ExecuteResumes, ReconcileResumes, ReconcileEnds, Reread,
                BeginExecuted, BeginForbidden, ConnectorMissing, Dispatch, ExecuteDenied,
                PrepareConflict, PrepareExisting, ReconcileDenied, ReconcileConflict,
                ReconcileClosed, ReconcileImpossible, ReconcileAsks, ReconcileRaises, Return,
                journalVars
  <1>2. ASSUME NEW c \in Calls, NEW a \in Actions, StartExecute(c, a) \/ StartReconcile(c, a)
        PROVE  UNCHANGED journal
    BY <1>2 DEF StartExecute, StartReconcile, journalVars
  <1>3. CASE SourceStep \/ Fault
    BY <1>3 DEF SourceStep, Fault, SourceReplays, SourceRejects, SourceApplies,
                SourceReconciles, Abort, Crash, Drop, journalVars
  <1>4. CASE UNCHANGED vars
    BY <1>4 DEF vars
  <1> QED BY <1>1, <1>2, <1>3, <1>4 DEF Next, CallStep

LEMMA Advance == BindingInv /\ [Next]_vars => RowsAdvance
  <1> SUFFICES ASSUME BindingInv, [Next]_vars PROVE RowsAdvance
    OBVIOUS
  <1>1. CASE UNCHANGED journal
    BY <1>1 DEF RowsAdvance, BindingInv, RowShape
  <1>2. ASSUME NEW c \in Calls, PrepareNew(c) PROVE RowsAdvance
    <2>1. Key(c) \in Keys /\ action[c] \in Actions
      BY <1>2 DEF PrepareNew, BindingInv, TypeInv, TypeOK, Busy, Key
    <2> QED BY <1>2, <2>1 DEF PrepareNew, RowsAdvance, BindingInv, RowShape, TypeInv, TypeOK,
                             Unsent, Row
  <1>3. ASSUME NEW c \in Calls, BeginPrepared(c) PROVE RowsAdvance
    <2>1. /\ Key(c) \in Keys
          /\ journal[Key(c)].state = "prepared"
          /\ journal'[Key(c)].action = journal[Key(c)].action
          /\ journal'[Key(c)].state = "executing"
          /\ \A k \in Keys : k # Key(c) => journal'[k] = journal[k]
      BY <1>3, BeginRow DEF BindingInv
    <2> QED BY <2>1 DEF RowsAdvance, BindingInv, RowShape, Unsent
  <1>4. ASSUME NEW c \in Calls, MutateEnds(c) PROVE RowsAdvance
    <2>1. /\ pc[c] \in {"mutating", "querying"}
          /\ \E v \in RowStates \ Unsent, r \in Receipts : Finish(c, v, r)
      BY <1>4 DEF MutateEnds, MutateSucceeds, MutateFails, MutateRaises, RowStates, Receipts,
                  Unsent
    <2> QED BY <2>1, FinishAdvances
  <1>5. ASSUME NEW c \in Calls, ReconcileProves(c) \/ ReconcileUnresolved(c)
        PROVE  RowsAdvance
    <2>1. /\ pc[c] \in {"mutating", "querying"}
          /\ \E v \in RowStates \ Unsent, r \in Receipts : Finish(c, v, r)
      BY <1>5 DEF ReconcileProves, ReconcileUnresolved, RowStates, Receipts, Unsent
    <2> QED BY <2>1, FinishAdvances
  <1> QED BY <1>1, <1>2, <1>3, <1>4, <1>5, JournalFrame

(* What a step of one call leaves alone. *)
LEMMA OtherCalls ==
    ASSUME TypeInv, NEW c \in Calls, CallStep(c), NEW d \in Calls, d # c
    PROVE  pc'[d] = pc[d] /\ action'[d] = action[d] /\ reply'[d] = reply[d]
           /\ outcome'[d] = outcome[d]
  <1> USE DEF TypeInv, TypeOK, Goto, Answer, Proceed
  <1>1. ASSUME NEW a \in Actions, StartExecute(c, a) \/ StartReconcile(c, a)
        PROVE  pc'[d] = pc[d] /\ action'[d] = action[d] /\ reply'[d] = reply[d]
               /\ outcome'[d] = outcome[d]
    BY <1>1 DEF StartExecute, StartReconcile
  <1>2. CASE SyncStep(c)
    BY <1>2 DEF SyncStep, Reread, BeginPrepared, BeginExecuted, BeginForbidden,
                ConnectorMissing, Dispatch, UseRecord
  <1>3. CASE ExecuteResumes(c)
    BY <1>3 DEF ExecuteResumes, ExecuteDenied, PrepareNew, PrepareConflict, PrepareExisting,
                UseRecord
  <1>4. CASE MutateEnds(c)
    BY <1>4 DEF MutateEnds, MutateSucceeds, MutateFails, MutateRaises
  <1>5. CASE ReconcileResumes(c)
    BY <1>5 DEF ReconcileResumes, ReconcileDenied, ReconcileConflict, ReconcileClosed,
                ReconcileImpossible, ReconcileAsks
  <1>6. CASE ReconcileEnds(c)
    BY <1>6 DEF ReconcileEnds, ReconcileProves, ReconcileUnresolved, ReconcileRaises
  <1>7. CASE Return(c)
    BY <1>7 DEF Return
  <1> QED BY <1>1, <1>2, <1>3, <1>4, <1>5, <1>6, <1>7 DEF CallStep, TaskStep

(* A call that does not move stays bound, whoever moves. *)
LEMMA BoundKept ==
    ASSUME BindingInv, RowsAdvance, NEW c \in Calls, pc'[c] = pc[c], action'[c] = action[c]
    PROVE  CallBoundAt(c)'
  <1>1. CASE pc[c] \in SyncPoints \union {"mutating", "querying"}
    <2>1. action[c] \in Actions /\ KeyOf[action[c]] \in Keys
      BY <1>1 DEF BindingInv, TypeInv, Busy, SyncPoints
    <2>2. CallBoundAt(c)
      BY DEF BindingInv, CallBound
    <2>3. journal[KeyOf[action[c]]].state # "absent"
      BY <1>1, <2>1, <2>2 DEF BindingInv, RowShape, CallBoundAt
    <2> QED BY <1>1, <2>1, <2>2, <2>3 DEF CallBoundAt, RowsAdvance
  <1>2. CASE pc[c] \notin SyncPoints \union {"mutating", "querying"}
    BY <1>2 DEF CallBoundAt, SyncPoints
  <1> QED BY <1>1, <1>2

LEMMA CallBoundStep ==
    ASSUME BindingInv, RowsAdvance, NEW c \in Calls, CallStep(c)
    PROVE  CallBoundAt(c)'
  <1>0. /\ pc \in [Calls -> Points] /\ action \in [Calls -> Actions \union {None}]
        /\ journal \in [Keys -> Rows]
        /\ CallBoundAt(c)
        /\ pc[c] # "idle" => action[c] \in Actions /\ KeyOf[action[c]] \in Keys
    BY DEF BindingInv, CallBound, TypeInv, TypeOK, Busy
  <1> USE <1>0 DEF CallBoundAt, Goto, Answer, Proceed, SyncPoints, Key, Row, journalVars
  <1>1. ASSUME NEW a \in Actions, StartExecute(c, a) \/ StartReconcile(c, a)
        PROVE  CallBoundAt(c)'
    BY <1>1 DEF StartExecute, StartReconcile
  <1>2. CASE SyncStep(c)
    <2>1. CASE Reread(c)
      BY <2>1 DEF Reread, UseRecord
    <2>2. CASE BeginPrepared(c)
      <3>1. journal'[Key(c)].action = journal[Key(c)].action
            /\ journal'[Key(c)].state = "executing"
        BY <2>2, BeginRow DEF BindingInv
      <3> QED BY <2>2, <3>1 DEF BeginPrepared, Unsent
    <2>3. CASE BeginExecuted(c)
      BY <2>3 DEF BeginExecuted, Unsent
    <2>4. CASE BeginForbidden(c) \/ ConnectorMissing(c)
      BY <2>4 DEF BeginForbidden, ConnectorMissing
    <2>5. CASE Dispatch(c)
      BY <2>5 DEF Dispatch
    <2> QED BY <1>2, <2>1, <2>2, <2>3, <2>4, <2>5 DEF SyncStep
  <1>3. CASE ExecuteResumes(c)
    <2>1. CASE PrepareNew(c)
      BY <2>1 DEF PrepareNew
    <2>2. CASE PrepareExisting(c)
      BY <2>2 DEF PrepareExisting, UseRecord
    <2>3. CASE ExecuteDenied(c) \/ PrepareConflict(c)
      BY <2>3 DEF ExecuteDenied, PrepareConflict
    <2> QED BY <1>3, <2>1, <2>2, <2>3 DEF ExecuteResumes
  <1>4. CASE MutateEnds(c)
    BY <1>4 DEF MutateEnds, MutateSucceeds, MutateFails, MutateRaises
  <1>5. CASE ReconcileResumes(c)
    BY <1>5 DEF ReconcileResumes, ReconcileDenied, ReconcileConflict, ReconcileClosed,
                ReconcileImpossible, ReconcileAsks, PendingStates, Unsent
  <1>6. CASE ReconcileEnds(c)
    BY <1>6 DEF ReconcileEnds, ReconcileProves, ReconcileUnresolved, ReconcileRaises
  <1>7. CASE Return(c)
    BY <1>7 DEF Return
  <1> QED BY <1>1, <1>2, <1>3, <1>4, <1>5, <1>6, <1>7 DEF CallStep, TaskStep

(* Which steps touch the source, its wire and the send counters. *)
LEMMA SourceFrame ==
    ASSUME [Next]_vars
    PROVE  \/ UNCHANGED sourceVars
           \/ \E c \in Calls : Dispatch(c)
           \/ \E m \in wire : \/ SourceReplays(m) \/ SourceRejects(m)
                             \/ \E met \in BOOLEAN : SourceApplies(m, met)
  <1>1. ASSUME NEW c \in Calls, CallStep(c)
        PROVE  UNCHANGED sourceVars \/ Dispatch(c)
    BY <1>1 DEF CallStep, TaskStep, SyncStep, ExecuteResumes, ReconcileResumes, ReconcileEnds,
                MutateEnds, StartExecute, StartReconcile, Reread, BeginPrepared, BeginExecuted,
                BeginForbidden, ConnectorMissing, ExecuteDenied, PrepareNew, PrepareConflict,
                PrepareExisting, MutateSucceeds, MutateFails, MutateRaises, ReconcileDenied,
                ReconcileConflict, ReconcileClosed, ReconcileImpossible, ReconcileAsks,
                ReconcileProves, ReconcileUnresolved, ReconcileRaises, Return, sourceVars
  <1>2. CASE Fault
    BY <1>2 DEF Fault, Abort, Crash, Drop
  <1>3. CASE SourceStep
    BY <1>3 DEF SourceStep, SourceReconciles
  <1>4. CASE UNCHANGED vars
    BY <1>4 DEF vars, sourceVars
  <1> QED BY <1>1, <1>2, <1>3, <1>4 DEF Next

(* A call moves only by its own steps, or is dropped by a fault. *)
LEMMA CallFrame ==
    ASSUME TypeInv, [Next]_vars, NEW d \in Calls
    PROVE  \/ CallStep(d)
           \/ pc'[d] = "idle" /\ reply'[d] = "none"
           \/ pc'[d] = pc[d] /\ action'[d] = action[d] /\ outcome'[d] = outcome[d]
  <1>1. ASSUME NEW c \in Calls, CallStep(c)
        PROVE  \/ CallStep(d)
               \/ pc'[d] = pc[d] /\ action'[d] = action[d] /\ outcome'[d] = outcome[d]
    BY <1>1, OtherCalls
  <1>2. CASE Fault
    BY <1>2 DEF Fault, Abort, Crash, Drop, TypeInv, TypeOK
  <1>3. CASE SourceStep
    BY <1>3 DEF SourceStep, SourceReplays, SourceRejects, SourceApplies, SourceReconciles
  <1>4. CASE UNCHANGED vars
    BY <1>4 DEF vars
  <1> QED BY <1>1, <1>2, <1>3, <1>4 DEF Next

LEMMA BindingNext == BindingInv /\ [Next]_vars => BindingInv'
  <1> SUFFICES ASSUME BindingInv, [Next]_vars PROVE BindingInv'
    OBVIOUS
  <1>1. TypeInv' /\ RowsAdvance
    BY TypeNext, Advance DEF BindingInv
  <1>2. RowShape'
    BY <1>1 DEF RowsAdvance, RowShape
  <1>3. CallBound'
    <2> SUFFICES ASSUME NEW c \in Calls PROVE CallBoundAt(c)'
      BY DEF CallBound
    <2>1. CASE CallStep(c)
      BY <1>1, <2>1, CallBoundStep
    <2>2. CASE pc'[c] = "idle"
      BY <2>2 DEF CallBoundAt, SyncPoints
    <2>3. CASE pc'[c] = pc[c] /\ action'[c] = action[c]
      BY <1>1, <2>3, BoundKept
    <2> QED BY <2>1, <2>2, <2>3, CallFrame DEF BindingInv
  <1>4. WireBound' /\ SourceBound'
    <2>1. \A m \in wire : m.action \in Actions /\ KeyOf[m.action] \in Keys
      BY DEF BindingInv, TypeInv, TypeOK, Requests
    <2>2. \A m \in wire : /\ journal'[KeyOf[m.action]].action = m.action
                          /\ journal'[KeyOf[m.action]].state \notin Unsent
      BY <1>1, <2>1 DEF BindingInv, WireBound, RowsAdvance, Unsent
    <2>3. \A k \in Keys :
            /\ source[k].action \in {None, journal'[k].action}
            /\ source[k].action # None => journal'[k].state \notin Unsent
            /\ source[k].met => source[k].action # None
            /\ sends[k] > 0 => journal'[k].state \notin Unsent
      BY <1>1 DEF BindingInv, SourceBound, RowsAdvance, Unsent
    <2>4. CASE UNCHANGED sourceVars
      BY <2>2, <2>3, <2>4 DEF WireBound, SourceBound, sourceVars
    <2>5. ASSUME NEW c \in Calls, Dispatch(c) PROVE WireBound' /\ SourceBound'
      <3>1. /\ action[c] \in Actions /\ Key(c) \in Keys
            /\ journal'[Key(c)].action = action[c] /\ journal'[Key(c)].state \notin Unsent
        BY <2>5 DEF Dispatch, BindingInv, TypeInv, TypeOK, Busy, Key, CallBound, CallBoundAt,
                    SyncPoints, journalVars
      <3>2. WireBound'
        BY <2>2, <2>5, <3>1 DEF Dispatch, WireBound, Key
      <3>3. SourceBound'
        BY <2>3, <2>5, <3>1 DEF Dispatch, SourceBound, BindingInv, TypeInv, TypeOK
      <3> QED BY <3>2, <3>3
    <2>6. ASSUME NEW m \in wire, SourceReplays(m) \/ SourceRejects(m)
          PROVE  WireBound' /\ SourceBound'
      BY <2>2, <2>3, <2>6 DEF SourceReplays, SourceRejects, WireBound, SourceBound
    <2>7. ASSUME NEW m \in wire, NEW met \in BOOLEAN, SourceApplies(m, met)
          PROVE  WireBound' /\ SourceBound'
      <3>1. WireBound'
        BY <2>2, <2>7 DEF SourceApplies, WireBound
      <3>2. ASSUME NEW k \in Keys, k = KeyOf[m.action]
            PROVE  source'[k] = [action |-> m.action, met |-> met]
        BY <2>7, <3>2 DEF SourceApplies, BindingInv, TypeInv, TypeOK
      <3>3. ASSUME NEW k \in Keys, k # KeyOf[m.action]
            PROVE  source'[k] = source[k]
        BY <2>7, <3>3 DEF SourceApplies, BindingInv, TypeInv, TypeOK
      <3>4. sends' = sends
        BY <2>7 DEF SourceApplies
      <3>5. SourceBound'
        BY <2>1, <2>2, <2>3, <3>2, <3>3, <3>4 DEF SourceBound
      <3> QED BY <3>1, <3>5
    <2> QED BY <2>4, <2>5, <2>6, <2>7, SourceFrame
  <1> QED BY <1>1, <1>2, <1>3, <1>4 DEF BindingInv

(* Whatever reaches the source was journalled first, under the binding the  *)
(* journal keeps for ever: execute() calls prepare() and begin() before     *)
(* mutate(), and no later transaction rebinds a row.                        *)
THEOREM WriteAheadHolds == Spec => []WriteAhead
  <1>1. BindingInv => WriteAhead
    BY DEF BindingInv, WireBound, SourceBound, WriteAhead, Unsent
  <1> QED BY BindingInit, BindingNext, <1>1, PTL DEF Spec

-----------------------------------------------------------------------------
(* The outcome invariant: until the source has an entry for a key, at most  *)
(* one request for it is about to leave or under way, so no answer and no   *)
(* verdict can be overtaken by a later effect.                              *)

Quiet(k) ==
    /\ \A m \in wire : KeyOf[m.action] # k
    /\ \A c \in Calls : pc[c] = "dispatching" => KeyOf[action[c]] # k

SingleRequest(k) ==
    source[k].action = None =>
        /\ \A m, n \in wire : KeyOf[m.action] = k /\ KeyOf[n.action] = k => m = n
        /\ \A c, d \in Calls :
             /\ pc[c] = "dispatching" /\ KeyOf[action[c]] = k
             /\ pc[d] = "dispatching" /\ KeyOf[action[d]] = k
             => c = d
        /\ \A m \in wire, c \in Calls :
             KeyOf[m.action] = k /\ pc[c] = "dispatching" => KeyOf[action[c]] # k

VerdictTrue(k) ==
    /\ journal[k].state = "executed" => source[k].met
    /\ journal[k].state = "failed" =>
          ~ source[k].met /\ (source[k].action = None => Quiet(k))

ReplyTrue(c) ==
    LET k == KeyOf[action[c]] IN
    /\ reply[c] # "none" => pc[c] \in {"mutating", "querying"}
    /\ reply[c] \in {"met", "unmet", "rejected"} => pc[c] = "mutating"
    /\ reply[c] \in {"proved", "unresolved"} => pc[c] = "querying"
    /\ reply[c] \in {"met", "proved"} => source[k].met
    /\ reply[c] = "unmet" => source[k].action # None /\ ~ source[k].met
    /\ reply[c] = "rejected" => source[k].action = None /\ Quiet(k)

OutcomeTrue(c) ==
    pc[c] = "returning" /\ outcome[c] \in Successes =>
        source[KeyOf[action[c]]].met /\ source[KeyOf[action[c]]].action = action[c]

OutcomeInv ==
    /\ BindingInv
    /\ \A k \in Keys : SingleRequest(k) /\ VerdictTrue(k)
    /\ \A c \in Calls : ReplyTrue(c) /\ OutcomeTrue(c)

LEMMA OutcomeInit == Init => OutcomeInv
  <1> SUFFICES ASSUME Init PROVE OutcomeInv
    OBVIOUS
  <1>1. BindingInv
    BY BindingInit
  <1>2. \A k \in Keys : SingleRequest(k) /\ VerdictTrue(k)
    BY DEF Init, NoRow, SingleRequest, VerdictTrue
  <1>3. \A c \in Calls : ReplyTrue(c) /\ OutcomeTrue(c)
    BY DEF Init, ReplyTrue, OutcomeTrue
  <1> QED BY <1>1, <1>2, <1>3 DEF OutcomeInv

(* An entry of the source is never changed. *)
SourceKept ==
    \A k \in Keys : source[k].action # None => source'[k] = source[k]

LEMMA EntriesStay == BindingInv /\ [Next]_vars => SourceKept
  <1> SUFFICES ASSUME BindingInv, [Next]_vars PROVE SourceKept
    OBVIOUS
  <1>1. CASE UNCHANGED source
    BY <1>1 DEF SourceKept
  <1>2. ASSUME NEW m \in wire, NEW met \in BOOLEAN, SourceApplies(m, met) PROVE SourceKept
    BY <1>2 DEF SourceApplies, SourceKept, BindingInv, TypeInv, TypeOK
  <1> QED BY <1>1, <1>2, SourceFrame
          DEF sourceVars, Dispatch, SourceReplays, SourceRejects

(* A row with nothing behind it yet is quiet. *)
LEMMA UnsentQuiet ==
    ASSUME BindingInv, NEW k \in Keys, journal[k].state \in Unsent
    PROVE  Quiet(k) /\ source[k].action = None
  BY DEF BindingInv, WireBound, SourceBound, CallBound, CallBoundAt, Quiet, TypeInv, TypeOK, Busy

(* Nothing new is about to leave for the source. *)
Shrinks ==
    /\ wire' \subseteq wire
    /\ \A c \in Calls :
        pc'[c] = "dispatching" => pc[c] = "dispatching" /\ action'[c] = action[c]

LEMMA StepShapes ==
    ASSUME TypeInv, [Next]_vars
    PROVE  Shrinks \/ \E c \in Calls : BeginPrepared(c) \/ BeginExecuted(c) \/ Dispatch(c)
  <1> USE DEF TypeInv, TypeOK, Goto, Answer, Proceed, sourceVars
  <1>1. ASSUME NEW c \in Calls, CallStep(c), ~ Dispatch(c)
        PROVE  wire' = wire
    BY <1>1 DEF CallStep, TaskStep, SyncStep, ExecuteResumes, ReconcileResumes, ReconcileEnds,
                MutateEnds, StartExecute, StartReconcile, Reread, BeginPrepared, BeginExecuted,
                BeginForbidden, ConnectorMissing, ExecuteDenied, PrepareNew, PrepareConflict,
                PrepareExisting, MutateSucceeds, MutateFails, MutateRaises, ReconcileDenied,
                ReconcileConflict, ReconcileClosed, ReconcileImpossible, ReconcileAsks,
                ReconcileProves, ReconcileUnresolved, ReconcileRaises, Return
  <1>2. ASSUME NEW c \in Calls, CallStep(c), ~ Dispatch(c), ~ BeginPrepared(c),
               ~ BeginExecuted(c)
        PROVE  pc'[c] # "dispatching"
    <2>1. CASE SyncStep(c)
      BY <1>2, <2>1 DEF SyncStep, Reread, UseRecord, BeginForbidden, ConnectorMissing
    <2>2. CASE ExecuteResumes(c)
      BY <2>2 DEF ExecuteResumes, ExecuteDenied, PrepareNew, PrepareConflict, PrepareExisting,
                  UseRecord
    <2>3. CASE MutateEnds(c) \/ ReconcileEnds(c)
      BY <2>3 DEF MutateEnds, MutateSucceeds, MutateFails, MutateRaises, ReconcileEnds,
                  ReconcileProves, ReconcileUnresolved, ReconcileRaises
    <2>4. CASE ReconcileResumes(c)
      BY <2>4 DEF ReconcileResumes, ReconcileDenied, ReconcileConflict, ReconcileClosed,
                  ReconcileImpossible, ReconcileAsks
    <2>5. CASE Return(c) \/ \E a \in Actions : StartExecute(c, a) \/ StartReconcile(c, a)
      BY <2>5 DEF Return, StartExecute, StartReconcile
    <2> QED BY <1>2, <2>1, <2>2, <2>3, <2>4, <2>5 DEF CallStep, TaskStep
  <1>3. ASSUME NEW c \in Calls, CallStep(c), ~ Dispatch(c), ~ BeginPrepared(c),
               ~ BeginExecuted(c)
        PROVE  Shrinks
    BY <1>1, <1>2, <1>3, OtherCalls DEF Shrinks
  <1>4. CASE Fault
    BY <1>4 DEF Fault, Abort, Crash, Drop, Shrinks
  <1>5. CASE SourceStep
    BY <1>5 DEF SourceStep, SourceReplays, SourceRejects, SourceApplies, SourceReconciles, Shrinks
  <1>6. CASE UNCHANGED vars
    BY <1>6 DEF vars, Shrinks
  <1> QED BY <1>3, <1>4, <1>5, <1>6 DEF Next

(* A key the journal has let go, with nothing on its way, stays quiet. *)
LEMMA QuietStays ==
    ASSUME OutcomeInv, [Next]_vars, NEW k \in Keys, source[k].action = None, Quiet(k),
           journal[k].state \notin Unsent
    PROVE  Quiet(k)' /\ source'[k].action = None
  <1>1. source'[k].action = None
    <2>1. ASSUME NEW m \in wire, NEW met \in BOOLEAN, SourceApplies(m, met)
          PROVE  source'[k] = source[k]
      BY <2>1 DEF SourceApplies, Quiet, OutcomeInv, BindingInv, TypeInv, TypeOK
    <2>2. UNCHANGED source \/ \E m \in wire, met \in BOOLEAN : SourceApplies(m, met)
      BY SourceFrame DEF sourceVars, Dispatch, SourceReplays, SourceRejects
    <2>3. source'[k] = source[k]
      BY <2>1, <2>2
    <2> QED BY <2>3
  <1>2. CASE Shrinks
    BY <1>1, <1>2 DEF Shrinks, Quiet
  <1>3. ASSUME NEW c \in Calls, BeginPrepared(c) \/ BeginExecuted(c) PROVE Quiet(k)'
    <2>1. KeyOf[action[c]] \in Keys /\ action'[c] = action[c] /\ wire' = wire
      BY <1>3 DEF BeginPrepared, BeginExecuted, OutcomeInv, BindingInv, TypeInv, TypeOK, Busy,
                  Proceed, sourceVars
    <2>2. KeyOf[action[c]] # k
      BY <1>3, <2>1 DEF BeginPrepared, BeginExecuted, MayBegin, Row, Key, Unsent, OutcomeInv,
                        VerdictTrue, BindingInv, SourceBound
    <2>3. \A d \in Calls : d # c => pc'[d] = pc[d] /\ action'[d] = action[d]
      BY <1>3, OtherCalls DEF CallStep, TaskStep, SyncStep, OutcomeInv, BindingInv
    <2> QED BY <2>1, <2>2, <2>3 DEF Quiet
  <1>4. ASSUME NEW c \in Calls, Dispatch(c) PROVE Quiet(k)'
    <2>1. KeyOf[action[c]] # k /\ pc'[c] # "dispatching"
          /\ wire' = wire \union {[call |-> c, action |-> action[c]]}
      BY <1>4 DEF Dispatch, Quiet, Proceed, Goto, OutcomeInv, BindingInv, TypeInv, TypeOK
    <2>2. \A d \in Calls : d # c => pc'[d] = pc[d] /\ action'[d] = action[d]
      BY <1>4, OtherCalls DEF CallStep, TaskStep, SyncStep, OutcomeInv, BindingInv
    <2> QED BY <2>1, <2>2 DEF Quiet
  <1> QED BY <1>1, <1>2, <1>3, <1>4, StepShapes DEF OutcomeInv, BindingInv

LEMMA SingleRequestNext ==
    ASSUME OutcomeInv, [Next]_vars, NEW k \in Keys
    PROVE  SingleRequest(k)'
  <1> SUFFICES ASSUME source'[k].action = None PROVE SingleRequest(k)'
    BY DEF SingleRequest
  <1>1. source[k].action = None
    BY EntriesStay DEF OutcomeInv, SourceKept
  <1>2. SingleRequest(k)
    BY DEF OutcomeInv
  <1>3. CASE Shrinks
    BY <1>1, <1>2, <1>3 DEF Shrinks, SingleRequest
  <1>4. ASSUME NEW c \in Calls, BeginPrepared(c) \/ BeginExecuted(c)
        PROVE  SingleRequest(k)'
    <2>1. /\ KeyOf[action[c]] \in Keys /\ action'[c] = action[c] /\ wire' = wire
      BY <1>4 DEF BeginPrepared, BeginExecuted, OutcomeInv, BindingInv, TypeInv, TypeOK, Busy,
                  Proceed, sourceVars
    <2>2. \A d \in Calls : d # c => pc'[d] = pc[d] /\ action'[d] = action[d]
      BY <1>4, OtherCalls DEF CallStep, TaskStep, SyncStep, OutcomeInv, BindingInv
    <2>3. KeyOf[action[c]] = k => Quiet(k)
      <3>1. ASSUME KeyOf[action[c]] = k PROVE journal[k].state \in Unsent
        BY <1>1, <1>4, <3>1 DEF BeginPrepared, BeginExecuted, MayBegin, Row, Key, Unsent,
                                OutcomeInv, VerdictTrue, BindingInv, SourceBound
      <3> QED BY <3>1, UnsentQuiet DEF OutcomeInv
    <2>4. CASE KeyOf[action[c]] # k
      <3>1. \A d \in Calls : pc'[d] = "dispatching" /\ KeyOf[action'[d]] = k =>
                              pc[d] = "dispatching" /\ action'[d] = action[d] /\ d # c
        BY <2>1, <2>2, <2>4
      <3> QED BY <1>1, <1>2, <2>1, <3>1 DEF SingleRequest
    <2>5. CASE KeyOf[action[c]] = k
      <3>1. \A d \in Calls : pc'[d] = "dispatching" /\ KeyOf[action'[d]] = k => d = c
        BY <2>2, <2>3, <2>5 DEF Quiet
      <3>2. \A m \in wire' : KeyOf[m.action] # k
        BY <2>1, <2>3, <2>5 DEF Quiet
      <3> QED BY <3>1, <3>2 DEF SingleRequest
    <2> QED BY <2>4, <2>5
  <1>5. ASSUME NEW c \in Calls, Dispatch(c) PROVE SingleRequest(k)'
    <2>1. /\ pc[c] = "dispatching" /\ pc'[c] = "mutating"
          /\ wire' = wire \union {[call |-> c, action |-> action[c]]}
      BY <1>5 DEF Dispatch, Proceed, Goto, OutcomeInv, BindingInv, TypeInv, TypeOK
    <2>2. \A d \in Calls : d # c => pc'[d] = pc[d] /\ action'[d] = action[d]
      BY <1>5, OtherCalls DEF CallStep, TaskStep, SyncStep, OutcomeInv, BindingInv
    <2> QED BY <1>1, <1>2, <2>1, <2>2 DEF SingleRequest
  <1> QED BY <1>3, <1>4, <1>5, StepShapes DEF OutcomeInv, BindingInv

(* A verdict is written only by a call that holds the source's answer.      *)
LEMMA VerdictOrigins ==
    ASSUME OutcomeInv, [Next]_vars, NEW k \in Keys,
           journal'[k].state \in {"executed", "failed"}
    PROVE  \/ journal'[k].state = journal[k].state
           \/ \E c \in Calls :
                /\ k = KeyOf[action[c]] /\ UNCHANGED sourceVars
                /\ \/ journal'[k].state = "executed" /\ reply[c] \in {"met", "proved"}
                   \/ journal'[k].state = "failed" /\ reply[c] \in {"unmet", "rejected"}
  <1>1. CASE UNCHANGED journal
    BY <1>1
  <1>2. ASSUME NEW c \in Calls, PrepareNew(c) PROVE journal'[k].state = journal[k].state
    <2>1. Key(c) \in Keys
      BY <1>2 DEF PrepareNew, OutcomeInv, BindingInv, TypeInv, TypeOK, Busy, Key
    <2> QED BY <1>2, <2>1 DEF PrepareNew, OutcomeInv, BindingInv, TypeInv, TypeOK
  <1>3. ASSUME NEW c \in Calls, BeginPrepared(c) PROVE journal'[k].state = journal[k].state
    BY <1>3, BeginRow DEF OutcomeInv, BindingInv
  <1>4. ASSUME NEW c \in Calls, NEW v \in RowStates, NEW r \in Receipts, Finish(c, v, r),
               pc[c] # "idle"
        PROVE  journal'[k] = journal[k] \/ (k = KeyOf[action[c]] /\ journal'[k].state = v)
    <2>1. TypeInv
      BY DEF OutcomeInv, BindingInv
    <2>2. journal'[Key(c)].state = v /\ \A q \in Keys : q # Key(c) => journal'[q] = journal[q]
      BY <1>4, <2>1, FinishRow
    <2> QED BY <2>2 DEF Key
  <1>5. ASSUME NEW c \in Calls, MutateSucceeds(c) \/ ReconcileProves(c)
        PROVE  \/ journal'[k].state = journal[k].state
               \/ /\ k = KeyOf[action[c]] /\ UNCHANGED sourceVars
                  /\ journal'[k].state = "executed" /\ reply[c] \in {"met", "proved"}
    <2>1. "executed" \in RowStates /\ "executed" \in Receipts /\ "recovered" \in Receipts
      BY DEF RowStates, Receipts
    <2> QED BY <1>4, <1>5, <2>1 DEF MutateSucceeds, ReconcileProves
  <1>6. ASSUME NEW c \in Calls, MutateFails(c)
        PROVE  \/ journal'[k].state = journal[k].state
               \/ /\ k = KeyOf[action[c]] /\ UNCHANGED sourceVars
                  /\ journal'[k].state = "failed" /\ reply[c] \in {"unmet", "rejected"}
    <2>1. "failed" \in RowStates /\ "failed" \in Receipts
      BY DEF RowStates, Receipts
    <2> QED BY <1>4, <1>6, <2>1 DEF MutateFails
  <1>7. ASSUME NEW c \in Calls, MutateRaises(c) \/ ReconcileUnresolved(c)
        PROVE  journal'[k].state = journal[k].state
    <2>1. "reconciliation-required" \in RowStates /\ "none" \in Receipts
      BY DEF RowStates, Receipts
    <2> QED BY <1>4, <1>7, <2>1 DEF MutateRaises, ReconcileUnresolved
  <1>8. \/ UNCHANGED journal
        \/ \E c \in Calls : \/ PrepareNew(c) \/ BeginPrepared(c) \/ MutateEnds(c)
                            \/ ReconcileProves(c) \/ ReconcileUnresolved(c)
    BY JournalFrame
  <1> QED BY <1>1, <1>2, <1>3, <1>5, <1>6, <1>7, <1>8 DEF MutateEnds

LEMMA VerdictNext ==
    ASSUME OutcomeInv, BindingInv', [Next]_vars, NEW k \in Keys
    PROVE  VerdictTrue(k)'
  <1>1. source[k].action # None => source'[k] = source[k]
    BY EntriesStay DEF OutcomeInv, SourceKept
  <1>2. CASE journal'[k].state = journal[k].state
    <2>1. VerdictTrue(k) /\ (source[k].met => source[k].action # None)
          /\ (source'[k].met => source'[k].action # None)
      BY DEF OutcomeInv, BindingInv, SourceBound
    <2>2. journal'[k].state = "executed" => source'[k].met
      BY <1>1, <1>2, <2>1 DEF VerdictTrue
    <2>3. ASSUME journal'[k].state = "failed"
          PROVE  ~ source'[k].met /\ (source'[k].action = None => Quiet(k)')
      <3>1. CASE source[k].action = None
        BY <1>2, <2>1, <2>3, <3>1, QuietStays DEF VerdictTrue, Unsent
      <3>2. CASE source[k].action # None
        BY <1>1, <1>2, <2>1, <2>3, <3>2 DEF VerdictTrue
      <3> QED BY <3>1, <3>2
    <2> QED BY <2>2, <2>3 DEF VerdictTrue
  <1>3. ASSUME NEW c \in Calls, k = KeyOf[action[c]], UNCHANGED sourceVars,
               \/ journal'[k].state = "executed" /\ reply[c] \in {"met", "proved"}
               \/ journal'[k].state = "failed" /\ reply[c] \in {"unmet", "rejected"}
        PROVE  VerdictTrue(k)'
    <2>1. ReplyTrue(c) /\ CallBoundAt(c) /\ source' = source
          /\ (source[k].met => source[k].action # None)
      BY <1>3 DEF OutcomeInv, BindingInv, CallBound, SourceBound, sourceVars
    <2>2. CASE journal'[k].state = "executed"
      BY <1>3, <2>1, <2>2 DEF VerdictTrue, ReplyTrue
    <2>3. CASE journal'[k].state = "failed"
      <3>1. CASE reply[c] = "unmet"
        BY <1>3, <2>1, <2>3, <3>1 DEF VerdictTrue, ReplyTrue
      <3>2. CASE reply[c] = "rejected"
        <4>1. source[k].action = None /\ Quiet(k) /\ journal[k].state \notin Unsent
          BY <1>3, <2>1, <3>2 DEF ReplyTrue, CallBoundAt
        <4>2. Quiet(k)'
          BY <4>1, QuietStays
        <4> QED BY <2>1, <2>3, <4>1, <4>2 DEF VerdictTrue
      <3> QED BY <1>3, <2>3, <3>1, <3>2
    <2> QED BY <1>3, <2>2, <2>3
  <1>4. CASE journal'[k].state \notin {"executed", "failed"}
    BY <1>4 DEF VerdictTrue
  <1> QED BY <1>2, <1>3, <1>4, VerdictOrigins

(* A step of a call consumes its answer. *)
LEMMA ReplyConsumed ==
    ASSUME OutcomeInv, NEW c \in Calls, CallStep(c)
    PROVE  reply'[c] = "none"
  <1>1. ReplyTrue(c) /\ reply \in [Calls -> Replies]
    BY DEF OutcomeInv, BindingInv, TypeInv, TypeOK
  <1>2. reply[c] # "none" => pc[c] \in {"mutating", "querying"}
    BY <1>1 DEF ReplyTrue
  <1> USE <1>1, <1>2 DEF Answer, Proceed
  <1>3. CASE SyncStep(c)
    BY <1>3 DEF SyncStep, Reread, BeginPrepared, BeginExecuted, BeginForbidden,
                ConnectorMissing, Dispatch, UseRecord
  <1>4. CASE ExecuteResumes(c)
    BY <1>4 DEF ExecuteResumes, ExecuteDenied, PrepareNew, PrepareConflict, PrepareExisting,
                UseRecord
  <1>5. CASE MutateEnds(c) \/ ReconcileEnds(c)
    BY <1>5 DEF MutateEnds, MutateSucceeds, MutateFails, MutateRaises, ReconcileEnds,
                ReconcileProves, ReconcileUnresolved, ReconcileRaises
  <1>6. CASE ReconcileResumes(c)
    BY <1>6 DEF ReconcileResumes, ReconcileDenied, ReconcileConflict, ReconcileClosed,
                ReconcileImpossible, ReconcileAsks
  <1>7. CASE Return(c) \/ \E a \in Actions : StartExecute(c, a) \/ StartReconcile(c, a)
    BY <1>7 DEF Return, StartExecute, StartReconcile
  <1> QED BY <1>3, <1>4, <1>5, <1>6, <1>7 DEF CallStep, TaskStep

(* An answer already held stays true while its call does not move. *)
LEMMA ReplyKept ==
    ASSUME OutcomeInv, BindingInv', [Next]_vars, NEW c \in Calls, pc'[c] = pc[c],
           action'[c] = action[c], reply'[c] = reply[c]
    PROVE  ReplyTrue(c)'
  <1> DEFINE k == KeyOf[action[c]]
  <1>1. ReplyTrue(c) /\ CallBoundAt(c) /\ reply \in [Calls -> Replies]
    BY DEF OutcomeInv, BindingInv, CallBound, TypeInv, TypeOK
  <1>2. CASE reply[c] = "none"
    BY <1>2 DEF ReplyTrue
  <1>3. CASE reply[c] # "none"
    <2>1. k \in Keys /\ journal[k].state \notin Unsent
      BY <1>1, <1>3 DEF ReplyTrue, CallBoundAt, OutcomeInv, BindingInv, TypeInv, Busy
    <2>2. source[k].action # None => source'[k] = source[k]
      BY <2>1, EntriesStay DEF OutcomeInv, SourceKept
    <2>3. source[k].met => source[k].action # None
      BY <2>1 DEF OutcomeInv, BindingInv, SourceBound
    <2>4. reply[c] = "rejected" => source'[k].action = None /\ Quiet(k)'
      BY <1>1, <2>1, QuietStays DEF ReplyTrue
    <2> QED BY <1>1, <2>2, <2>3, <2>4 DEF ReplyTrue
  <1> QED BY <1>2, <1>3

(* What the source answers to a mutation is what its table says.            *)
LEMMA ReplyDelivered ==
    ASSUME OutcomeInv, BindingInv', [Next]_vars, NEW m \in wire, NEW r \in Replies, Deliver(m, r),
           wire' = wire \ {m}, UNCHANGED <<pc, action, outcome, journalVars>>,
           r \in {"met", "unmet", "rejected"},
           r = "met" => source'[KeyOf[m.action]].met,
           r = "unmet" => source'[KeyOf[m.action]].action # None
                          /\ ~ source'[KeyOf[m.action]].met,
           r = "rejected" => source[KeyOf[m.action]].action = None /\ source' = source,
           NEW c \in Calls
    PROVE  ReplyTrue(c)'
  <1>1. m.call \in Calls /\ m.action \in Actions /\ KeyOf[m.action] \in Keys
        /\ reply \in [Calls -> Replies]
    BY DEF OutcomeInv, BindingInv, TypeInv, TypeOK, Requests
  <1>2. CASE reply'[c] = reply[c]
    BY <1>2, ReplyKept
  <1>3. CASE reply'[c] # reply[c]
    <2>1. c = m.call /\ pc[c] = "mutating" /\ action[c] = m.action /\ reply'[c] = r
      BY <1>1, <1>3 DEF Deliver
    <2>2. r = "rejected" => Quiet(KeyOf[m.action])'
      <3>1. ASSUME r = "rejected" PROVE Quiet(KeyOf[m.action])'
        <4>1. SingleRequest(KeyOf[m.action]) /\ source[KeyOf[m.action]].action = None
          BY <1>1, <3>1 DEF OutcomeInv
        <4> QED BY <4>1 DEF SingleRequest, Quiet
      <3> QED BY <3>1
    <2> QED BY <2>1, <2>2 DEF ReplyTrue
  <1> QED BY <1>2, <1>3

LEMMA ReplyNext ==
    ASSUME OutcomeInv, BindingInv', [Next]_vars, NEW c \in Calls
    PROVE  ReplyTrue(c)'
  <1>0. TypeInv /\ TypeOK /\ BindingInv
    BY DEF OutcomeInv, BindingInv, TypeInv
  <1>1. ASSUME NEW d \in Calls, CallStep(d) PROVE ReplyTrue(c)'
    <2>1. CASE c = d
      BY <1>1, <2>1, ReplyConsumed DEF ReplyTrue
    <2>2. CASE c # d
      BY <1>0, <1>1, <2>2, OtherCalls, ReplyKept
    <2> QED BY <2>1, <2>2
  <1>2. CASE Fault
    <2>1. \/ reply'[c] = "none"
          \/ pc'[c] = pc[c] /\ action'[c] = action[c] /\ reply'[c] = reply[c]
      BY <1>0, <1>2 DEF Fault, Abort, Crash, Drop, TypeOK
    <2>2. CASE reply'[c] = "none"
      BY <2>2 DEF ReplyTrue
    <2> QED BY <2>1, <2>2, ReplyKept
  <1>3. ASSUME NEW m \in wire, SourceReplays(m) PROVE ReplyTrue(c)'
    <2> DEFINE entry == source[KeyOf[m.action]]
               r == IF IdOf[entry.action] # IdOf[m.action] THEN "rejected"
                    ELSE IF entry.met THEN "met" ELSE "unmet"
    <2>1. entry.action = m.action
      BY <1>0, <1>3 DEF SourceReplays, BindingInv, WireBound, SourceBound, TypeOK, Requests
    <2>2. r = IF entry.met THEN "met" ELSE "unmet"
      BY <2>1
    <2>3. /\ Deliver(m, r) /\ wire' = wire \ {m} /\ source' = source
          /\ UNCHANGED <<pc, action, outcome, journalVars>> /\ entry.action # None
      BY <1>3 DEF SourceReplays
    <2> HIDE DEF r
    <2>4. r \in Replies /\ r \in {"met", "unmet", "rejected"}
      BY <2>2 DEF Replies
    <2>5. /\ r = "met" => source'[KeyOf[m.action]].met
          /\ r = "unmet" => source'[KeyOf[m.action]].action # None
                            /\ ~ source'[KeyOf[m.action]].met
          /\ r # "rejected"
      BY <2>2, <2>3
    <2> QED BY <2>3, <2>4, <2>5, ReplyDelivered
  <1>4. ASSUME NEW m \in wire, SourceRejects(m) PROVE ReplyTrue(c)'
    <2>1. /\ Deliver(m, "rejected") /\ wire' = wire \ {m} /\ source' = source
          /\ UNCHANGED <<pc, action, outcome, journalVars>>
          /\ source[KeyOf[m.action]].action = None
      BY <1>4 DEF SourceRejects
    <2>2. "rejected" \in Replies
      BY DEF Replies
    <2> QED BY <2>1, <2>2, ReplyDelivered
  <1>5. ASSUME NEW m \in wire, NEW met \in BOOLEAN, SourceApplies(m, met) PROVE ReplyTrue(c)'
    <2> DEFINE r == IF met THEN "met" ELSE "unmet"
    <2>1. /\ Deliver(m, r) /\ wire' = wire \ {m}
          /\ UNCHANGED <<pc, action, outcome, journalVars>>
      BY <1>5 DEF SourceApplies
    <2>2. m.action \in Actions /\ KeyOf[m.action] \in Keys
      BY <1>0 DEF TypeOK, Requests
    <2>3. source'[KeyOf[m.action]] = [action |-> m.action, met |-> met]
      BY <1>0, <1>5, <2>2 DEF SourceApplies, TypeOK
    <2>4. r \in Replies /\ r \in {"met", "unmet", "rejected"} /\ r # "rejected"
      BY DEF Replies
    <2>5. /\ r = "met" => source'[KeyOf[m.action]].met
          /\ r = "unmet" => source'[KeyOf[m.action]].action # None
                            /\ ~ source'[KeyOf[m.action]].met
      BY <2>2, <2>3
    <2> HIDE DEF r
    <2> QED BY <2>1, <2>4, <2>5, ReplyDelivered
  <1>6. ASSUME NEW d \in Calls, SourceReconciles(d) PROVE ReplyTrue(c)'
    <2>1. CASE c # d
      <3>1. pc'[c] = pc[c] /\ action'[c] = action[c] /\ reply'[c] = reply[c]
        BY <1>0, <1>6, <2>1 DEF SourceReconciles, TypeOK
      <3> QED BY <3>1, ReplyKept
    <2>2. CASE c = d
      <3>1. /\ pc'[c] = "querying" /\ source' = source /\ action' = action
            /\ reply'[c] = IF Proven(action[c]) THEN "proved" ELSE "unresolved"
        BY <1>0, <1>6, <2>2 DEF SourceReconciles, TypeOK, sourceVars
      <3> QED BY <3>1 DEF ReplyTrue, Proven
    <2> QED BY <2>1, <2>2
  <1>7. CASE UNCHANGED vars
    BY <1>7, ReplyKept DEF vars
  <1> QED BY <1>1, <1>2, <1>3, <1>4, <1>5, <1>6, <1>7 DEF Next, SourceStep

(* A call that comes back with success holds the source's word for it. *)
LEMMA ReturnedNext ==
    ASSUME OutcomeInv, [Next]_vars, NEW c \in Calls
    PROVE  OutcomeTrue(c)'
  <1> DEFINE Applied(a) == source[KeyOf[a]].met /\ source[KeyOf[a]].action = a
  <1>0. /\ TypeInv /\ TypeOK /\ BindingInv /\ ReplyTrue(c) /\ OutcomeTrue(c)
        /\ CallBoundAt(c) /\ (pc[c] # "idle" => action[c] \in Actions)
        /\ \A k \in Keys : VerdictTrue(k)
    BY DEF OutcomeInv, BindingInv, TypeInv, CallBound, Busy
  <1>1. ASSUME action[c] \in Actions, Applied(action[c])
        PROVE  source'[KeyOf[action[c]]] = source[KeyOf[action[c]]]
    BY <1>1, EntriesStay DEF OutcomeInv, SourceKept
  <1>2. ASSUME action[c] \in Actions, journal[KeyOf[action[c]]].action = action[c],
               source[KeyOf[action[c]]].met
        PROVE  Applied(action[c])
    BY <1>0, <1>2 DEF BindingInv, SourceBound
  <1>3. CASE CallStep(c)
    <2> USE <1>0 DEF TypeOK, Answer, Proceed, Goto, Successes
    <2>1. ASSUME pc'[c] = "returning", outcome'[c] \in Successes
          PROVE  action'[c] = action[c] /\ action[c] \in Actions /\ Applied(action[c])
      <3>1. CASE SyncStep(c)
        <4>1. action'[c] = action[c] /\ action[c] \in Actions /\ Replayable(Row(c))
              /\ Row(c).action = action[c]
          BY <2>1, <3>1 DEF SyncStep, Reread, UseRecord, BeginPrepared, BeginExecuted,
                 BeginForbidden, ConnectorMissing, Dispatch, CallBoundAt, SyncPoints, Row, Key
        <4> QED BY <1>2, <4>1 DEF Replayable, Row, Key, VerdictTrue
      <3>2. CASE ExecuteResumes(c)
        <4>1. action'[c] = action[c] /\ action[c] \in Actions /\ Replayable(Row(c))
              /\ Row(c).action = action[c]
          BY <2>1, <3>2 DEF ExecuteResumes, ExecuteDenied, PrepareNew, PrepareConflict,
                            PrepareExisting, UseRecord
        <4> QED BY <1>2, <4>1 DEF Replayable, Row, Key, VerdictTrue
      <3>3. CASE MutateEnds(c) \/ ReconcileEnds(c)
        <4>1. action'[c] = action[c] /\ action[c] \in Actions
              /\ reply[c] \in {"met", "proved"} /\ pc[c] \in {"mutating", "querying"}
          BY <2>1, <3>3 DEF MutateEnds, MutateSucceeds, MutateFails, MutateRaises,
                 ReconcileEnds, ReconcileProves, ReconcileUnresolved, ReconcileRaises
        <4> QED BY <1>2, <4>1 DEF ReplyTrue, CallBoundAt
      <3>4. CASE ReconcileResumes(c)
        <4>1. action'[c] = action[c] /\ action[c] \in Actions /\ Replayable(Row(c))
              /\ Row(c).action = action[c]
          BY <2>1, <3>4 DEF ReconcileResumes, ReconcileDenied, ReconcileConflict,
                            ReconcileClosed, ReconcileImpossible, ReconcileAsks
        <4> QED BY <1>2, <4>1 DEF Replayable, Row, Key, VerdictTrue
      <3>5. CASE Return(c)
        BY <2>1, <3>5 DEF Return
      <3>6. ASSUME NEW a \in Actions, StartExecute(c, a) \/ StartReconcile(c, a)
            PROVE  FALSE
        BY <2>1, <3>6 DEF StartExecute, StartReconcile
      <3> QED BY <1>3, <3>1, <3>2, <3>3, <3>4, <3>5, <3>6 DEF CallStep, TaskStep
    <2> QED BY <1>1, <2>1 DEF OutcomeTrue
  <1>4. CASE pc'[c] = "idle"
    BY <1>4 DEF OutcomeTrue
  <1>5. CASE pc'[c] = pc[c] /\ action'[c] = action[c] /\ outcome'[c] = outcome[c]
    BY <1>0, <1>1, <1>5 DEF OutcomeTrue
  <1> QED BY <1>0, <1>3, <1>4, <1>5, CallFrame

LEMMA OutcomeNext == OutcomeInv /\ [Next]_vars => OutcomeInv'
  <1> SUFFICES ASSUME OutcomeInv, [Next]_vars PROVE OutcomeInv'
    OBVIOUS
  <1>1. BindingInv'
    BY BindingNext DEF OutcomeInv
  <1> QED BY <1>1, SingleRequestNext, VerdictNext, ReplyNext, ReturnedNext DEF OutcomeInv

LEMMA OutcomeHolds == Spec => []OutcomeInv
  BY OutcomeInit, OutcomeNext, PTL DEF Spec

(* However many processes, calls, crashes and exceptions: a row is executed *)
(* and a caller is given a receipt only for an effect the source has        *)
(* applied for this very plan with its postconditions met.                  *)
THEOREM SuccessIsRealHolds == Spec => []SuccessIsReal
  <1>1. OutcomeInv => SuccessIsReal
    BY DEF OutcomeInv, BindingInv, SourceBound, VerdictTrue, OutcomeTrue, SuccessIsReal, Key
  <1> QED BY <1>1, OutcomeHolds, PTL

(* An effect that met its postconditions is never reported failed nor       *)
(* forgotten by a crash: its row is executed, or reconcile() accepts it.    *)
THEOREM EffectsAreRecoverableHolds == Spec => []EffectsAreRecoverable
  <1>1. OutcomeInv => EffectsAreRecoverable
    <2> SUFFICES ASSUME OutcomeInv, NEW k \in Keys, source[k].met
                 PROVE  journal[k].state \in PendingStates \union {"executed"}
      BY DEF EffectsAreRecoverable
    <2>1. journal[k].state \in RowStates
      BY DEF OutcomeInv, BindingInv, TypeInv, TypeOK, Rows
    <2>2. journal[k].state \notin Unsent \union {"failed"}
      BY DEF OutcomeInv, BindingInv, SourceBound, VerdictTrue
    <2> QED BY <2>1, <2>2 DEF RowStates, Unsent, PendingStates
  <1> QED BY <1>1, OutcomeHolds, PTL

LEMMA NewExecuting ==
    ASSUME OutcomeInv, [Next]_vars, NEW k \in Keys, journal[k].state = "executed"
    PROVE  journal'[k].state # "executing"
  <1>0. TypeInv /\ TypeOK
    BY DEF OutcomeInv, BindingInv, TypeInv
  <1>1. ASSUME NEW c \in Calls, NEW v \in RowStates, NEW r \in Receipts, Finish(c, v, r),
               pc[c] # "idle", v # "executing"
        PROVE  journal'[k].state # "executing"
    BY <1>0, <1>1, FinishRow
  <1>2. ASSUME NEW c \in Calls, MutateEnds(c) \/ ReconcileProves(c) \/ ReconcileUnresolved(c)
        PROVE  journal'[k].state # "executing"
    <2>1. \E v \in RowStates, r \in Receipts :
            Finish(c, v, r) /\ pc[c] # "idle" /\ v # "executing"
      BY <1>2 DEF MutateEnds, MutateSucceeds, MutateFails, MutateRaises, ReconcileProves,
                  ReconcileUnresolved, RowStates, Receipts
    <2> QED BY <1>1, <2>1
  <1>3. ASSUME NEW c \in Calls, PrepareNew(c) PROVE journal'[k].state # "executing"
    BY <1>0, <1>3 DEF PrepareNew, TypeOK, Row
  <1>4. ASSUME NEW c \in Calls, BeginPrepared(c) PROVE journal'[k].state # "executing"
    BY <1>0, <1>4, BeginRow
  <1> QED BY <1>2, <1>3, <1>4, JournalFrame

(* Late answers of overlapping calls can mark an executed row for           *)
(* reconciliation, and nothing worse: _finish() checks no state, but no     *)
(* call can hold a definite failure against an effect that is there.        *)
THEOREM ExecutedNeverFailsHolds == Spec => ExecutedNeverFails
  <1>1. OutcomeInv /\ OutcomeInv' /\ [Next]_vars =>
          [\A k \in Keys : journal[k].state = "executed" =>
              journal'[k].state \in {"executed", "reconciliation-required"}]_vars
    <2> SUFFICES ASSUME OutcomeInv, OutcomeInv', [Next]_vars, NEW k \in Keys,
                        journal[k].state = "executed"
                 PROVE  journal'[k].state \in {"executed", "reconciliation-required"}
      OBVIOUS
    <2>1. journal'[k].state \in RowStates
      BY DEF OutcomeInv, BindingInv, TypeInv, TypeOK, Rows
    <2>2. journal'[k].state \notin Unsent
      BY Advance DEF OutcomeInv, RowsAdvance, Unsent
    <2>3. source'[k].met
      BY EntriesStay DEF OutcomeInv, BindingInv, SourceBound, SourceKept, VerdictTrue
    <2>4. journal'[k].state # "failed"
      BY <2>3 DEF OutcomeInv, VerdictTrue
    <2>5. journal'[k].state # "executing"
      BY NewExecuting
    <2> QED BY <2>1, <2>2, <2>4, <2>5 DEF RowStates, Unsent
  <1> QED BY <1>1, OutcomeHolds, PTL DEF Spec, ExecutedNeverFails

-----------------------------------------------------------------------------
(* One gateway process: at most one request per key.                        *)

SingleProcess == \A p, q \in Processes : p = q

(* The event loop keeps prepare(), begin() and the call of mutate() of one  *)
(* execute() together.                                                      *)
LoopInv ==
    \A c, d \in Calls : pc[c] \in SyncPoints /\ pc[d] \in SyncPoints => c = d

DispatchInv ==
    /\ OutcomeInv
    /\ LoopInv
    /\ \A k \in Keys : journal[k].state = "executed" => journal[k].receipt # "none"
    /\ \A c \in Calls :
        /\ pc[c] = "beginning" => journal[KeyOf[action[c]]].state # "executed"
        /\ pc[c] = "dispatching" => sends[KeyOf[action[c]]] = 0
    /\ \A k \in Keys : sends[k] <= 1
    /\ \A m \in wire : sends[KeyOf[m.action]] = 1

LEMMA DispatchInit == Init => DispatchInv
  <1> SUFFICES ASSUME Init PROVE DispatchInv
    OBVIOUS
  <1>1. OutcomeInv
    BY OutcomeInit
  <1>2. LoopInv
    BY DEF Init, LoopInv, SyncPoints
  <1> QED BY <1>1, <1>2 DEF Init, NoRow, DispatchInv

(* Only the call that runs, or a free loop, lets a call reach a point in    *)
(* the middle of execute().                                                 *)
LEMMA LoopNext ==
    ASSUME SingleProcess, DispatchInv, [Next]_vars
    PROVE  LoopInv'
  <1>0. TypeInv /\ LoopInv
    BY DEF DispatchInv, OutcomeInv, BindingInv
  <1>1. ASSUME NEW c \in Calls, CallStep(c), pc'[c] \in SyncPoints
        PROVE  pc[c] \in SyncPoints \/ LoopFree(c)
    <2> USE <1>0 DEF TypeInv, TypeOK, Goto, Answer, Proceed, SyncPoints
    <2>1. CASE SyncStep(c)
      BY <2>1 DEF SyncStep, Reread, BeginPrepared, BeginExecuted, BeginForbidden,
                  ConnectorMissing, Dispatch
    <2>2. CASE ExecuteResumes(c) \/ MutateEnds(c) \/ ReconcileResumes(c)
      BY <2>2 DEF ExecuteResumes, ExecuteDenied, PrepareNew, PrepareConflict, PrepareExisting,
                  MutateEnds, MutateSucceeds, MutateFails, MutateRaises, ReconcileResumes,
                  ReconcileDenied, ReconcileConflict, ReconcileClosed, ReconcileImpossible,
                  ReconcileAsks
    <2>3. CASE ReconcileEnds(c)
      BY <2>3 DEF ReconcileEnds, ReconcileProves, ReconcileUnresolved, ReconcileRaises
    <2>4. CASE Return(c)
      BY <1>1, <2>4 DEF Return
    <2>5. CASE \E a \in Actions : StartExecute(c, a) \/ StartReconcile(c, a)
      BY <2>5 DEF StartExecute, StartReconcile
    <2> QED BY <1>1, <2>1, <2>2, <2>3, <2>4, <2>5 DEF CallStep, TaskStep
  <1>2. ASSUME NEW c \in Calls, CallStep(c) PROVE LoopInv'
    <2>1. \A d \in Calls : d # c => pc'[d] = pc[d]
      BY <1>0, <1>2, OtherCalls
    <2>2. ASSUME NEW d \in Calls, d # c, pc'[c] \in SyncPoints, pc[d] \in SyncPoints
          PROVE  FALSE
      <3>1. CASE pc[c] \in SyncPoints
        BY <1>0, <2>2, <3>1 DEF LoopInv
      <3>2. CASE LoopFree(c)
        BY <2>2, <3>2 DEF LoopFree, SingleProcess
      <3> QED BY <1>1, <1>2, <2>2, <3>1, <3>2
    <2> QED BY <1>0, <2>1, <2>2 DEF LoopInv
  <1>3. ASSUME \A c \in Calls : pc'[c] = "idle" \/ pc'[c] = pc[c] PROVE LoopInv'
    BY <1>0, <1>3 DEF LoopInv, SyncPoints
  <1>4. ASSUME \A c \in Calls : ~ CallStep(c) PROVE LoopInv'
    BY <1>0, <1>3, <1>4, CallFrame
  <1> QED BY <1>2, <1>4

(* While a call is in the middle of execute(), no other writes the journal  *)
(* or sends a request.                                                      *)
LEMMA Alone ==
    ASSUME SingleProcess, DispatchInv, NEW c \in Calls, pc[c] \in SyncPoints, NEW d \in Calls,
           \/ PrepareNew(d) \/ BeginPrepared(d) \/ MutateEnds(d) \/ ReconcileProves(d)
           \/ ReconcileUnresolved(d) \/ Dispatch(d)
    PROVE  c = d
  <1>1. pc[d] \in SyncPoints \/ LoopFree(d)
    BY DEF PrepareNew, BeginPrepared, MutateEnds, MutateSucceeds, MutateFails, MutateRaises,
           ReconcileProves, ReconcileUnresolved, Dispatch, SyncPoints
  <1>2. CASE pc[d] \in SyncPoints
    BY <1>2 DEF DispatchInv, LoopInv
  <1>3. CASE LoopFree(d)
    BY <1>3 DEF LoopFree, SingleProcess
  <1> QED BY <1>1, <1>2, <1>3

LEMMA ReceiptKept ==
    ASSUME DispatchInv, [Next]_vars, NEW k \in Keys, journal'[k].state = "executed"
    PROVE  journal'[k].receipt # "none"
  <1>0. TypeInv /\ TypeOK /\ (journal[k].state = "executed" => journal[k].receipt # "none")
    BY DEF DispatchInv, OutcomeInv, BindingInv, TypeInv
  <1>1. ASSUME NEW c \in Calls, NEW v \in RowStates, NEW r \in Receipts, Finish(c, v, r),
               pc[c] # "idle", v = "executed" => r # "none"
        PROVE  journal'[k].receipt # "none"
    BY <1>0, <1>1, FinishRow
  <1>2. ASSUME NEW c \in Calls, MutateEnds(c) \/ ReconcileProves(c) \/ ReconcileUnresolved(c)
        PROVE  journal'[k].receipt # "none"
    <2>1. \E v \in RowStates, r \in Receipts :
            Finish(c, v, r) /\ pc[c] # "idle" /\ (v = "executed" => r # "none")
      BY <1>2 DEF MutateEnds, MutateSucceeds, MutateFails, MutateRaises, ReconcileProves,
                  ReconcileUnresolved, RowStates, Receipts
    <2> QED BY <1>1, <2>1
  <1>3. ASSUME NEW c \in Calls, PrepareNew(c) PROVE journal'[k].receipt # "none"
    BY <1>0, <1>3 DEF PrepareNew, TypeOK, Row
  <1>4. ASSUME NEW c \in Calls, BeginPrepared(c) PROVE journal'[k].receipt # "none"
    BY <1>0, <1>4, BeginRow
  <1>5. CASE UNCHANGED journal
    BY <1>0, <1>5
  <1> QED BY <1>2, <1>3, <1>4, <1>5, JournalFrame

LEMMA BeginningNext ==
    ASSUME SingleProcess, DispatchInv, [Next]_vars, NEW c \in Calls, pc'[c] = "beginning"
    PROVE  journal'[KeyOf[action'[c]]].state # "executed"
  <1>0. /\ TypeInv /\ TypeOK
        /\ pc[c] # "idle" => KeyOf[action[c]] \in Keys
        /\ \A k \in Keys : journal[k].state = "executed" => journal[k].receipt # "none"
        /\ pc[c] = "beginning" => journal[KeyOf[action[c]]].state # "executed"
    BY DEF DispatchInv, OutcomeInv, BindingInv, TypeInv, Busy
  <1>1. CASE CallStep(c)
    <2> USE <1>0 DEF TypeOK, Goto, Answer, Proceed
    <2>1. CASE SyncStep(c)
      <3>1. /\ pc[c] # "idle" /\ action' = action /\ journal' = journal
            /\ ~ Replayable(Row(c))
        BY <2>1 DEF SyncStep, Reread, UseRecord, BeginPrepared, BeginExecuted, BeginForbidden,
                    ConnectorMissing, Dispatch, journalVars
      <3> QED BY <3>1 DEF Replayable, Row, Key
    <2>2. CASE ExecuteResumes(c)
      <3>1. /\ pc[c] # "idle" /\ action' = action /\ journal' = journal
            /\ ~ Replayable(Row(c))
        BY <2>2 DEF ExecuteResumes, ExecuteDenied, PrepareNew, PrepareConflict, PrepareExisting,
                    UseRecord, journalVars
      <3> QED BY <3>1 DEF Replayable, Row, Key
    <2>3. CASE MutateEnds(c) \/ ReconcileEnds(c)
      BY <2>3 DEF MutateEnds, MutateSucceeds, MutateFails, MutateRaises, ReconcileEnds,
                  ReconcileProves, ReconcileUnresolved, ReconcileRaises
    <2>4. CASE ReconcileResumes(c)
      BY <2>4 DEF ReconcileResumes, ReconcileDenied, ReconcileConflict, ReconcileClosed,
                  ReconcileImpossible, ReconcileAsks
    <2>5. CASE Return(c) \/ \E a \in Actions : StartExecute(c, a) \/ StartReconcile(c, a)
      BY <2>5 DEF Return, StartExecute, StartReconcile
    <2> QED BY <1>1, <2>1, <2>2, <2>3, <2>4, <2>5 DEF CallStep, TaskStep
  <1>2. CASE pc'[c] = pc[c] /\ action'[c] = action[c] /\ ~ CallStep(c)
    <2>1. ASSUME NEW d \in Calls,
                 \/ PrepareNew(d) \/ BeginPrepared(d) \/ MutateEnds(d) \/ ReconcileProves(d)
                 \/ ReconcileUnresolved(d)
          PROVE  FALSE
      <3>1. d = c
        BY <1>2, <2>1, Alone DEF SyncPoints
      <3> QED BY <1>2, <2>1, <3>1 DEF CallStep, TaskStep, SyncStep, ExecuteResumes, ReconcileEnds
    <2>2. journal' = journal
      BY <2>1, JournalFrame
    <2> QED BY <1>0, <1>2, <2>2
  <1> QED BY <1>0, <1>1, <1>2, CallFrame

LEMMA DispatchNext == SingleProcess /\ DispatchInv /\ [Next]_vars => DispatchInv'
  <1> SUFFICES ASSUME SingleProcess, DispatchInv, [Next]_vars PROVE DispatchInv'
    OBVIOUS
  <1>0. TypeInv /\ TypeOK /\ BindingInv /\ OutcomeInv /\ OutcomeInv' /\ LoopInv
    BY OutcomeNext DEF DispatchInv, OutcomeInv, BindingInv, TypeInv
  <1>1. ASSUME NEW c \in Calls, Dispatch(c)
        PROVE  /\ \A d \in Calls : pc'[d] # "dispatching"
               /\ \A k \in Keys : sends'[k] <= 1
               /\ \A m \in wire' : sends'[KeyOf[m.action]] = 1
    <2>1. /\ KeyOf[action[c]] \in Keys /\ sends[KeyOf[action[c]]] = 0
          /\ pc[c] = "dispatching" /\ pc'[c] = "mutating"
          /\ sends' = [sends EXCEPT ![KeyOf[action[c]]] = @ + 1]
          /\ wire' = wire \union {[call |-> c, action |-> action[c]]}
      BY <1>0, <1>1 DEF Dispatch, DispatchInv, TypeInv, TypeOK, Busy, Key, Proceed, Goto
    <2>2. \A d \in Calls : pc'[d] # "dispatching"
      <3>1. \A d \in Calls : d # c => pc'[d] = pc[d]
        BY <1>0, <1>1, OtherCalls DEF CallStep, TaskStep, SyncStep
      <3> QED BY <1>0, <2>1, <3>1 DEF LoopInv, SyncPoints
    <2>3. \A k \in Keys : sends'[k] <= 1
      BY <1>0, <2>1 DEF DispatchInv, TypeOK
    <2>4. \A m \in wire : KeyOf[m.action] \in Keys /\ sends[KeyOf[m.action]] = 1
      BY <1>0 DEF DispatchInv, TypeOK, Requests
    <2>5. \A m \in wire' : sends'[KeyOf[m.action]] = 1
      BY <1>0, <2>1, <2>4 DEF TypeOK
    <2> QED BY <2>2, <2>3, <2>5
  <1>2. ASSUME \A c \in Calls : ~ Dispatch(c)
        PROVE  sends' = sends /\ wire' \subseteq wire
    BY <1>2, SourceFrame DEF sourceVars, SourceReplays, SourceRejects, SourceApplies
  <1>3. ASSUME \A c \in Calls : ~ Dispatch(c), NEW c \in Calls, pc'[c] = "dispatching"
        PROVE  sends'[KeyOf[action'[c]]] = 0
    <2>1. ASSUME NEW d \in Calls, BeginExecuted(d) PROVE FALSE
      BY <2>1 DEF BeginExecuted, DispatchInv, Row, Key
    <2>2. CASE Shrinks
      BY <1>2, <1>3, <2>2 DEF Shrinks, DispatchInv
    <2>3. ASSUME NEW d \in Calls, BeginPrepared(d) PROVE sends'[KeyOf[action'[c]]] = 0
      <3>1. /\ KeyOf[action[d]] \in Keys /\ action' = action
            /\ journal[KeyOf[action[d]]].state = "prepared"
        BY <1>0, <2>3, BeginRow DEF BeginPrepared, Proceed, Key
      <3>2. sends[KeyOf[action[d]]] = 0
        BY <1>0, <3>1 DEF BindingInv, SourceBound, Unsent, TypeOK
      <3>3. c # d => pc[c] = "dispatching"
        BY <1>0, <1>3, <2>3, OtherCalls DEF CallStep, TaskStep, SyncStep
      <3> QED BY <1>2, <1>3, <3>1, <3>2, <3>3 DEF DispatchInv
    <2> QED BY <1>0, <1>3, <2>1, <2>2, <2>3, StepShapes
  <1>4. /\ \A c \in Calls : pc'[c] = "dispatching" => sends'[KeyOf[action'[c]]] = 0
        /\ \A k \in Keys : sends'[k] <= 1
        /\ \A m \in wire' : sends'[KeyOf[m.action]] = 1
    <2>1. CASE \E c \in Calls : Dispatch(c)
      BY <1>1, <2>1
    <2>2. CASE \A c \in Calls : ~ Dispatch(c)
      BY <1>2, <1>3, <2>2 DEF DispatchInv
    <2> QED BY <2>1, <2>2
  <1> QED BY <1>0, <1>4, LoopNext, ReceiptKept, BeginningNext DEF DispatchInv

LEMMA DispatchHolds ==
    ASSUME SingleProcess
    PROVE  Spec => []DispatchInv
  BY DispatchInit, DispatchNext, PTL DEF Spec

(* With one gateway process, whatever its crashes, cancellations and        *)
(* repeated calls, begin() lets each key out of "prepared" once: mutate()   *)
(* is called at most once per key, for ever.                                *)
THEOREM AtMostOneDispatchHolds ==
    ASSUME SingleProcess
    PROVE  Spec => []AtMostOneDispatch
  <1>1. DispatchInv => AtMostOneDispatch
    BY DEF DispatchInv, AtMostOneDispatch
  <1> QED BY <1>1, DispatchHolds, PTL

-----------------------------------------------------------------------------
(* Refinement *)

Binding == [k \in Keys |-> journal[k].action]
Effect == [k \in Keys |-> source[k].action]

LEMMA RefinementInit == Init => Abstract!Init
  BY DEF Init, NoRow, Abstract!Init

(* Only prepare() of a fresh key changes the binding. *)
LEMMA BindingFrame ==
    ASSUME DispatchInv, [Next]_vars
    PROVE  \/ Binding' = Binding
           \/ \E c \in Calls : PrepareNew(c)
  <1>0. TypeInv /\ TypeOK
    BY DEF DispatchInv, OutcomeInv, BindingInv, TypeInv
  <1>1. CASE UNCHANGED journal
    BY <1>1 DEF Binding
  <1>2. ASSUME \A k \in Keys : journal'[k].action = journal[k].action
        PROVE  Binding' = Binding
    BY <1>2 DEF Binding
  <1>3. ASSUME NEW c \in Calls, NEW v \in RowStates, NEW r \in Receipts, Finish(c, v, r),
               pc[c] # "idle"
        PROVE  Binding' = Binding
    <2>1. /\ journal[Key(c)].action = action[c] /\ journal'[Key(c)].action = action[c]
          /\ \A k \in Keys : k # Key(c) => journal'[k] = journal[k]
      BY <1>0, <1>3, FinishRow
    <2>2. \A k \in Keys : journal'[k].action = journal[k].action
      BY <2>1
    <2> QED BY <1>2, <2>2
  <1>4. ASSUME NEW c \in Calls, MutateEnds(c) \/ ReconcileProves(c) \/ ReconcileUnresolved(c)
        PROVE  Binding' = Binding
    <2>1. \E v \in RowStates, r \in Receipts : Finish(c, v, r) /\ pc[c] # "idle"
      BY <1>4 DEF MutateEnds, MutateSucceeds, MutateFails, MutateRaises, ReconcileProves,
                  ReconcileUnresolved, RowStates, Receipts
    <2> QED BY <1>3, <2>1
  <1>5. ASSUME NEW c \in Calls, BeginPrepared(c) PROVE Binding' = Binding
    <2>1. \A k \in Keys : journal'[k].action = journal[k].action
      BY <1>0, <1>5, BeginRow
    <2> QED BY <1>2, <2>1
  <1> QED BY <1>1, <1>4, <1>5, JournalFrame

LEMMA RefinementNext ==
    ASSUME DispatchInv, [Next]_vars
    PROVE  [Abstract!Next]_(Abstract!vars)
  <1>0. TypeInv /\ TypeOK /\ BindingInv
    BY DEF DispatchInv, OutcomeInv, BindingInv, TypeInv
  <1>1. ASSUME NEW c \in Calls, PrepareNew(c) PROVE Abstract!Next
    <2>1. PICK a \in Actions : a = action[c]
      BY <1>0, <1>1 DEF PrepareNew, TypeInv, Busy
    <2>2. Binding[KeyOf[a]] = None
      BY <1>0, <1>1, <2>1 DEF PrepareNew, Binding, Row, Key, BindingInv, RowShape
    <2>3. Binding' = [Binding EXCEPT ![KeyOf[a]] = a]
      BY <1>0, <1>1, <2>1 DEF PrepareNew, Binding, Key, TypeOK
    <2>4. Effect' = Effect /\ sends' = sends
      BY <1>1 DEF PrepareNew, Effect, sourceVars
    <2>5. Abstract!Bind(a)
      BY <2>2, <2>3, <2>4 DEF Abstract!Bind, Binding, Effect
    <2> QED BY <2>5 DEF Abstract!Next
  <1>2. ASSUME NEW c \in Calls, Dispatch(c) PROVE Abstract!Next
    <2>1. /\ action[c] \in Actions /\ Key(c) \in Keys /\ sends[Key(c)] = 0
          /\ journal[Key(c)].action = action[c]
      BY <1>0, <1>2 DEF Dispatch, TypeInv, Busy, Key, DispatchInv, BindingInv, CallBound,
                        CallBoundAt, SyncPoints
    <2>2. /\ sends' = [sends EXCEPT ![Key(c)] = 1] /\ journal' = journal /\ source' = source
      BY <1>0, <1>2, <2>1 DEF Dispatch, journalVars, TypeOK
    <2>3. Abstract!Send(Key(c))
      BY <2>1, <2>2 DEF Abstract!Send
    <2> QED BY <2>1, <2>3 DEF Abstract!Next
  <1>3. ASSUME NEW m \in wire, NEW met \in BOOLEAN, SourceApplies(m, met) PROVE Abstract!Next
    <2> DEFINE k == KeyOf[m.action]
    <2>1. /\ m.action \in Actions /\ k \in Keys /\ sends[k] = 1
          /\ journal[k].action = m.action
      BY <1>0 DEF TypeOK, Requests, DispatchInv, BindingInv, WireBound
    <2>2. /\ source[k].action = None /\ journal' = journal /\ sends' = sends
          /\ source' = [source EXCEPT ![k] = [action |-> m.action, met |-> met]]
      BY <1>3 DEF SourceApplies, journalVars
    <2>3. Effect' = [Effect EXCEPT ![k] = Binding[k]]
      BY <1>0, <2>1, <2>2 DEF Effect, Binding, TypeOK
    <2>4. Abstract!Apply(k)
      BY <2>1, <2>2, <2>3 DEF Abstract!Apply, Effect, Binding
    <2> QED BY <2>1, <2>4 DEF Abstract!Next
  <1>4. ASSUME \A c \in Calls : ~ Dispatch(c) /\ ~ PrepareNew(c),
               \A m \in wire, met \in BOOLEAN : ~ SourceApplies(m, met)
        PROVE  UNCHANGED (Abstract!vars)
    <2>1. sends' = sends /\ source' = source
      BY <1>4, SourceFrame DEF sourceVars, SourceReplays, SourceRejects
    <2>2. Binding' = Binding
      BY <1>4, BindingFrame
    <2> QED BY <2>1, <2>2 DEF Abstract!vars, Binding
  <1> QED BY <1>1, <1>2, <1>3, <1>4

(* The gateway of one process implements AtMostOnceAction: binding a key,   *)
(* one request, one effect; replays, reconciliation, exceptions, crashes    *)
(* and the journal's own states are invisible to the source.                *)
THEOREM AtMostOnceHolds ==
    ASSUME SingleProcess
    PROVE  Spec => AtMostOnce
  <1>1. DispatchInv /\ [Next]_vars => [Abstract!Next]_(Abstract!vars)
    BY RefinementNext
  <1> QED BY <1>1, RefinementInit, DispatchHolds, PTL DEF Spec, AtMostOnce, Abstract!Spec
=============================================================================
