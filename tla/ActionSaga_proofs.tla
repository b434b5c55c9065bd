------------------------- MODULE ActionSaga_proofs -------------------------
(***************************************************************************)
(* Proofs about ActionSaga for any runs, steps, plans and keys.            *)
(*                                                                         *)
(* The argument: an entry of the source's table is never overwritten, so   *)
(* Applied(plan) is stable; a success reply, an entry of the idempotency   *)
(* table and a compensation on its way each imply Applied of what they     *)
(* stand for; hence so do the receipts a run collects.                     *)
(***************************************************************************)
EXTENDS ActionSaga, TLAPS

(* The source can tell apart the plans that share a key. *)
DistinctIds ==
    \A a, b \in Actions : KeyOf[a] = KeyOf[b] /\ IdOf[a] = IdOf[b] => a = b

Active == {"previewing", "authorizing", "mutating"}

(* An outcome is set when a run ends. *)
OutcomeAtEnd == \A r \in Runs : pc[r] # "ended" => outcome[r] = "none"

(* A success reply stands for an effect of the plan the run awaits. *)
RepliesAreReal ==
    \A r \in Runs : reply[r] = "met" => pc[r] = "mutating" /\ Applied(Plan(r))

(* The receipts of one run, and its compensations. *)
RunIsReal(r) ==
    /\ \A j \in Completed(r) : Applied(Forward(StepsOf[r][j]))
    /\ undo[r] > 0 \/ outcome[r] = "compensated" =>
          \A j \in (undo[r] + 1)..(pos[r] - 1) : Applied(Backward(StepsOf[r][j]))

TableIsReal ==
    \A s \in Slots : idempotency[s] # None =>
        Applied([action |-> idempotency[s], undo |-> s[2]])

(* An entry of the source's table belongs to its key. *)
SourceBound ==
    \A s \in Slots : source[s].action # None => KeyOf[source[s].action] = s[1]

SagaInv ==
    /\ TypeOK
    /\ SourceBound
    /\ OutcomeAtEnd
    /\ RepliesAreReal
    /\ TableIsReal
    /\ \A r \in Runs : RunIsReal(r)
    /\ NoUndoWithoutEffect

-----------------------------------------------------------------------------
(* Data *)

LEMMA StepsTyped ==
    ASSUME NEW r \in Runs
    PROVE  /\ StepsOf[r] \in Seq(Actions) /\ Len(StepsOf[r]) \in Nat \ {0}
           /\ \A j \in 1..Len(StepsOf[r]) : StepsOf[r][j] \in Actions
  <1>1. StepsOf[r] \in Seq(Actions) /\ StepsOf[r] # <<>>
    BY StepsOfAssumption
  <1> QED BY <1>1

LEMMA PlanTyped ==
    ASSUME TypeOK, NEW r \in Runs
    PROVE  Plan(r) \in Plans /\ Slot(r) \in Slots
  <1>1. /\ pos[r] \in 1..Len(StepsOf[r]) /\ undo[r] \in Nat /\ undo[r] < pos[r]
        /\ Len(StepsOf[r]) \in Nat
    BY StepsTyped DEF TypeOK
  <1>2. undo[r] # 0 => undo[r] \in 1..Len(StepsOf[r])
    BY <1>1
  <1>3. Plan(r) \in Plans
    BY <1>1, <1>2, StepsTyped DEF Plan, Plans, Forward, Backward
  <1> QED BY <1>3, KeyOfAssumption DEF Slot, SlotOf, Slots, Plans

LEMMA SlotTyped ==
    ASSUME NEW plan \in Plans
    PROVE  SlotOf(plan) \in Slots /\ plan.action \in Actions /\ plan.undo \in BOOLEAN
  BY KeyOfAssumption DEF SlotOf, Slots, Plans

-----------------------------------------------------------------------------
(* Types *)

LEMMA MoveTypes ==
    ASSUME TypeOK, NEW r \in Runs, StepSucceeds(r) \/ StepFails(r)
    PROVE  /\ pc' \in [Runs -> Points] /\ outcome' \in [Runs -> Outcomes]
           /\ pos' \in [Runs -> Nat] /\ undo' \in [Runs -> Nat]
           /\ \A s \in Runs : pos'[s] \in 1..Len(StepsOf[s]) /\ undo'[s] < pos'[s]
  <1>1. /\ pos[r] \in Nat /\ undo[r] \in Nat /\ undo[r] < pos[r]
        /\ 1 <= pos[r] /\ pos[r] <= Len(StepsOf[r]) /\ Len(StepsOf[r]) \in Nat
    BY StepsTyped DEF TypeOK
  <1>2. pc' \in [Runs -> Points] /\ outcome' \in [Runs -> Outcomes]
    BY DEF StepSucceeds, StepFails, Advance, Rewind, StartUndo, End, Goto, TypeOK, Points,
           Outcomes
  <1>3. \/ pos' = [pos EXCEPT ![r] = @ + 1] /\ undo' = undo /\ pos[r] < Len(StepsOf[r])
        \/ pos' = pos /\ undo' = undo
        \/ pos' = pos /\ undo' = [undo EXCEPT ![r] = @ - 1] /\ undo[r] # 0
        \/ pos' = pos /\ undo' = [undo EXCEPT ![r] = pos[r] - 1]
    BY DEF StepSucceeds, StepFails, Advance, Rewind, StartUndo
  <1>4. pos' \in [Runs -> Nat] /\ undo' \in [Runs -> Nat]
    <2>1. pos[r] + 1 \in Nat /\ pos[r] - 1 \in Nat /\ (undo[r] # 0 => undo[r] - 1 \in Nat)
      BY <1>1
    <2>2. pos \in [Runs -> Nat] /\ undo \in [Runs -> Nat]
      BY DEF TypeOK
    <2>3. pos' \in [Runs -> Nat]
      BY <1>3, <2>1, <2>2
    <2>4. undo' \in [Runs -> Nat]
      BY <1>3, <2>1, <2>2
    <2> QED BY <2>3, <2>4
  <1>5. pos'[r] \in 1..Len(StepsOf[r]) /\ undo'[r] < pos'[r]
    BY <1>1, <1>3 DEF TypeOK
  <1>6. \A s \in Runs : s # r => pos'[s] = pos[s] /\ undo'[s] = undo[s]
    BY <1>3 DEF TypeOK
  <1> QED BY <1>2, <1>4, <1>5, <1>6 DEF TypeOK

LEMMA TypeInit == Init => TypeOK
  BY StepsTyped DEF Init, TypeOK, Points, Outcomes, Replies

LEMMA TypeNext == TypeOK /\ [Next]_vars => TypeOK'
  <1> SUFFICES ASSUME TypeOK, [Next]_vars PROVE TypeOK'
    OBVIOUS
  <1>1. ASSUME NEW r \in Runs, Start(r) \/ PreviewAllowed(r) PROVE TypeOK'
    BY <1>1 DEF Start, PreviewAllowed, Goto, TypeOK, Points
  <1>2. ASSUME NEW r \in Runs, Refused(r) \/ Conflict(r) \/ Replay(r) PROVE TypeOK'
    BY <1>2, MoveTypes DEF Refused, Conflict, Replay, TypeOK
  <1>3. ASSUME NEW r \in Runs, Raises(r) PROVE TypeOK'
    BY <1>3 DEF Raises, End, Goto, TypeOK, Points, Outcomes, Replies
  <1>4. ASSUME NEW r \in Runs, Dispatch(r) PROVE TypeOK'
    BY <1>4, PlanTyped DEF Dispatch, Goto, TypeOK, Points
  <1>5. ASSUME NEW r \in Runs, MutateSucceeds(r) PROVE TypeOK'
    <2>1. idempotency' \in [Slots -> Actions \union {None}]
      BY <1>5, PlanTyped, SlotTyped DEF MutateSucceeds, Bind, TypeOK
    <2> QED BY <1>5, <2>1, MoveTypes DEF MutateSucceeds, Bind, TypeOK, Replies
  <1>6. ASSUME NEW r \in Runs, MutateFails(r) PROVE TypeOK'
    BY <1>6, MoveTypes DEF MutateFails, TypeOK, Replies
  <1>7. CASE Crash
    BY <1>7 DEF Crash, TypeOK, Points, Outcomes, Replies
  <1>8. ASSUME NEW m \in wire,
               SourceReplays(m) \/ SourceRejects(m) \/ \E met \in BOOLEAN : SourceApplies(m, met)
        PROVE  TypeOK'
    <2>1. m.run \in Runs /\ m.plan \in Plans
      BY <1>8 DEF TypeOK
    <2>2. source' \in [Slots -> [action : Actions \union {None}, met : BOOLEAN]]
      <3>1. ASSUME NEW met \in BOOLEAN, SourceApplies(m, met)
            PROVE  source' \in [Slots -> [action : Actions \union {None}, met : BOOLEAN]]
        <4>1. [action |-> m.plan.action, met |-> met]
                \in [action : Actions \union {None}, met : BOOLEAN]
          BY <2>1, SlotTyped
        <4> QED BY <3>1, <4>1 DEF SourceApplies, TypeOK
      <3> QED BY <1>8, <3>1 DEF SourceReplays, SourceRejects, TypeOK
    <2>3. /\ reply' \in [Runs -> Replies] /\ wire' \in SUBSET [run : Runs, plan : Plans]
          /\ UNCHANGED <<pc, pos, undo, outcome, idempotency>>
      BY <1>8, <2>1 DEF SourceReplays, SourceRejects, SourceApplies, Deliver, TypeOK, Replies,
                        runVars
    <2> QED BY <2>2, <2>3 DEF TypeOK
  <1>9. CASE UNCHANGED vars
    BY <1>9 DEF vars, TypeOK
  <1> QED BY <1>1, <1>2, <1>3, <1>4, <1>5, <1>6, <1>7, <1>8, <1>9
          DEF Next, RunStep, SourceStep

(* The state of the saga coordinator and its gateway keeps its types; in    *)
(* particular a run only ever compensates steps before the one it reached.  *)
THEOREM TypeCorrect == Spec => []TypeOK
  BY TypeInit, TypeNext, PTL DEF Spec

-----------------------------------------------------------------------------
(* What a step can do to the source *)

(* An entry of the source's table is never overwritten. *)
LEMMA SourceKept ==
    ASSUME TypeOK, [Next]_vars, NEW s \in Slots, source[s].action # None
    PROVE  source'[s] = source[s]
  <1>1. ASSUME NEW m \in wire, NEW met \in BOOLEAN, SourceApplies(m, met)
        PROVE  source'[s] = source[s]
    BY <1>1 DEF SourceApplies, TypeOK
  <1>2. CASE UNCHANGED source
    BY <1>2
  <1> QED BY <1>1, <1>2 DEF Next, Start, RunStep, PreviewAllowed, Refused, Raises, Conflict,
          Replay, Dispatch, MutateSucceeds, Bind, MutateFails, Crash, SourceStep,
          SourceReplays, SourceRejects, vars

LEMMA AppliedKept ==
    ASSUME TypeOK, [Next]_vars, NEW plan \in Plans, Applied(plan)
    PROVE  Applied(plan)'
  <1>1. SlotOf(plan) \in Slots /\ source[SlotOf(plan)].action # None
    BY SlotTyped, NoneAssumption DEF Applied
  <1>2. source'[SlotOf(plan)] = source[SlotOf(plan)]
    BY <1>1, SourceKept
  <1> QED BY <1>2 DEF Applied

LEMMA Targets ==
    ASSUME NEW a \in Actions
    PROVE  Forward(a) \in Plans /\ Backward(a) \in Plans
  BY DEF Forward, Backward, Plans

(* A step that succeeds has had its effect. *)
LEMMA SuccessIsApplied ==
    ASSUME SagaInv, NEW r \in Runs, Replay(r) \/ MutateSucceeds(r)
    PROVE  Applied(Plan(r))
  <1>1. CASE MutateSucceeds(r)
    BY <1>1 DEF MutateSucceeds, SagaInv, RepliesAreReal
  <1>2. CASE Replay(r)
    <2>1. /\ Slot(r) \in Slots /\ Plan(r) \in Plans
          /\ idempotency[Slot(r)] = Plan(r).action
      BY <1>2, PlanTyped DEF Replay, SagaInv
    <2>2. Plan(r).action # None /\ Slot(r)[2] = Plan(r).undo
      BY <2>1, SlotTyped, NoneAssumption DEF Slot, SlotOf
    <2>3. Applied([action |-> Plan(r).action, undo |-> Plan(r).undo])
      BY <2>1, <2>2 DEF SagaInv, TableIsReal
    <2>4. Plan(r) = [action |-> Plan(r).action, undo |-> Plan(r).undo]
      BY <2>1 DEF Plans
    <2> QED BY <2>3, <2>4
  <1> QED BY <1>1, <1>2

-----------------------------------------------------------------------------
(* The runs *)

(* What becomes of a run's own variables. *)
RunKept(r) == pos'[r] = pos[r] /\ undo'[r] = undo[r] /\ outcome'[r] = outcome[r]

RunRaised(r) == pos'[r] = pos[r] /\ undo'[r] = undo[r] /\ outcome'[r] = "raised"

RunFailed(r) ==
    /\ outcome[r] = "none" /\ pos'[r] = pos[r]
    /\ \/ undo'[r] = undo[r] /\ outcome'[r] = "compensation-failed"
       \/ undo[r] = 0 /\ undo'[r] = 0 /\ outcome'[r] = "failed"
       \/ undo[r] = 0 /\ undo'[r] = pos[r] - 1 /\ outcome'[r] = "none"

RunAdvanced(r) ==
    /\ outcome[r] = "none" /\ undo[r] = 0 /\ undo'[r] = 0
    /\ Applied(Forward(StepsOf[r][pos[r]]))
    /\ \/ pos'[r] = pos[r] + 1 /\ outcome'[r] = "none"
       \/ pos[r] = Len(StepsOf[r]) /\ pos'[r] = pos[r] /\ outcome'[r] = "completed"

RunRewound(r) ==
    /\ outcome[r] = "none" /\ undo[r] > 0 /\ undo'[r] = undo[r] - 1 /\ pos'[r] = pos[r]
    /\ Applied(Backward(StepsOf[r][undo[r]]))
    /\ \/ outcome'[r] = "none" /\ undo[r] > 1
       \/ outcome'[r] = "compensated" /\ undo[r] = 1

RunMoves(r) ==
    RunKept(r) \/ RunRaised(r) \/ RunFailed(r) \/ RunAdvanced(r) \/ RunRewound(r)

LEMMA FailMoves ==
    ASSUME TypeOK, OutcomeAtEnd, NEW r \in Runs, pc[r] # "ended", StepFails(r)
    PROVE  RunFailed(r) /\ \A s \in Runs : s # r => RunKept(s)
  <1>1. pos[r] \in Nat /\ undo[r] \in Nat /\ undo[r] < pos[r]
    BY StepsTyped DEF TypeOK
  <1>2. RunFailed(r)
    BY <1>1 DEF StepFails, StartUndo, End, Goto, OutcomeAtEnd, TypeOK, RunFailed
  <1>3. \A s \in Runs : s # r => RunKept(s)
    BY DEF StepFails, StartUndo, End, Goto, TypeOK, RunKept
  <1> QED BY <1>2, <1>3

LEMMA SucceedMoves ==
    ASSUME TypeOK, OutcomeAtEnd, NEW r \in Runs, pc[r] # "ended", StepSucceeds(r),
           Applied(Plan(r))
    PROVE  (RunAdvanced(r) \/ RunRewound(r)) /\ \A s \in Runs : s # r => RunKept(s)
  <1>1. /\ pos[r] \in 1..Len(StepsOf[r]) /\ Len(StepsOf[r]) \in Nat
        /\ undo[r] \in Nat /\ undo[r] < pos[r] /\ outcome[r] = "none"
    BY StepsTyped DEF TypeOK, OutcomeAtEnd
  <1>2. CASE undo[r] = 0
    <2>1. Applied(Forward(StepsOf[r][pos[r]])) /\ Advance(r)
      BY <1>2 DEF Plan, StepSucceeds
    <2>2. RunAdvanced(r)
      BY <1>1, <1>2, <2>1 DEF Advance, End, Goto, TypeOK, RunAdvanced
    <2>3. \A s \in Runs : s # r => RunKept(s)
      BY <2>1 DEF Advance, End, Goto, TypeOK, RunKept
    <2> QED BY <2>2, <2>3
  <1>3. CASE undo[r] # 0
    <2>1. Applied(Backward(StepsOf[r][undo[r]])) /\ Rewind(r)
      BY <1>3 DEF Plan, StepSucceeds
    <2>2. RunRewound(r)
      BY <1>1, <1>3, <2>1 DEF Rewind, End, Goto, TypeOK, RunRewound
    <2>3. \A s \in Runs : s # r => RunKept(s)
      BY <2>1 DEF Rewind, End, Goto, TypeOK, RunKept
    <2> QED BY <2>2, <2>3
  <1> QED BY <1>2, <1>3

LEMMA MovesOfNext ==
    ASSUME SagaInv, [Next]_vars, NEW s \in Runs
    PROVE  RunMoves(s)
  <1>0. TypeOK /\ OutcomeAtEnd
    BY DEF SagaInv
  <1>1. ASSUME NEW r \in Runs, Start(r) \/ PreviewAllowed(r) \/ Dispatch(r) PROVE RunMoves(s)
    BY <1>1 DEF Start, PreviewAllowed, Dispatch, RunKept, RunMoves
  <1>2. ASSUME NEW r \in Runs, Refused(r) \/ Conflict(r) \/ MutateFails(r) PROVE RunMoves(s)
    <2>1. pc[r] # "ended" /\ StepFails(r)
      BY <1>2 DEF Refused, Conflict, MutateFails
    <2> QED BY <1>0, <2>1, FailMoves DEF RunMoves
  <1>3. ASSUME NEW r \in Runs, Replay(r) \/ MutateSucceeds(r) PROVE RunMoves(s)
    <2>1. pc[r] # "ended" /\ StepSucceeds(r) /\ Applied(Plan(r))
      BY <1>3, SuccessIsApplied DEF Replay, MutateSucceeds, Bind
    <2> QED BY <1>0, <2>1, SucceedMoves DEF RunMoves
  <1>4. ASSUME NEW r \in Runs, Raises(r) PROVE RunMoves(s)
    BY <1>0, <1>4 DEF Raises, End, TypeOK, RunKept, RunRaised, RunMoves
  <1>5. CASE Crash
    BY <1>0, <1>5 DEF Crash, TypeOK, RunKept, RunRaised, RunMoves
  <1>6. CASE SourceStep \/ UNCHANGED vars
    BY <1>6 DEF SourceStep, SourceReplays, SourceRejects, SourceApplies, Deliver, runVars, vars,
                RunKept, RunMoves
  <1> QED BY <1>1, <1>2, <1>3, <1>4, <1>5, <1>6 DEF Next, RunStep

LEMMA RunNext ==
    ASSUME SagaInv, [Next]_vars, NEW r \in Runs
    PROVE  RunIsReal(r)'
  <1>0. TypeOK /\ TypeOK' /\ RunIsReal(r)
    BY TypeNext DEF SagaInv
  <1>1. /\ pos[r] \in 1..Len(StepsOf[r]) /\ undo[r] \in Nat /\ undo[r] < pos[r]
        /\ Len(StepsOf[r]) \in Nat /\ pos'[r] \in 1..Len(StepsOf[r])
    BY <1>0, StepsTyped DEF TypeOK
  <1>2. \A j \in 1..Len(StepsOf[r]) :
          /\ Applied(Forward(StepsOf[r][j])) => Applied(Forward(StepsOf[r][j]))'
          /\ Applied(Backward(StepsOf[r][j])) => Applied(Backward(StepsOf[r][j]))'
    BY <1>0, StepsTyped, Targets, AppliedKept
  <1>3. RunMoves(r)
    BY MovesOfNext
  <1>4. \A j \in Completed(r)' : Applied(Forward(StepsOf[r][j]))'
    <2> SUFFICES ASSUME NEW j \in Completed(r)' PROVE Applied(Forward(StepsOf[r][j]))'
      BY DEF Completed
    <2>1. j \in 1..Len(StepsOf[r])
      BY <1>1 DEF Completed
    <2>2. j \in Completed(r) \/ Applied(Forward(StepsOf[r][j]))
      BY <1>1, <1>3, <2>1 DEF Completed, RunMoves, RunKept, RunRaised, RunFailed, RunAdvanced,
                              RunRewound
    <2>3. Applied(Forward(StepsOf[r][j]))
      BY <1>0, <2>2 DEF RunIsReal
    <2> QED BY <1>2, <2>1, <2>3
  <1>5. ASSUME undo'[r] > 0 \/ outcome'[r] = "compensated",
               NEW j \in (undo'[r] + 1)..(pos'[r] - 1)
        PROVE  Applied(Backward(StepsOf[r][j]))'
    <2>1. j \in 1..Len(StepsOf[r])
      <3>1. undo'[r] \in Nat
        BY <1>0 DEF TypeOK
      <3> QED BY <1>1, <3>1
    <2>2. \/ Applied(Backward(StepsOf[r][j]))
          \/ (undo[r] > 0 \/ outcome[r] = "compensated") /\ j \in (undo[r] + 1)..(pos[r] - 1)
      BY <1>1, <1>3, <1>5, <2>1 DEF RunMoves, RunKept, RunRaised, RunFailed, RunAdvanced,
                                    RunRewound
    <2>3. Applied(Backward(StepsOf[r][j]))
      BY <1>0, <2>2 DEF RunIsReal
    <2> QED BY <1>2, <2>1, <2>3
  <1> QED BY <1>4, <1>5 DEF RunIsReal

-----------------------------------------------------------------------------
(* Replies, the table, and compensations on their way *)

LEMMA OutcomeNext == SagaInv /\ [Next]_vars => OutcomeAtEnd'
  <1> SUFFICES ASSUME SagaInv, [Next]_vars PROVE OutcomeAtEnd'
    OBVIOUS
  <1>0. TypeOK /\ OutcomeAtEnd
    BY DEF SagaInv
  <1>1. ASSUME NEW r \in Runs, StepSucceeds(r) \/ StepFails(r), pc[r] # "ended"
        PROVE  OutcomeAtEnd'
    BY <1>0, <1>1 DEF StepSucceeds, StepFails, Advance, Rewind, StartUndo, End, Goto, TypeOK,
                      OutcomeAtEnd
  <1>2. ASSUME NEW r \in Runs, Start(r) \/ PreviewAllowed(r) \/ Dispatch(r) PROVE OutcomeAtEnd'
    BY <1>0, <1>2 DEF Start, PreviewAllowed, Dispatch, Goto, TypeOK, OutcomeAtEnd
  <1>3. ASSUME NEW r \in Runs, Raises(r) PROVE OutcomeAtEnd'
    BY <1>0, <1>3 DEF Raises, End, Goto, TypeOK, OutcomeAtEnd
  <1>4. CASE Crash
    BY <1>0, <1>4 DEF Crash, OutcomeAtEnd
  <1>5. CASE SourceStep \/ UNCHANGED vars
    BY <1>0, <1>5 DEF SourceStep, SourceReplays, SourceRejects, SourceApplies, Deliver, runVars,
                      vars, OutcomeAtEnd
  <1>6. ASSUME NEW r \in Runs,
               Refused(r) \/ Conflict(r) \/ Replay(r) \/ MutateSucceeds(r) \/ MutateFails(r)
        PROVE  OutcomeAtEnd'
    BY <1>1, <1>6 DEF Refused, Conflict, Replay, MutateSucceeds, Bind, MutateFails
  <1> QED BY <1>2, <1>3, <1>4, <1>5, <1>6 DEF Next, RunStep

(* The plan of a run that awaits the source does not change. *)
LEMMA PlanKept ==
    ASSUME NEW r \in Runs, pos'[r] = pos[r], undo'[r] = undo[r]
    PROVE  Plan(r)' = Plan(r)
  BY DEF Plan

LEMMA AnswerIsReal ==
    ASSUME SagaInv, DistinctIds, NEW m \in wire,
           \/ SourceReplays(m) /\ source[SlotOf(m.plan)].met
                /\ IdOf[source[SlotOf(m.plan)].action] = IdOf[m.plan.action]
           \/ SourceApplies(m, TRUE)
    PROVE  Applied(m.plan)'
  <1>1. m.plan \in Plans /\ SlotOf(m.plan) \in Slots /\ m.plan.action \in Actions
    BY SlotTyped DEF SagaInv, TypeOK
  <1>2. CASE SourceApplies(m, TRUE)
    BY <1>1, <1>2 DEF SourceApplies, Applied, SagaInv, TypeOK
  <1>3. CASE SourceReplays(m) /\ source[SlotOf(m.plan)].met
                /\ IdOf[source[SlotOf(m.plan)].action] = IdOf[m.plan.action]
    <2> DEFINE entry == source[SlotOf(m.plan)]
    <2>1. entry.action \in Actions /\ entry = [action |-> entry.action, met |-> TRUE]
      BY <1>1, <1>3 DEF SourceReplays, SagaInv, TypeOK
    <2>2. KeyOf[entry.action] = KeyOf[m.plan.action]
      BY <1>1, <2>1, NoneAssumption DEF SagaInv, SourceBound, SlotOf
    <2>3. entry.action = m.plan.action
      BY <1>1, <1>3, <2>1, <2>2 DEF DistinctIds
    <2> QED BY <1>3, <2>1, <2>3 DEF SourceReplays, Applied
  <1> QED BY <1>2, <1>3

LEMMA SourceBoundNext == SagaInv /\ [Next]_vars => SourceBound'
  <1> SUFFICES ASSUME SagaInv, [Next]_vars, NEW s \in Slots, source'[s].action # None
               PROVE  KeyOf[source'[s].action] = s[1]
    BY DEF SourceBound
  <1>1. CASE source[s].action # None
    BY <1>1, SourceKept DEF SagaInv, SourceBound
  <1>2. CASE source[s].action = None
    <2>1. PICK m \in wire : \E met \in BOOLEAN : SourceApplies(m, met)
      BY <1>2 DEF Next, Start, RunStep, PreviewAllowed, Refused, Raises, Conflict, Replay,
         Dispatch, MutateSucceeds, Bind, MutateFails, Crash, SourceStep, SourceReplays,
         SourceRejects, vars
    <2>2. s = SlotOf(m.plan) /\ source'[s].action = m.plan.action
      BY <1>2, <2>1 DEF SourceApplies, SagaInv, TypeOK
    <2> QED BY <2>2 DEF SlotOf
  <1> QED BY <1>1, <1>2

LEMMA RepliesNext == SagaInv /\ DistinctIds /\ [Next]_vars => RepliesAreReal'
  <1> SUFFICES ASSUME SagaInv, DistinctIds, [Next]_vars, NEW r \in Runs, reply'[r] = "met"
               PROVE  pc'[r] = "mutating" /\ Applied(Plan(r))'
    BY DEF RepliesAreReal
  <1>0. TypeOK
    BY DEF SagaInv
  <1>1. CASE reply[r] = "met" /\ pc'[r] = pc[r] /\ pos'[r] = pos[r] /\ undo'[r] = undo[r]
    <2>1. pc[r] = "mutating" /\ Applied(Plan(r)) /\ Plan(r) \in Plans
      BY <1>0, <1>1, PlanTyped DEF SagaInv, RepliesAreReal
    <2>2. Plan(r)' = Plan(r)
      BY <1>1, PlanKept
    <2>3. PICK p \in Plans : p = Plan(r)
      BY <2>1
    <2>4. Applied(p)'
      BY <1>0, <2>1, <2>3, AppliedKept
    <2> QED BY <1>1, <2>1, <2>2, <2>3, <2>4 DEF Applied
  <1>2. ASSUME NEW m \in wire, NEW answer \in Replies, Deliver(m, answer),
               answer = "met" => Applied(m.plan)'
        PROVE  pc'[r] = "mutating" /\ Applied(Plan(r))'
    <2>1. pc' = pc /\ pos' = pos /\ undo' = undo
      BY <1>2 DEF Deliver, runVars
    <2>2. CASE reply'[r] = reply[r]
      BY <1>1, <2>1, <2>2
    <2>3. CASE reply'[r] # reply[r]
      <3>1. m.run = r /\ pc[r] = "mutating" /\ Plan(r) = m.plan /\ answer = "met"
        BY <1>0, <1>2, <2>3 DEF Deliver, TypeOK
      <3>2. Plan(r)' = Plan(r)
        BY <2>1, PlanKept
      <3> QED BY <1>2, <2>1, <3>1, <3>2 DEF Applied
    <2> QED BY <2>2, <2>3
  <1>3. ASSUME NEW m \in wire, SourceReplays(m) PROVE pc'[r] = "mutating" /\ Applied(Plan(r))'
    <2> DEFINE entry == source[SlotOf(m.plan)]
               answer == IF IdOf[entry.action] # IdOf[m.plan.action] THEN "rejected"
                         ELSE IF entry.met THEN "met" ELSE "unmet"
    <2>1. Deliver(m, answer) /\ answer \in Replies
      BY <1>3 DEF SourceReplays, Replies
    <2>2. answer = "met" => Applied(m.plan)'
      BY <1>3, AnswerIsReal
    <2> QED BY <1>2, <2>1, <2>2
  <1>4. ASSUME NEW m \in wire, SourceRejects(m) PROVE pc'[r] = "mutating" /\ Applied(Plan(r))'
    BY <1>2, <1>4 DEF SourceRejects, Replies
  <1>5. ASSUME NEW m \in wire, NEW met \in BOOLEAN, SourceApplies(m, met)
        PROVE  pc'[r] = "mutating" /\ Applied(Plan(r))'
    <2>1. CASE met
      BY <1>2, <1>5, <2>1, AnswerIsReal DEF SourceApplies, Replies
    <2>2. CASE ~ met
      BY <1>2, <1>5, <2>2 DEF SourceApplies, Replies
    <2> QED BY <2>1, <2>2
  <1>6. ASSUME NEW s \in Runs,
               \/ Start(s) \/ PreviewAllowed(s) \/ Dispatch(s)
               \/ Refused(s) \/ Conflict(s) \/ Replay(s)
        PROVE  pc'[r] = "mutating" /\ Applied(Plan(r))'
    <2>1. reply' = reply /\ pc[s] # "mutating" /\ pc[r] = "mutating"
      BY <1>6 DEF Start, PreviewAllowed, Dispatch, Refused, Conflict, Replay, SagaInv,
                  RepliesAreReal
    <2>2. pc'[r] = pc[r] /\ pos'[r] = pos[r] /\ undo'[r] = undo[r]
      BY <1>0, <1>6, <2>1 DEF Start, PreviewAllowed, Dispatch, Refused, Conflict, Replay,
         StepSucceeds, StepFails, Advance, Rewind, StartUndo, End, Goto, TypeOK
    <2> QED BY <1>1, <2>1, <2>2
  <1>7. ASSUME NEW s \in Runs, Raises(s) \/ MutateSucceeds(s) \/ MutateFails(s)
        PROVE  pc'[r] = "mutating" /\ Applied(Plan(r))'
    <2>1. reply' = [reply EXCEPT ![s] = "none"]
      BY <1>7 DEF Raises, MutateSucceeds, Bind, MutateFails
    <2>2. r # s /\ reply[r] = "met"
      BY <1>0, <2>1 DEF TypeOK
    <2>3. pc'[r] = pc[r] /\ pos'[r] = pos[r] /\ undo'[r] = undo[r]
      BY <1>0, <1>7, <2>2 DEF Raises, MutateSucceeds, Bind, MutateFails,
         StepSucceeds, StepFails, Advance, Rewind, StartUndo, End, Goto, TypeOK
    <2> QED BY <1>1, <2>2, <2>3
  <1>8. ~ Crash
    BY DEF Crash
  <1>9. CASE UNCHANGED vars
    BY <1>1, <1>9 DEF vars
  <1> QED BY <1>3, <1>4, <1>5, <1>6, <1>7, <1>8, <1>9 DEF Next, RunStep, SourceStep

LEMMA TableNext == SagaInv /\ [Next]_vars => TableIsReal'
  <1> SUFFICES ASSUME SagaInv, [Next]_vars PROVE TableIsReal'
    OBVIOUS
  <1>0. TypeOK /\ TypeOK'
    BY TypeNext DEF SagaInv
  <1>1. ASSUME NEW s \in Slots, NEW p \in Plans, idempotency'[s] = p.action, p.undo = s[2]
        PROVE  Applied(p)'
    <2>1. CASE idempotency'[s] = idempotency[s]
      <3>1. p = [action |-> idempotency[s], undo |-> s[2]] /\ idempotency[s] # None
        BY <1>1, <2>1, NoneAssumption DEF Plans
      <3>2. Applied(p)
        BY <3>1 DEF SagaInv, TableIsReal
      <3> QED BY <1>0, <3>2, AppliedKept
    <2>2. CASE idempotency'[s] # idempotency[s] /\ ~ Crash
      <3>1. PICK r \in Runs : MutateSucceeds(r)
        BY <2>2 DEF Next, Start, RunStep, PreviewAllowed, Refused, Raises, Conflict, Replay,
           Dispatch, MutateFails, SourceStep, SourceReplays, SourceRejects, SourceApplies,
           Deliver, vars
      <3>2. s = Slot(r) /\ idempotency'[s] = Plan(r).action /\ Plan(r) \in Plans
        BY <1>0, <2>2, <3>1, PlanTyped DEF MutateSucceeds, Bind, TypeOK
      <3>3. p = Plan(r)
        BY <1>1, <3>2 DEF Plans, Slot, SlotOf
      <3>4. Applied(p)
        BY <3>1, <3>3, SuccessIsApplied
      <3> QED BY <1>0, <3>4, AppliedKept
    <2>3. CASE Crash
      BY <1>1, <2>3, NoneAssumption DEF Crash, Plans
    <2> QED BY <2>1, <2>2, <2>3
  <1>2. ASSUME NEW s \in Slots, idempotency'[s] # None
        PROVE  source'[SlotOf([action |-> idempotency'[s], undo |-> s[2]])]
                 = [action |-> idempotency'[s], met |-> TRUE]
    <2>1. PICK p \in Plans : p = [action |-> idempotency'[s], undo |-> s[2]]
      BY <1>0, <1>2 DEF TypeOK, Plans, Slots
    <2>2. Applied(p)'
      BY <1>1, <2>1
    <2> QED BY <2>1, <2>2 DEF Applied
  <1> QED BY <1>2 DEF TableIsReal, Applied

LEMMA UndoNext == SagaInv /\ [Next]_vars => NoUndoWithoutEffect'
  <1> SUFFICES ASSUME SagaInv, [Next]_vars PROVE NoUndoWithoutEffect'
    OBVIOUS
  <1>0. TypeOK /\ TypeOK'
    BY TypeNext DEF SagaInv
  <1>1. ASSUME NEW m \in wire', m.plan.undo PROVE Applied(Forward(m.plan.action))'
    <2>1. CASE m \in wire
      <3>1. m.plan.action \in Actions /\ Applied(Forward(m.plan.action))
        BY <1>0, <1>1, <2>1, SlotTyped DEF SagaInv, NoUndoWithoutEffect, TypeOK
      <3> QED BY <1>0, <3>1, Targets, AppliedKept
    <2>2. CASE m \notin wire
      <3>1. PICK r \in Runs : Dispatch(r)
        BY <1>1, <2>2 DEF Next, Start, RunStep, PreviewAllowed, Refused, Raises, Conflict,
           Replay, MutateSucceeds, Bind, MutateFails, Crash, SourceStep, SourceReplays,
           SourceRejects, SourceApplies, Deliver, vars
      <3>2. m.plan = Plan(r) /\ pc[r] = "authorizing"
        BY <1>1, <2>2, <3>1 DEF Dispatch
      <3>3. /\ undo[r] # 0 /\ m.plan.action = StepsOf[r][undo[r]]
            /\ undo[r] \in 1..(pos[r] - 1) /\ undo[r] \in 1..Len(StepsOf[r])
        BY <1>0, <1>1, <3>2, StepsTyped DEF Plan, Forward, Backward, TypeOK
      <3>4. undo[r] \in Completed(r)
        BY <3>2, <3>3 DEF Completed, SagaInv, OutcomeAtEnd
      <3>5. m.plan.action \in Actions /\ Applied(Forward(m.plan.action))
        BY <3>3, <3>4, StepsTyped DEF SagaInv, RunIsReal
      <3> QED BY <1>0, <3>5, Targets, AppliedKept
    <2> QED BY <2>1, <2>2
  <1>2. ASSUME NEW k \in Keys, source'[<<k, TRUE>>].action # None
        PROVE  source'[<<k, FALSE>>] = [action |-> source'[<<k, TRUE>>].action, met |-> TRUE]
    <2>0. <<k, TRUE>> \in Slots /\ <<k, FALSE>> \in Slots
      BY DEF Slots
    <2>1. CASE source[<<k, TRUE>>].action # None
      <3>1. source[<<k, FALSE>>] = [action |-> source[<<k, TRUE>>].action, met |-> TRUE]
        BY <2>1 DEF SagaInv, NoUndoWithoutEffect
      <3>2. source'[<<k, TRUE>>] = source[<<k, TRUE>>]
        BY <1>0, <2>0, <2>1, SourceKept
      <3>3. source'[<<k, FALSE>>] = source[<<k, FALSE>>]
        BY <1>0, <2>0, <2>1, <3>1, SourceKept
      <3> QED BY <3>1, <3>2, <3>3
    <2>2. CASE source[<<k, TRUE>>].action = None
      <3>1. PICK m \in wire : \E met \in BOOLEAN : SourceApplies(m, met)
        BY <1>2, <2>2 DEF Next, Start, RunStep, PreviewAllowed, Refused, Raises, Conflict,
           Replay, Dispatch, MutateSucceeds, Bind, MutateFails, Crash, SourceStep,
           SourceReplays, SourceRejects, vars
      <3>2. m.plan \in Plans
        BY <1>0 DEF TypeOK
      <3>3. <<k, TRUE>> = SlotOf(m.plan) /\ source'[<<k, TRUE>>].action = m.plan.action
        <4>1. \A s \in Slots : s # SlotOf(m.plan) => source'[s] = source[s]
          BY <1>0, <3>1 DEF SourceApplies, TypeOK
        <4>2. source'[SlotOf(m.plan)].action = m.plan.action
          <5>1. SlotOf(m.plan) \in Slots
            BY <3>2, SlotTyped
          <5> QED BY <1>0, <3>1, <5>1 DEF SourceApplies, TypeOK
        <4>3. source'[<<k, TRUE>>] # source[<<k, TRUE>>]
          BY <1>2, <2>2
        <4>4. <<k, TRUE>> = SlotOf(m.plan)
          BY <2>0, <4>1, <4>3
        <4> QED BY <4>2, <4>4
      <3>4. m.plan.undo /\ KeyOf[m.plan.action] = k
        BY <3>3 DEF SlotOf
      <3>5. Applied(Forward(m.plan.action))
        BY <3>4 DEF SagaInv, NoUndoWithoutEffect
      <3>6. Applied(Forward(m.plan.action))'
        BY <1>0, <3>2, <3>5, SlotTyped, Targets, AppliedKept
      <3> QED BY <3>3, <3>4, <3>6 DEF Applied, Forward, SlotOf
    <2> QED BY <2>1, <2>2
  <1> QED BY <1>1, <1>2 DEF NoUndoWithoutEffect

-----------------------------------------------------------------------------
(* The theorems *)

LEMMA SagaInit == Init => SagaInv
  <1> SUFFICES ASSUME Init PROVE SagaInv
    OBVIOUS
  <1>1. TypeOK
    BY TypeInit
  <1>2. OutcomeAtEnd /\ RepliesAreReal /\ TableIsReal /\ SourceBound
    BY DEF Init, OutcomeAtEnd, RepliesAreReal, TableIsReal, SourceBound
  <1>3. \A r \in Runs : RunIsReal(r)
    <2>1. ASSUME NEW r \in Runs PROVE RunIsReal(r)
      <3>1. pos[r] = 1 /\ undo[r] = 0 /\ outcome[r] = "none"
        BY DEF Init
      <3>2. Completed(r) = {} /\ ~ (undo[r] > 0 \/ outcome[r] = "compensated")
        BY <3>1 DEF Completed
      <3> QED BY <3>2 DEF RunIsReal
    <2> QED BY <2>1
  <1>4. NoUndoWithoutEffect
    BY DEF Init, NoUndoWithoutEffect, Slots
  <1> QED BY <1>1, <1>2, <1>3, <1>4 DEF SagaInv

LEMMA SagaNext == SagaInv /\ DistinctIds /\ [Next]_vars => SagaInv'
  <1> SUFFICES ASSUME SagaInv, DistinctIds, [Next]_vars PROVE SagaInv'
    OBVIOUS
  <1>1. TypeOK'
    BY TypeNext DEF SagaInv
  <1>2. \A r \in Runs : RunIsReal(r)'
    BY RunNext
  <1> QED BY <1>1, <1>2, OutcomeNext, RepliesNext, TableNext, SourceBoundNext, UndoNext
          DEF SagaInv

LEMMA SagaHolds ==
    ASSUME DistinctIds
    PROVE  Spec => []SagaInv
  BY SagaInit, SagaNext, PTL DEF Spec

(* When the source can tell plans under one key apart, every receipt a run  *)
(* collects and every entry of the gateway's table stands for a mutation    *)
(* the source applied and confirmed, across restarts and concurrent runs.   *)
THEOREM ReceiptsAreRealHolds ==
    ASSUME DistinctIds
    PROVE  Spec => []ReceiptsAreReal
  <1>1. SagaInv => ReceiptsAreReal
    BY DEF SagaInv, RunIsReal, TableIsReal, ReceiptsAreReal
  <1> QED BY <1>1, SagaHolds, PTL

(* Compensation goes backwards and never passes over a step that is not     *)
(* undone: a run that ends as compensated has undone all its steps.         *)
THEOREM UndoneInReverseHolds ==
    ASSUME DistinctIds
    PROVE  Spec => []UndoneInReverse
  <1>1. SagaInv => UndoneInReverse
    BY DEF SagaInv, RunIsReal, UndoneInReverse
  <1> QED BY <1>1, SagaHolds, PTL

(* A compensation is sent, and applied, only where its own forward effect   *)
(* is at the source.                                                        *)
THEOREM NoUndoWithoutEffectHolds ==
    ASSUME DistinctIds
    PROVE  Spec => []NoUndoWithoutEffect
  <1>1. SagaInv => NoUndoWithoutEffect
    BY DEF SagaInv
  <1> QED BY <1>1, SagaHolds, PTL

-----------------------------------------------------------------------------
(* The end of a run *)

\* The steps and compensations a run can still have after the present one.
StepsAfter(r) == IF undo[r] = 0 THEN 2 * Len(StepsOf[r]) - pos[r] - 1 ELSE undo[r] - 1

\* The awaits of the present step; the start of the run counts as one.
AwaitsAt(point) ==
    CASE point = "idle" -> 4 [] point = "previewing" -> 3
      [] point = "authorizing" -> 2 [] point = "mutating" -> 1

\* The awaits a run can still have, three for each step.
AwaitsLeft(r) == IF pc[r] = "ended" THEN 0 ELSE 3 * StepsAfter(r) + AwaitsAt(pc[r])

(* No step of run() is taken up again, forward or backward: whatever fails, *)
(* and whatever the other runs, a crash or the source do, what moves a run  *)
(* brings it closer to its end, so no run dispatches without bound.         *)
RunsWindDown ==
    [][\A r \in Runs : \/ AwaitsLeft(r)' < AwaitsLeft(r)
                       \/ UNCHANGED <<pc[r], pos[r], undo[r], outcome[r]>>]_vars

LEMMA AwaitsAtPoint ==
    /\ \A p \in Points \ {"ended"} : AwaitsAt(p) \in 1..4
    /\ AwaitsAt("idle") = 4 /\ AwaitsAt("previewing") = 3
    /\ AwaitsAt("authorizing") = 2 /\ AwaitsAt("mutating") = 1
  BY DEF AwaitsAt, Points

LEMMA AwaitsTyped ==
    ASSUME TypeOK, NEW r \in Runs
    PROVE  /\ StepsAfter(r) \in Nat /\ AwaitsLeft(r) \in Nat
           /\ pc[r] # "ended" => AwaitsLeft(r) > 0
  <1>1. /\ pos[r] \in Nat /\ undo[r] \in Nat /\ Len(StepsOf[r]) \in Nat
        /\ undo[r] < pos[r] /\ pos[r] <= Len(StepsOf[r]) /\ pos[r] >= 1
    BY StepsTyped DEF TypeOK
  <1>2. StepsAfter(r) \in Nat
    BY <1>1 DEF StepsAfter
  <1>3. pc[r] # "ended" => AwaitsAt(pc[r]) \in 1..4
    BY AwaitsAtPoint DEF TypeOK
  <1> QED BY <1>2, <1>3 DEF AwaitsLeft

\* A step that ends leaves less to do, whichever way it ends.
LEMMA StepEnds ==
    ASSUME TypeOK, NEW r \in Runs, pc[r] \in Active, StepSucceeds(r) \/ StepFails(r)
    PROVE  AwaitsLeft(r)' < AwaitsLeft(r)
  <1> DEFINE n == Len(StepsOf[r])
             here == StepsAfter(r)
             next == StepsAfter(r)'
  <1>1. /\ pos[r] \in Nat /\ undo[r] \in Nat /\ n \in Nat
        /\ undo[r] < pos[r] /\ pos[r] <= n /\ pos[r] >= 1
        /\ here \in Nat /\ AwaitsLeft(r) \in Nat /\ AwaitsLeft(r) > 0
    BY StepsTyped, AwaitsTyped DEF TypeOK, Active
  <1>2. CASE pc'[r] = "ended"
    <2>1. AwaitsLeft(r)' = 0
      BY <1>2 DEF AwaitsLeft
    <2> QED BY <1>1, <2>1
  <1>3. CASE pc'[r] # "ended"
    <2>1. /\ pc'[r] = "previewing"
          /\ \/ undo[r] = 0 /\ undo'[r] = 0 /\ pos'[r] = pos[r] + 1 /\ pos[r] < n
             \/ undo[r] = 0 /\ undo'[r] = pos[r] - 1 /\ pos[r] # 1
             \/ undo[r] > 1 /\ undo'[r] = undo[r] - 1
      BY <1>1, <1>3 DEF StepSucceeds, StepFails, Advance, Rewind, StartUndo, End, Goto, TypeOK
    <2>2. next \in Nat /\ next + 1 <= here
      <3>1. /\ here = IF undo[r] = 0 THEN 2 * n - pos[r] - 1 ELSE undo[r] - 1
            /\ next = IF undo'[r] = 0 THEN 2 * n - pos'[r] - 1 ELSE undo'[r] - 1
        BY DEF StepsAfter
      <3> HIDE DEF here, next, n
      <3>2. CASE undo[r] = 0 /\ undo'[r] = 0 /\ pos'[r] = pos[r] + 1 /\ pos[r] < n
        <4>1. here = 2 * n - pos[r] - 1 /\ next = 2 * n - (pos[r] + 1) - 1
          BY <3>1, <3>2
        <4> QED BY <1>1, <3>2, <4>1
      <3>3. CASE undo[r] = 0 /\ undo'[r] = pos[r] - 1 /\ pos[r] # 1
        <4>1. here = 2 * n - pos[r] - 1 /\ next = pos[r] - 1 - 1 /\ pos[r] >= 2
          BY <1>1, <3>1, <3>3
        <4> QED BY <1>1, <4>1
      <3>4. CASE undo[r] > 1 /\ undo'[r] = undo[r] - 1
        <4>1. here = undo[r] - 1 /\ next = undo[r] - 1 - 1
          BY <1>1, <3>1, <3>4
        <4> QED BY <1>1, <3>4, <4>1
      <3> QED BY <2>1, <3>2, <3>3, <3>4
    <2> HIDE DEF here, next
    <2>3. AwaitsLeft(r)' = 3 * next + 3
      <3>1. AwaitsAt(pc'[r]) = 3
        BY <2>1, AwaitsAtPoint
      <3> QED BY <1>3, <3>1 DEF AwaitsLeft, next
    <2>4. PICK k \in 1..4 : AwaitsLeft(r) = 3 * here + k
      <3>1. pc[r] # "ended" /\ AwaitsAt(pc[r]) \in 1..4
        BY AwaitsAtPoint DEF Active, Points
      <3> QED BY <3>1 DEF AwaitsLeft, here
    <2> QED BY <1>1, <2>2, <2>3, <2>4
  <1> QED BY <1>2, <1>3

\* Within a step, each answer awaited is one fewer.
LEMMA AwaitEnds ==
    ASSUME TypeOK, NEW r \in Runs, Start(r) \/ PreviewAllowed(r) \/ Dispatch(r)
    PROVE  AwaitsLeft(r)' < AwaitsLeft(r)
  <1>1. StepsAfter(r) \in Nat /\ StepsAfter(r)' = StepsAfter(r)
    BY AwaitsTyped DEF Start, PreviewAllowed, Dispatch, StepsAfter
  <1>2. \/ pc[r] = "idle" /\ pc'[r] = "previewing"
        \/ pc[r] = "previewing" /\ pc'[r] = "authorizing"
        \/ pc[r] = "authorizing" /\ pc'[r] = "mutating"
    BY DEF Start, PreviewAllowed, Dispatch, Goto, TypeOK
  <1>3. AwaitsAt(pc'[r]) + 1 = AwaitsAt(pc[r]) /\ AwaitsAt(pc'[r]) \in 1..4
    BY <1>2, AwaitsAtPoint
  <1>4. /\ AwaitsLeft(r) = 3 * StepsAfter(r) + AwaitsAt(pc[r])
        /\ AwaitsLeft(r)' = 3 * StepsAfter(r) + AwaitsAt(pc'[r])
    BY <1>1, <1>2 DEF AwaitsLeft
  <1> QED BY <1>1, <1>3, <1>4

\* What a step of the coordinator leaves of a run: less to do, or its place.
WoundDown(r) ==
    \/ AwaitsLeft(r)' < AwaitsLeft(r)
    \/ UNCHANGED <<pc[r], pos[r], undo[r], outcome[r]>>

LEMMA OthersStay ==
    ASSUME TypeOK, NEW r \in Runs,
           StepSucceeds(r) \/ StepFails(r) \/ (End(r, "raised") /\ UNCHANGED <<pos, undo>>),
           NEW s \in Runs, s # r
    PROVE  WoundDown(s)
  <1>1. pc'[s] = pc[s] /\ outcome'[s] = outcome[s] /\ pos'[s] = pos[s] /\ undo'[s] = undo[s]
    BY DEF StepSucceeds, StepFails, Advance, Rewind, StartUndo, End, Goto, TypeOK
  <1> QED BY <1>1 DEF WoundDown

LEMMA RunGoesOn ==
    ASSUME TypeOK, [Next]_vars, NEW s \in Runs
    PROVE  WoundDown(s)
  <1>1. ASSUME NEW r \in Runs, Start(r) \/ PreviewAllowed(r) \/ Dispatch(r) PROVE WoundDown(s)
    <2>1. CASE s = r
      BY <1>1, <2>1, AwaitEnds DEF WoundDown
    <2>2. CASE s # r
      <3>1. pc'[s] = pc[s] /\ UNCHANGED <<pos, undo, outcome>>
        BY <1>1, <2>2 DEF Start, PreviewAllowed, Dispatch, Goto, TypeOK
      <3> QED BY <3>1 DEF WoundDown
    <2> QED BY <2>1, <2>2
  <1>2. ASSUME NEW r \in Runs,
               Refused(r) \/ Conflict(r) \/ MutateFails(r) \/ Replay(r) \/ MutateSucceeds(r)
        PROVE  WoundDown(s)
    <2>1. pc[r] \in Active /\ (StepSucceeds(r) \/ StepFails(r))
      BY <1>2 DEF Refused, Conflict, MutateFails, Replay, MutateSucceeds, Bind, Active
    <2> QED BY <2>1, StepEnds, OthersStay DEF WoundDown
  <1>3. ASSUME NEW r \in Runs, Raises(r) PROVE WoundDown(s)
    <2>1. CASE s = r
      <3>1. pc[r] # "ended" /\ AwaitsLeft(r)' = 0
        BY <1>3 DEF Raises, End, Goto, TypeOK, AwaitsLeft
      <3> QED BY <2>1, <3>1, AwaitsTyped DEF WoundDown
    <2>2. CASE s # r
      BY <1>3, <2>2, OthersStay DEF Raises
    <2> QED BY <2>1, <2>2
  <1>4. CASE Crash
    <2>1. CASE pc[s] \in {"idle", "ended"}
      <3>1. pc'[s] = pc[s] /\ outcome'[s] = outcome[s] /\ UNCHANGED <<pos, undo>>
        BY <1>4, <2>1 DEF Crash
      <3> QED BY <3>1 DEF WoundDown
    <2>2. CASE pc[s] \notin {"idle", "ended"}
      <3>1. pc[s] # "ended" /\ AwaitsLeft(s)' = 0
        BY <1>4, <2>2 DEF Crash, AwaitsLeft
      <3> QED BY <3>1, AwaitsTyped DEF WoundDown
    <2> QED BY <2>1, <2>2
  <1>5. CASE SourceStep \/ UNCHANGED vars
    BY <1>5 DEF SourceStep, SourceReplays, SourceRejects, SourceApplies, Deliver, runVars, vars,
                WoundDown
  <1> QED BY <1>1, <1>2, <1>3, <1>4, <1>5 DEF Next, RunStep

(* For any number of runs and steps, all that moves a run brings it closer  *)
(* to its end: a failed compensation is not tried again, a compensated step *)
(* not executed again, and no crash or late answer sends a run back.  It is *)
(* the measure that RunsEnd counts down.                                    *)
THEOREM RunsWindDownHolds == Spec => RunsWindDown
  <1>1. TypeOK /\ [Next]_vars => \A r \in Runs : WoundDown(r)
    BY RunGoesOn
  <1>2. TypeOK /\ [Next]_vars =>
            [\A r \in Runs : \/ AwaitsLeft(r)' < AwaitsLeft(r)
                             \/ UNCHANGED <<pc[r], pos[r], undo[r], outcome[r]>>]_vars
    BY <1>1 DEF WoundDown
  <1> QED BY <1>2, TypeCorrect, PTL DEF Spec, RunsWindDown

(* Hence a run has at most three awaits for each of its steps and for each  *)
(* compensation but that of the last one, which is never compensated.       *)
THEOREM RunsAreBounded ==
    Spec => [](\A r \in Runs : AwaitsLeft(r) \in 0..6 * Len(StepsOf[r]) - 2)
  <1>1. ASSUME TypeOK, NEW r \in Runs
        PROVE  AwaitsLeft(r) \in 0..6 * Len(StepsOf[r]) - 2
    <2> DEFINE n == Len(StepsOf[r])
               here == StepsAfter(r)
    <2>1. /\ pos[r] \in Nat /\ undo[r] \in Nat /\ n \in Nat
          /\ undo[r] < pos[r] /\ pos[r] <= n /\ pos[r] >= 1
      BY <1>1, StepsTyped DEF TypeOK
    <2>2. here \in Nat /\ here <= 2 * n - 2
      BY <2>1 DEF StepsAfter
    <2>3. pc[r] # "ended" => AwaitsAt(pc[r]) \in 1..4
      BY <1>1, AwaitsAtPoint DEF TypeOK
    <2>4. AwaitsLeft(r) = IF pc[r] = "ended" THEN 0 ELSE 3 * here + AwaitsAt(pc[r])
      BY DEF AwaitsLeft
    <2> HIDE DEF here, n
    <2>5. AwaitsLeft(r) \in 0..6 * n - 2
      BY <2>1, <2>2, <2>3, <2>4
    <2> QED BY <2>5 DEF n
  <1>2. TypeOK => \A r \in Runs : AwaitsLeft(r) \in 0..6 * Len(StepsOf[r]) - 2
    BY <1>1
  <1> QED BY <1>2, TypeCorrect, PTL
=============================================================================
