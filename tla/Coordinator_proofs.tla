------------------------- MODULE Coordinator_proofs -------------------------
(***************************************************************************)
(* Proofs about ReadGateway and the Coordinator over it, and that the      *)
(* Coordinator implements CoveragePromise, for any number of reads,        *)
(* connectors, slots, runs and publications.                               *)
(*                                                                         *)
(* The arguments: the reads inside a connector and its free slots make up  *)
(* max_parallelism.  A read enters with a slot, moves on inside with it,   *)
(* and every way out is Leave or Interrupt, which free the slots of exactly*)
(* the reads that they end, or Answer, which frees its own.                *)
(*                                                                         *)
(* A step of a plan is a task of its own, so a step of the gateway ends at *)
(* most one read of one run; a read that has ended does not move, so the   *)
(* fate of a source, once settled, stays; and a statement is made, and     *)
(* read, only when all reads of its run have ended.                        *)
(***************************************************************************)
EXTENDS Coordinator, Listing_proofs

Holding(c) == Holders(Reads, c)

SlotInv ==
    /\ pc \in [Reads -> Points] /\ slots \in [Connectors -> Nat]
    /\ SlotsConserved

TotalInv ==
    /\ rows \in [Reads -> Nat] /\ bytes \in [Reads -> Nat]
    /\ passed \in [Reads -> Nat] /\ carried \in [Reads -> Nat]

\* What a query has let pass is what it has counted, or less.
LimitInv ==
    /\ \A r \in Reads : Kind(r) = "query" =>
          passed[r] = rows[r] /\ carried[r] <= bytes[r]
    /\ ConsumerWithinLimits

-----------------------------------------------------------------------------
(* Slots *)

LEMMA HoldersFinite ==
    ASSUME NEW c \in Connectors, NEW S \in SUBSET Reads
    PROVE  IsFiniteSet(Holders(S, c)) /\ Cardinality(Holders(S, c)) \in Nat
  <1>1. Holders(S, c) \subseteq Reads
    BY DEF Holders
  <1>2. IsFiniteSet(Holders(S, c))
    BY <1>1, ReadsAssumption, FS_Subset
  <1> QED BY <1>2, FS_CardinalityType

LEMMA ParallelismType ==
    \A c \in Connectors : MaxParallelism[c] \in Nat \ {0}
  BY ConnectorsAssumption DEF ValidLimits

\* Reads that end, in whatever way, give back the slots that they hold, and no others.
LEMMA LeaveFrees ==
    ASSUME SlotInv, NEW S \in SUBSET Reads, NEW value, Leave(S, value)
    PROVE  SlotInv'
  <1>1. /\ pc' = [r \in Reads |-> IF r \in S THEN "ended" ELSE pc[r]]
        /\ slots' = [c \in Connectors |-> slots[c] + Cardinality(Holders(S, c))]
    BY DEF Leave
  <1>2. pc' \in [Reads -> Points]
    BY <1>1 DEF SlotInv, Points
  <1>3. ASSUME NEW c \in Connectors
        PROVE  /\ slots'[c] \in Nat
               /\ slots'[c] + Cardinality(Holding(c)') = MaxParallelism[c]
    <2>1. /\ IsFiniteSet(Holding(c)) /\ Cardinality(Holding(c)) \in Nat
          /\ IsFiniteSet(Holders(S, c)) /\ Cardinality(Holders(S, c)) \in Nat
      BY HoldersFinite DEF Holding
    <2>2. Holding(c)' = Holding(c) \ Holders(S, c)
      BY <1>1 DEF Holding, Holders, InSlot
    <2>3. Holding(c) \cap Holders(S, c) = Holders(S, c)
      BY DEF Holding, Holders
    <2>4. Cardinality(Holding(c) \ Holders(S, c))
             = Cardinality(Holding(c)) - Cardinality(Holders(S, c))
      BY <2>1, <2>3, FS_Difference
    <2>5. slots[c] \in Nat /\ slots[c] + Cardinality(Holding(c)) = MaxParallelism[c]
      BY DEF SlotInv, SlotsConserved, Holding
    <2> QED BY <1>1, <2>1, <2>2, <2>4, <2>5, ParallelismType
  <1>4. slots' \in [Connectors -> Nat]
    BY <1>1, <1>3
  <1> QED BY <1>2, <1>3, <1>4 DEF SlotInv, SlotsConserved, Holding

\* A task that is cancelled gives back the slots of what it awaits, and keeps those of
\* the streams that it leaves suspended.
LEMMA InterruptFrees ==
    ASSUME SlotInv, NEW r \in Reads, Interrupt(r)
    PROVE  SlotInv'
  <1> DEFINE S == {s \in Task(r) : Active(s)}
             A == {s \in S : pc[s] # "holding"}
  <1>1. /\ pc' = [s \in Reads |-> IF s \in A THEN "ended"
                                 ELSE IF s \in S THEN "abandoned" ELSE pc[s]]
        /\ slots' = [c \in Connectors |-> slots[c] + Cardinality(Holders(A, c))]
    BY DEF Interrupt
  <1>2. A \subseteq Reads /\ \A s \in S \ A : pc[s] = "holding"
    BY DEF Task
  <1> HIDE DEF A, S
  <1>3. pc' \in [Reads -> Points]
    BY <1>1 DEF SlotInv, Points, InSlot
  <1>4. ASSUME NEW c \in Connectors
        PROVE  /\ slots'[c] \in Nat
               /\ slots'[c] + Cardinality(Holding(c)') = MaxParallelism[c]
    <2>1. /\ IsFiniteSet(Holding(c)) /\ Cardinality(Holding(c)) \in Nat
          /\ IsFiniteSet(Holders(A, c)) /\ Cardinality(Holders(A, c)) \in Nat
      BY <1>2, HoldersFinite DEF Holding
    <2>2. Holding(c)' = Holding(c) \ Holders(A, c)
      BY <1>1, <1>2 DEF Holding, Holders, InSlot
    <2>3. Holding(c) \cap Holders(A, c) = Holders(A, c)
      BY <1>2 DEF Holding, Holders
    <2>4. Cardinality(Holding(c) \ Holders(A, c))
             = Cardinality(Holding(c)) - Cardinality(Holders(A, c))
      BY <2>1, <2>3, FS_Difference
    <2>5. slots[c] \in Nat /\ slots[c] + Cardinality(Holding(c)) = MaxParallelism[c]
      BY DEF SlotInv, SlotsConserved, Holding
    <2> QED BY <1>1, <2>1, <2>2, <2>4, <2>5, ParallelismType
  <1>5. slots' \in [Connectors -> Nat]
    BY <1>1, <1>4
  <1> QED BY <1>3, <1>4, <1>5 DEF SlotInv, SlotsConserved, Holding

\* A read that moves on, inside its connector or outside, changes no slot.
LEMMA MoveKeeps ==
    ASSUME SlotInv, NEW r \in Reads, NEW point \in Points, Goto(r, point), slots' = slots,
           \/ pc[r] \in InSlot /\ point \in InSlot
           \/ pc[r] \notin InSlot /\ point \notin InSlot
    PROVE  SlotInv'
  <1>1. pc' = [pc EXCEPT ![r] = point] /\ pc' \in [Reads -> Points]
    BY DEF Goto, SlotInv
  <1>2. \A c \in Connectors : Holding(c)' = Holding(c)
    BY <1>1 DEF Holding, Holders, SlotInv
  <1> QED BY <1>1, <1>2 DEF SlotInv, SlotsConserved, Holding

LEMMA EnterKeeps ==
    ASSUME SlotInv, NEW r \in Reads, Enter(r)
    PROVE  SlotInv'
  <1> DEFINE d == Source(r)
  <1>1. /\ pc[r] = "queued" /\ pc' = [pc EXCEPT ![r] = "pulling"]
        /\ slots[d] > 0 /\ slots' = [slots EXCEPT ![d] = @ - 1]
    BY DEF Enter, Goto
  <1>2. pc' \in [Reads -> Points]
    BY <1>1 DEF SlotInv, Points, InSlot
  <1>3. ASSUME NEW c \in Connectors
        PROVE  /\ slots'[c] \in Nat
               /\ slots'[c] + Cardinality(Holding(c)') = MaxParallelism[c]
    <2>1. IsFiniteSet(Holding(c)) /\ Cardinality(Holding(c)) \in Nat
      BY HoldersFinite DEF Holding
    <2>2. slots[c] \in Nat /\ slots[c] + Cardinality(Holding(c)) = MaxParallelism[c]
      BY DEF SlotInv, SlotsConserved, Holding
    <2>3. CASE c = d
      <3>1. r \notin Holding(c) /\ Holding(c)' = Holding(c) \cup {r}
        BY <1>1, <2>3 DEF Holding, Holders, InSlot, SlotInv
      <3>2. Cardinality(Holding(c)') = Cardinality(Holding(c)) + 1
        BY <3>1, <2>1, FS_AddElement
      <3>3. slots'[c] = slots[c] - 1 /\ slots[c] > 0
        BY <1>1, <2>3 DEF SlotInv
      <3> QED BY <2>1, <2>2, <3>2, <3>3, ParallelismType
    <2>4. CASE c # d
      <3>1. Holding(c)' = Holding(c)
        BY <1>1, <2>4 DEF Holding, Holders, InSlot, SlotInv
      <3> QED BY <1>1, <2>2, <2>4, <3>1 DEF SlotInv
    <2> QED BY <2>3, <2>4
  <1>4. slots' \in [Connectors -> Nat]
    BY <1>1, <1>3 DEF SlotInv
  <1> QED BY <1>2, <1>3, <1>4 DEF SlotInv, SlotsConserved, Holding

\* A search that has its hits frees its slot; one whose hits are refused ends.
LEMMA AnswerKeeps ==
    ASSUME SlotInv, NEW r \in Reads, Answer(r)
    PROVE  SlotInv'
  <1> DEFINE d == Source(r)
  <1>1. CASE End(r, "failed")
    BY <1>1, LeaveFrees DEF End
  <1>2. CASE /\ pc[r] = "pulling" /\ Goto(r, "reporting")
             /\ slots' = [slots EXCEPT ![d] = @ + 1]
    <2>1. pc' = [pc EXCEPT ![r] = "reporting"] /\ pc' \in [Reads -> Points]
      BY <1>2 DEF Goto, SlotInv, Points, InSlot
    <2>2. ASSUME NEW c \in Connectors
          PROVE  /\ slots'[c] \in Nat
                 /\ slots'[c] + Cardinality(Holding(c)') = MaxParallelism[c]
      <3>1. IsFiniteSet(Holding(c)) /\ Cardinality(Holding(c)) \in Nat
        BY HoldersFinite DEF Holding
      <3>2. slots[c] \in Nat /\ slots[c] + Cardinality(Holding(c)) = MaxParallelism[c]
        BY DEF SlotInv, SlotsConserved, Holding
      <3>3. CASE c = d
        <4>1. r \in Holding(c) /\ Holding(c)' = Holding(c) \ {r}
          BY <1>2, <2>1, <3>3 DEF Holding, Holders, InSlot, SlotInv
        <4>2. Cardinality(Holding(c)') = Cardinality(Holding(c)) - 1
          BY <4>1, <3>1, FS_RemoveElement
        <4>3. slots'[c] = slots[c] + 1
          BY <1>2, <3>3 DEF SlotInv
        <4> QED BY <3>1, <3>2, <4>2, <4>3, ParallelismType
      <3>4. CASE c # d
        <4>1. Holding(c)' = Holding(c)
          BY <2>1, <3>4 DEF Holding, Holders, InSlot, SlotInv
        <4> QED BY <1>2, <3>2, <3>4, <4>1 DEF SlotInv
      <3> QED BY <3>3, <3>4
    <2>3. slots' \in [Connectors -> Nat]
      BY <1>2, <2>2 DEF SlotInv
    <2> QED BY <2>1, <2>2, <2>3 DEF SlotInv, SlotsConserved, Holding
  <1> QED BY <1>1, <1>2 DEF Answer

LEMMA AdmitKeeps ==
    ASSUME SlotInv, NEW r \in Reads, Admit(r)
    PROVE  SlotInv'
  <1>1. pc[r] \notin InSlot /\ slots' = slots
    BY DEF Admit, InSlot
  <1>2. CASE Goto(r, "listing")
    <2>1. "listing" \in Points /\ "listing" \notin InSlot
      BY DEF Points, InSlot
    <2> QED BY <1>1, <1>2, <2>1, MoveKeeps
  <1>3. CASE Goto(r, "queued")
    <2>1. "queued" \in Points /\ "queued" \notin InSlot
      BY DEF Points, InSlot
    <2> QED BY <1>1, <1>3, <2>1, MoveKeeps
  <1> QED BY <1>2, <1>3 DEF Admit

LEMMA PullKeeps ==
    ASSUME SlotInv, NEW r \in Reads, Pull(r)
    PROVE  SlotInv'
  <1>1. CASE End(r, "failed")
    BY <1>1, LeaveFrees DEF End
  <1>2. CASE pc[r] = "pulling" /\ Goto(r, "emitting") /\ slots' = slots
    <2>1. "emitting" \in Points /\ "emitting" \in InSlot /\ "pulling" \in InSlot
      BY DEF Points, InSlot
    <2> QED BY <1>2, <2>1, MoveKeeps
  <1> QED BY <1>1, <1>2 DEF Pull

LEMMA StepKeepsSlots ==
    ASSUME SlotInv, NEW r \in Reads, Step(r)
    PROVE  SlotInv'
  <1>1. CASE Refuse(r)
    BY <1>1, LeaveFrees DEF Refuse, End
  <1>2. CASE Authorize(r)
    <2>1. "authorizing" \in Points /\ "authorizing" \notin InSlot /\ "idle" \notin InSlot
      BY DEF Points, InSlot
    <2> QED BY <1>2, <2>1, MoveKeeps DEF Authorize, Call
  <1>3. CASE Reject(r)
    BY <1>3, LeaveFrees DEF Reject, End
  <1>4. CASE Admit(r)
    BY <1>4, AdmitKeeps
  <1>5. CASE Enter(r)
    BY <1>5, EnterKeeps
  <1>6. CASE Pull(r)
    BY <1>6, PullKeeps
  <1>7. CASE Emit(r)
    <2>1. {"emitting", "pulling", "holding"} \subseteq Points \cap InSlot
      BY DEF Points, InSlot
    <2> QED BY <1>7, <2>1, MoveKeeps DEF Emit
  <1>8. CASE Exhausted(r)
    BY <1>8, LeaveFrees DEF Exhausted, End
  <1>9. CASE Fail(r)
    BY <1>9, LeaveFrees DEF Fail, End
  <1>10. CASE Resume(r)
    <2>1. "pulling" \in Points /\ {"pulling", "holding"} \subseteq InSlot
      BY DEF Points, InSlot
    <2> QED BY <1>10, <2>1, MoveKeeps DEF Resume, ConsumerReady
  <1>11. CASE Close(r)
    BY <1>11, LeaveFrees DEF Close, End
  <1>12. CASE Answer(r)
    BY <1>12, AnswerKeeps
  <1>13. CASE List(r)
    <2>1. "reporting" \in Points /\ "reporting" \notin InSlot /\ "listing" \notin InSlot
      BY DEF Points, InSlot
    <2> QED BY <1>13, <2>1, MoveKeeps DEF List
  <1>14. CASE Report(r)
    BY <1>14, LeaveFrees DEF Report, End
  <1>15. CASE Expire(r)
    BY <1>15, LeaveFrees, InterruptFrees DEF Expire, End
  <1>16. CASE Cancel(r)
    BY <1>16, InterruptFrees DEF Cancel
  <1>17. CASE Collect(r)
    BY <1>17, LeaveFrees DEF Collect, End
  <1> QED BY <1>1, <1>2, <1>3, <1>4, <1>5, <1>6, <1>7, <1>8, <1>9, <1>10, <1>11, <1>12,
             <1>13, <1>14, <1>15, <1>16, <1>17 DEF Step

LEMMA NoOneHolds ==
    ASSUME Init
    PROVE  SlotInv
  <1>1. /\ pc = [r \in Reads |-> "idle"] /\ slots = [c \in Connectors |-> MaxParallelism[c]]
    BY DEF Init, Semaphore
  <1>2. \A c \in Connectors : Holding(c) = {}
    BY <1>1 DEF Holding, Holders, InSlot
  <1> QED BY <1>1, <1>2, ParallelismType, FS_EmptySet
          DEF SlotInv, SlotsConserved, Holding, Points

-----------------------------------------------------------------------------
(* Limits *)

LEMMA SourceType ==
    \A r \in Reads : Source(r) \in Connectors
  BY ReadsAssumption DEF QueryRequests, SearchRequests, Discoveries, Source

LEMMA LimitTypes ==
    \A r \in Reads : Request[r].limit \in Nat /\ MaxResultBytes[Source(r)] \in Nat
  BY ReadsAssumption, ConnectorsAssumption, SourceType
     DEF QueryRequests, SearchRequests, Discoveries, ValidLimits

\* A batch that is accepted adds whole numbers to the sums, and measures no less
\* than its payload.
LEMMA BatchCounts ==
    ASSUME NEW b \in Batches, BatchBuilt(b)
    PROVE  /\ BatchRows(b) \in Nat /\ BatchBytes(b) \in Nat
           /\ b.size \in Nat /\ b.size <= BatchBytes(b)
  <1>1. /\ b.rows \in Nat /\ b.size \in Nat
        /\ b.rowCount \in Int \cup {None} /\ b.byteCount \in Int \cup {None}
    BY OffersAssumption
  <1>2. OrZero(b.rowCount) >= 0 /\ OrZero(b.byteCount) >= 0
    BY DEF BatchBuilt
  <1>3. OrZero(b.rowCount) \in Nat /\ OrZero(b.byteCount) \in Nat
    BY <1>1, <1>2 DEF OrZero
  <1> QED BY <1>1, <1>3 DEF BatchRows, BatchBytes, Larger

SumInv == TotalInv /\ LimitInv

LEMMA ForgetSums ==
    ASSUME SumInv, NEW S \in SUBSET Reads, Forget(S)
    PROVE  SumInv'
  <1>1. /\ rows' = [r \in Reads |-> IF r \in S THEN 0 ELSE rows[r]]
        /\ bytes' = [r \in Reads |-> IF r \in S THEN 0 ELSE bytes[r]]
        /\ passed' = [r \in Reads |-> IF r \in S THEN 0 ELSE passed[r]]
        /\ carried' = [r \in Reads |-> IF r \in S THEN 0 ELSE carried[r]]
    BY DEF Forget
  <1>2. TotalInv'
    BY <1>1 DEF SumInv, TotalInv
  <1>3. ASSUME NEW r \in Reads
        PROVE  /\ Kind(r) = "query" => passed'[r] = rows'[r] /\ carried'[r] <= bytes'[r]
               /\ passed'[r] <= Request[r].limit
               /\ carried'[r] <= MaxResultBytes[Source(r)]
    <2>1. CASE r \in S
      <3>1. rows'[r] = 0 /\ bytes'[r] = 0 /\ passed'[r] = 0 /\ carried'[r] = 0
        BY <1>1, <2>1
      <3> QED BY <3>1, LimitTypes
    <2>2. CASE r \notin S
      <3>1. /\ rows'[r] = rows[r] /\ bytes'[r] = bytes[r]
            /\ passed'[r] = passed[r] /\ carried'[r] = carried[r]
        BY <1>1, <2>2
      <3> QED BY <3>1 DEF SumInv, LimitInv, ConsumerWithinLimits
    <2> QED BY <2>1, <2>2
  <1>4. LimitInv'
    BY <1>3 DEF LimitInv, ConsumerWithinLimits
  <1> QED BY <1>2, <1>4 DEF SumInv

\* A batch that is accepted leaves the sums of rows and of bytes within the limits.
LEMMA PullSums ==
    ASSUME SumInv, NEW r \in Reads, Pull(r)
    PROVE  SumInv'
  <1>1. CASE End(r, "failed")
    BY <1>1, ForgetSums DEF End, Leave
  <1>2. CASE \E b \in Batches : BatchAccepted(r, b) /\ Count(r, b)
    <2>1. PICK b \in Batches : BatchAccepted(r, b) /\ Count(r, b)
      BY <1>2
    <2>2. /\ BatchRows(b) \in Nat /\ BatchBytes(b) \in Nat
          /\ b.size \in Nat /\ b.size <= BatchBytes(b)
      BY <2>1, BatchCounts DEF BatchAccepted
    <2>3. /\ rows' = [rows EXCEPT ![r] = rows[r] + BatchRows(b)]
          /\ bytes' = [bytes EXCEPT ![r] = bytes[r] + BatchBytes(b)]
          /\ passed' = [passed EXCEPT ![r] = passed[r] + BatchRows(b)]
          /\ carried' = [carried EXCEPT ![r] = carried[r] + b.size]
      BY <2>1 DEF Count
    <2>4. TotalInv'
      BY <2>2, <2>3 DEF SumInv, TotalInv
    <2>5. /\ rows[r] + BatchRows(b) <= Request[r].limit
          /\ bytes[r] + BatchBytes(b) <= MaxResultBytes[Source(r)]
      BY <2>1 DEF BatchAccepted
    <2>6. \A q \in Reads :
             /\ rows'[q] = IF q = r THEN rows[r] + BatchRows(b) ELSE rows[q]
             /\ bytes'[q] = IF q = r THEN bytes[r] + BatchBytes(b) ELSE bytes[q]
             /\ passed'[q] = IF q = r THEN passed[r] + BatchRows(b) ELSE passed[q]
             /\ carried'[q] = IF q = r THEN carried[r] + b.size ELSE carried[q]
      BY <2>3 DEF SumInv, TotalInv
    <2>7. passed[r] = rows[r] /\ carried[r] <= bytes[r]
      BY DEF Pull, SumInv, LimitInv
    <2>8. {rows[r], bytes[r], passed[r], carried[r]} \subseteq Nat
      BY DEF SumInv, TotalInv
    <2>9. carried[r] + b.size <= bytes[r] + BatchBytes(b)
      BY <2>2, <2>7, <2>8
    <2>10. carried[r] + b.size <= MaxResultBytes[Source(r)]
      BY <2>2, <2>5, <2>8, <2>9, LimitTypes
    <2>11. LimitInv'
      BY <2>5, <2>6, <2>7, <2>9, <2>10 DEF SumInv, LimitInv, ConsumerWithinLimits
    <2> QED BY <2>4, <2>11 DEF SumInv
  <1> QED BY <1>1, <1>2 DEF Pull

LEMMA AnswerSums ==
    ASSUME SumInv, NEW r \in Reads, Answer(r)
    PROVE  SumInv'
  <1>1. CASE End(r, "failed")
    BY <1>1, ForgetSums DEF End, Leave
  <1>2. CASE \E hits \in HitLists : /\ HitsAccepted(r, hits) /\ UNCHANGED <<rows, bytes>>
                                   /\ passed' = [passed EXCEPT ![r] = Len(hits)]
                                   /\ carried' = [carried EXCEPT ![r] = TotalSize(hits)]
    <2>1. PICK hits \in HitLists :
                 /\ Len(hits) <= Request[r].limit /\ UNCHANGED <<rows, bytes>>
                 /\ TotalSize(hits) <= MaxResultBytes[Source(r)]
                 /\ passed' = [passed EXCEPT ![r] = Len(hits)]
                 /\ carried' = [carried EXCEPT ![r] = TotalSize(hits)]
      BY <1>2 DEF HitsAccepted
    <2>2. Len(hits) \in Nat /\ TotalSize(hits) \in Nat
      BY OffersAssumption
    <2>3. TotalInv'
      BY <2>1, <2>2 DEF SumInv, TotalInv
    <2>4. \A q \in Reads : /\ passed'[q] = IF q = r THEN Len(hits) ELSE passed[q]
                          /\ carried'[q] = IF q = r THEN TotalSize(hits) ELSE carried[q]
      BY <2>1 DEF SumInv, TotalInv
    <2>5. Kind(r) # "query"
      BY DEF Answer
    <2>6. LimitInv'
      BY <2>1, <2>4, <2>5 DEF SumInv, LimitInv, ConsumerWithinLimits
    <2> QED BY <2>3, <2>6 DEF SumInv
  <1> QED BY <1>1, <1>2 DEF Answer

LEMMA SumsStay ==
    ASSUME SumInv, UNCHANGED totals
    PROVE  SumInv'
  BY DEF SumInv, TotalInv, LimitInv, ConsumerWithinLimits, totals

LEMMA StepKeepsSums ==
    ASSUME SumInv, NEW r \in Reads, Step(r)
    PROVE  SumInv'
  <1>1. CASE UNCHANGED totals
    BY <1>1, SumsStay
  <1>2. CASE \E value : End(r, value)
    BY <1>2, ForgetSums DEF End, Leave
  <1>3. CASE Pull(r)
    BY <1>3, PullSums
  <1>4. CASE Answer(r)
    BY <1>4, AnswerSums
  <1>5. CASE Interrupt(r)
    <2>1. {s \in Task(r) : Active(s)} \subseteq Reads
      BY DEF Task
    <2> QED BY <1>5, <2>1, ForgetSums DEF Interrupt
  <1> QED BY <1>1, <1>2, <1>3, <1>4, <1>5
          DEF Step, Refuse, Authorize, Reject, Admit, Enter, Emit, Exhausted, Fail, Resume,
              Close, List, Report, Expire, Cancel, Collect

LEMMA NothingPassed ==
    ASSUME Init
    PROVE  SumInv
  BY LimitTypes DEF Init, SumInv, TotalInv, LimitInv, ConsumerWithinLimits

-----------------------------------------------------------------------------
(* The composition: a coordinator's step is one of the gateway, or none. *)

ReadInv == SlotInv /\ SumInv

LEMMA CoordinatorKeeps ==
    ASSUME ReadInv, [CoordinatorNext]_all
    PROVE  ReadInv'
  <1>1. CASE \E r \in Reads : Read(r)
    BY <1>1, StepKeepsSlots, StepKeepsSums DEF Read, ReadInv
  <1>2. CASE UNCHANGED <<pc, slots, totals>>
    BY <1>2, SumsStay DEF ReadInv, SlotInv, SlotsConserved, Holders
  <1>3. CASE \E q \in Runs : CancelRun(q)
    <2>1. PICK q \in Runs : CancelRun(q)
      BY <1>3
    <2>2. Leave({r \in StepsOf[q] : pc[r] # "ended"}, "cancelled")
      BY <2>1 DEF CancelRun
    <2>3. {r \in StepsOf[q] : pc[r] # "ended"} \subseteq Reads
      BY RunsAssumption, ReadsAssumption
    <2> QED BY <2>2, <2>3, LeaveFrees, ForgetSums DEF ReadInv, Leave
  <1>4. ASSUME CoordinatorNext, ~ \E r \in Reads : Read(r), ~ \E q \in Runs : CancelRun(q)
        PROVE  UNCHANGED <<pc, slots, totals>>
    BY <1>4 DEF CoordinatorNext, RegisterConnector, Register, Dispatch, Reraise, Conclude, Publish,
                SDKStores, SDKFails, ADLCStores, ADLCFails, reads, vars
  <1>5. CASE UNCHANGED all
    BY <1>2, <1>5 DEF all, reads, vars
  <1> QED BY <1>1, <1>2, <1>3, <1>4, <1>5

LEMMA ReadInvHolds == CoordinatorSpec => []ReadInv
  <1>1. CoordinatorInit => ReadInv
    BY NoOneHolds, NothingPassed DEF CoordinatorInit, ReadInv
  <1>2. ReadInv /\ [CoordinatorNext]_all => ReadInv'
    BY CoordinatorKeeps
  <1> QED BY <1>1, <1>2, PTL DEF CoordinatorSpec

\* However reads of a coordinator and of other callers end, and whoever they wait for, no
\* slot of a connector is lost or given out twice (the async with of execute() and
\* search()).
THEOREM SlotsConservedHolds == CoordinatorSpec => []SlotsConserved
  <1>1. ReadInv => SlotsConserved
    BY DEF ReadInv, SlotInv
  <1> QED BY <1>1, ReadInvHolds, PTL

\* A consumer is never given more rows or hits than its request asks for, nor more bytes
\* of payload than its connector declares, over all its batches (the totals of
\* execute(), the checks of search()).
THEOREM ConsumerWithinLimitsHolds == CoordinatorSpec => []ConsumerWithinLimits
  <1>1. ReadInv => ConsumerWithinLimits
    BY DEF ReadInv, SumInv, LimitInv
  <1> QED BY <1>1, ReadInvHolds, PTL

-----------------------------------------------------------------------------
(* The promise of a coverage statement *)

Ended(q) == \A r \in StepsOf[q] : pc[r] = "ended"

RunInv ==
    /\ pc = [r \in Reads |-> pc[r]] /\ result = [r \in Reads |-> result[r]]
    /\ phase \in [Runs -> {"planned", "running", "stated", "raised"}]
    /\ coverage = [q \in Runs |-> coverage[q]]
    /\ \A q \in Runs : phase[q] \in {"stated", "raised"} => Ended(q)
    /\ \A q \in Runs : phase[q] # "stated" => coverage[q] = NoStatement

fates == [q \in Runs |-> [s \in ExpectedSources(q) |-> Fate(q, s)]]
statements == [q \in Runs |-> Statement(q)]

-----------------------------------------------------------------------------
(* Reads *)

\* No two steps of plans, and no step and another read, are in one task.
LEMMA StepsAreTasks ==
    ASSUME NEW r \in Reads, NEW q \in Runs, NEW x \in StepsOf[q], x \in Task(r)
    PROVE  x = r
  <1>1. Caller[x] = None /\ x \in Collected
    BY RunsAssumption
  <1>2. Root(x) = x /\ Root(r) = x
    BY <1>1 DEF Root, Task
  <1>3. Caller[r] = None
    BY <1>1, <1>2, CallerAssumption DEF Root
  <1> QED BY <1>2, <1>3 DEF Root

\* A step of the gateway leaves alone what is not in the task of its read, and what has
\* ended.
Untouched(x) == pc'[x] = pc[x] /\ result'[x] = result[x]

LEMMA LeaveTouchesOnly ==
    ASSUME RunInv, NEW S \in SUBSET Reads, NEW value, Leave(S, value)
    PROVE  /\ pc' = [r \in Reads |-> pc'[r]] /\ result' = [r \in Reads |-> result'[r]]
           /\ \A x \in Reads \ S : Untouched(x)
           /\ \A x \in S : pc'[x] = "ended"
  <1>1. /\ pc' = [r \in Reads |-> IF r \in S THEN "ended" ELSE pc[r]]
        /\ result' = [r \in Reads |-> IF r \in S THEN value ELSE result[r]]
    BY DEF Leave
  <1> QED BY <1>1 DEF Untouched

LEMMA GotoTouchesOnly ==
    ASSUME RunInv, NEW r \in Reads, NEW point, Goto(r, point), result' = result
    PROVE  /\ pc' = [x \in Reads |-> pc'[x]] /\ result' = [x \in Reads |-> result'[x]]
           /\ \A x \in Reads \ {r} : Untouched(x)
  <1>1. pc' = [pc EXCEPT ![r] = point]
    BY DEF Goto
  <1>2. DOMAIN pc = Reads
    BY DEF RunInv
  <1> QED BY <1>1, <1>2 DEF Untouched, RunInv

LEMMA StepTouchesItsTask ==
    ASSUME RunInv, NEW r \in Reads, Step(r)
    PROVE  /\ pc' = [x \in Reads |-> pc'[x]] /\ result' = [x \in Reads |-> result'[x]]
           /\ pc[r] # "ended"
           /\ \A x \in Reads : x \notin Task(r) \/ pc[x] = "ended" => Untouched(x)
  <1>1. r \in Task(r)
    BY DEF Task
  <1>2. pc[r] # "ended"
    BY DEF Step, Refuse, Call, Authorize, Reject, Admit, Enter, Pull, Emit, Exhausted, Fail, Resume,
           Close, ConsumerReady, Answer, List, Report, Expire, Cancel, Collect, Active
  <1>3. CASE \E point : Goto(r, point) /\ result' = result
    BY <1>1, <1>2, <1>3, GotoTouchesOnly
  <1>4. CASE \E value : End(r, value)
    BY <1>1, <1>2, <1>4, LeaveTouchesOnly DEF End
  <1>5. CASE Interrupt(r)
    <2> DEFINE S == {s \in Task(r) : Active(s)}
               A == {s \in S : pc[s] # "holding"}
    <2>1. /\ pc' = [s \in Reads |-> IF s \in A THEN "ended"
                                   ELSE IF s \in S THEN "abandoned" ELSE pc[s]]
          /\ result' = [s \in Reads |-> IF s \in S THEN "cancelled" ELSE result[s]]
      BY <1>5 DEF Interrupt
    <2>2. /\ A \subseteq S
          /\ \A x \in Reads : x \notin Task(r) \/ pc[x] = "ended" => x \notin S
      BY DEF Active
    <2> HIDE DEF S, A
    <2> QED BY <1>2, <2>1, <2>2 DEF Untouched
  <1>6. \/ \E point : Goto(r, point) /\ result' = result
        \/ \E value : End(r, value)
        \/ Interrupt(r)
    BY DEF Step, Refuse, Authorize, Reject, Admit, Enter, Pull, Emit, Exhausted, Fail, Resume,
           Close, Answer, List, Report, Expire, Cancel, Collect
  <1> QED BY <1>3, <1>4, <1>5, <1>6

-----------------------------------------------------------------------------
(* Fates *)

LEMMA FateType ==
    ASSUME NEW q, NEW s
    PROVE  Fate(q, s) \in {"pending", "covered", "excluded"}
  BY DEF Fate

\* A step of the gateway settles at most the source of its read, and only once.
LEMMA StepSettles ==
    ASSUME RunInv, NEW r \in Reads, Step(r), NEW q \in Runs, NEW s
    PROVE  /\ r \notin StepsOf[q] \/ Source(r) # s => Fate(q, s)' = Fate(q, s)
           /\ Fate(q, s) # "pending" => Fate(q, s)' = Fate(q, s)
  <1> DEFINE steps == {x \in StepsOf[q] : Source(x) = s}
  <1>1. steps \subseteq Reads
    BY RunsAssumption, ReadsAssumption
  <1>2. \A x \in steps : x # r \/ pc[x] = "ended" => pc'[x] = pc[x] /\ result'[x] = result[x]
    <2>1. \A x \in steps : x # r => x \notin Task(r)
      BY StepsAreTasks
    <2> QED BY <1>1, <2>1, StepTouchesItsTask DEF Untouched
  <1>3. pc[r] # "ended"
    BY StepTouchesItsTask
  <1>4. ASSUME r \notin StepsOf[q] \/ Source(r) # s
        PROVE  Fate(q, s)' = Fate(q, s)
    <2>1. \A x \in steps : pc'[x] = pc[x] /\ result'[x] = result[x]
      BY <1>2, <1>4
    <2> QED BY <2>1 DEF Fate, Source
  <1>5. ASSUME Fate(q, s) # "pending", r \in steps
        PROVE  Fate(q, s)' = Fate(q, s)
    <2>1. Fate(q, s) = "excluded"
      BY <1>3, <1>5 DEF Fate
    <2>2. PICK x \in steps : pc[x] = "ended" /\ result[x] # "returned"
      BY <2>1 DEF Fate
    <2>3. pc'[x] = "ended" /\ result'[x] # "returned"
      BY <1>2, <2>2
    <2>4. Fate(q, s)' = "excluded"
      BY <2>3 DEF Fate, Source
    <2> QED BY <2>1, <2>4
  <1> QED BY <1>4, <1>5

\* A step of a read of a run settles the source of that read, or nothing.
LEMMA ReadSettles ==
    ASSUME RunInv, NEW r \in Reads, Read(r)
    PROVE  [Promise!Next]_<<fates, statements>>
  <1>1. Step(r) /\ phase' = phase /\ coverage' = coverage
    BY DEF Read
  <1>2. statements' = statements
    BY <1>1 DEF statements, Statement
  <1>3. CASE \A q \in Runs : r \notin StepsOf[q]
    <2>1. \A q \in Runs : \A s \in ExpectedSources(q) : Fate(q, s)' = Fate(q, s)
      BY <1>1, <1>3, StepSettles
    <2>2. fates' = fates
      BY <2>1 DEF fates, ExpectedSources, Source
    <2> QED BY <1>2, <2>2
  <1>4. ASSUME NEW q \in Runs, r \in StepsOf[q]
        PROVE  [Promise!Next]_<<fates, statements>>
    <2> DEFINE s == Source(r)
    <2>1. \A p \in Runs \ {q} : r \notin StepsOf[p]
      BY <1>4, RunsAssumption
    <2>2. \A p \in Runs : \A z \in ExpectedSources(p) :
             p # q \/ z # s => Fate(p, z)' = Fate(p, z)
      BY <1>1, <2>1, StepSettles
    <2>3. s \in ExpectedSources(q)
      BY <1>4 DEF ExpectedSources
    <2>4. CASE Fate(q, s)' = Fate(q, s)
      <3>1. \A p \in Runs : \A z \in ExpectedSources(p) : Fate(p, z)' = Fate(p, z)
        BY <2>2, <2>4
      <3>2. fates' = fates
        BY <3>1 DEF fates, ExpectedSources, Source
      <3> QED BY <1>2, <3>2
    <2>5. CASE Fate(q, s)' # Fate(q, s)
      <3> DEFINE f == Fate(q, s)'
      <3>1. Fate(q, s) = "pending"
        BY <1>1, <2>5, StepSettles
      <3>2. f \in {"covered", "excluded"}
        BY <2>5, <3>1 DEF Fate
      <3>3. fates' = [fates EXCEPT ![q][s] = f]
        <4>1. fates' = [p \in Runs |-> [z \in ExpectedSources(p) |-> Fate(p, z)']]
          BY DEF fates, ExpectedSources, Source
        <4>2. \A p \in Runs : \A z \in ExpectedSources(p) :
                 Fate(p, z)' = IF p = q /\ z = s THEN f ELSE Fate(p, z)
          BY <2>2
        <4> HIDE DEF f, s
        <4> QED BY <2>3, <4>1, <4>2 DEF fates
      <3>4. fates[q][s] = "pending"
        BY <2>3, <3>1 DEF fates
      <3>5. Promise!Settle(q, s)
        BY <1>2, <3>2, <3>3, <3>4 DEF Promise!Settle, fates, statements
      <3> QED BY <2>3, <3>5 DEF Promise!Next
    <2> QED BY <2>4, <2>5
  <1> QED BY <1>3, <1>4

-----------------------------------------------------------------------------
(* Statements *)

LEMMA UnstatedWhileRunning ==
    ASSUME RunInv, NEW q \in Runs, phase[q] = "running"
    PROVE  statements[q] = Promise!Unstated
  <1>1. coverage[q] = NoStatement
    BY DEF RunInv
  <1> QED BY <1>1 DEF statements, Statement, NoStatement, Promise!Unstated, Promise!Says

\* When every step has ended, the sources included and excluded are those of each fate.
LEMMA GatheredFates ==
    ASSUME NEW q \in Runs, Gathered(q), NEW s
    PROVE  /\ s \in ExpectedSources(q) => Fate(q, s) # "pending"
           /\ s \in Included(q) <=> s \in ExpectedSources(q) /\ Fate(q, s) = "covered"
           /\ s \in Excluded(q) <=> s \in ExpectedSources(q) /\ Fate(q, s) = "excluded"
           /\ IsComplete(q, Included(q), Excluded(q))
                 <=> \A z \in ExpectedSources(q) : Fate(q, z) # "excluded"
  <1>1. \A r \in StepsOf[q] : pc[r] = "ended"
    BY DEF Gathered
  <1>2. ASSUME NEW z
        PROVE  /\ Fate(q, z) # "pending"
               /\ z \in Failures(q) <=> z \in ExpectedSources(q) /\ Fate(q, z) = "excluded"
               /\ z \in Included(q) <=> z \in ExpectedSources(q) /\ Fate(q, z) = "covered"
    <2>1. Fate(q, z) # "pending"
      BY <1>1 DEF Fate
    <2>2. Fate(q, z) = "excluded" <=> \E r \in StepsOf[q] : Source(r) = z /\ result[r] # "returned"
      BY <1>1 DEF Fate
    <2>3. z \in Failures(q) <=> \E r \in StepsOf[q] : Source(r) = z /\ result[r] # "returned"
      BY DEF Failures, Outcomes
    <2>4. z \in ExpectedSources(q) <=> \E r \in StepsOf[q] : Source(r) = z
      BY DEF ExpectedSources
    <2>5. z \in Completed(q) <=> \E r \in StepsOf[q] : Source(r) = z /\ result[r] = "returned"
      BY DEF Completed, Outcomes
    <2> QED BY <2>1, <2>2, <2>3, <2>4, <2>5, FateType DEF Included
  <1>3. Excluded(q) = Failures(q)
    BY DEF Excluded
  <1>4. \E z : z \in ExpectedSources(q)
    BY RunsAssumption DEF ExpectedSources
  <1>5. IsComplete(q, Included(q), Excluded(q))
           <=> \A z \in ExpectedSources(q) : Fate(q, z) # "excluded"
    <2>1. ASSUME \A z \in ExpectedSources(q) : Fate(q, z) # "excluded"
          PROVE  IsComplete(q, Included(q), Excluded(q))
      <3>1. Excluded(q) = {}
        BY <1>2, <1>3, <2>1
      <3>2. \A z : z \in Included(q) <=> z \in ExpectedSources(q)
        BY <1>2, <2>1, FateType
      <3>3. Included(q) = ExpectedSources(q)
        BY <3>2
      <3> QED BY <1>4, <3>1, <3>3 DEF IsComplete
    <2>2. ASSUME IsComplete(q, Included(q), Excluded(q))
          PROVE  \A z \in ExpectedSources(q) : Fate(q, z) # "excluded"
      BY <1>2, <1>3, <2>2 DEF IsComplete
    <2> QED BY <2>1, <2>2
  <1> QED BY <1>2, <1>3, <1>5

LEMMA ConcludeStates ==
    ASSUME RunInv, NEW q \in Runs, Conclude(q)
    PROVE  Promise!State(q)
  <1>1. /\ Gathered(q) /\ phase[q] = "running"
        /\ pc' = pc /\ result' = result
        /\ phase' = [phase EXCEPT ![q] = "stated"]
        /\ coverage' = [coverage EXCEPT ![q] =
               [included |-> Included(q), excluded |-> Excluded(q),
                complete |-> IsComplete(q, Included(q), Excluded(q))]]
    BY DEF Conclude, Gathered, Pass, reads, vars
  <1>2. fates' = fates
    BY <1>1 DEF fates, ExpectedSources, Source, Fate
  <1>3. statements[q] = Promise!Unstated
    BY <1>1, UnstatedWhileRunning
  <1> DEFINE Of(f) == {s \in ExpectedSources(q) : fates[q][s] = f}
  <1>4. \A s \in ExpectedSources(q) : fates[q][s] = Fate(q, s)
    BY DEF fates
  <1>5. Of("pending") = {} /\ Of("covered") = Included(q) /\ Of("excluded") = Excluded(q)
    BY <1>1, <1>4, GatheredFates
  <1>6. IsComplete(q, Included(q), Excluded(q)) <=> Of("excluded") = {}
    BY <1>1, <1>4, GatheredFates
  <1>7. statements' = [statements EXCEPT ![q] =
           [kind |-> IF Of("excluded") = {} THEN "complete" ELSE "partial",
            covered |-> Of("covered"), excluded |-> Of("excluded")]]
    <2>1. phase'[q] = "stated" /\ coverage'[q].included = Included(q)
          /\ coverage'[q].excluded = Excluded(q)
          /\ coverage'[q].complete = IsComplete(q, Included(q), Excluded(q))
      BY <1>1 DEF RunInv
    <2>2. \A p \in Runs \ {q} : phase'[p] = phase[p] /\ coverage'[p] = coverage[p]
      BY <1>1 DEF RunInv
    <2>3. \A p \in Runs \ {q} : Statement(p)' = Statement(p)
      BY <2>2, Zenon DEF Statement
    <2>4. Statement(q)' = [kind |-> IF Of("excluded") = {} THEN "complete" ELSE "partial",
                           covered |-> Included(q), excluded |-> Excluded(q)]
      BY <2>1, <1>6 DEF Statement
    <2> HIDE DEF Of
    <2> QED BY <2>3, <2>4, <1>5 DEF statements
  <1> QED BY <1>2, <1>3, <1>5, <1>7
          DEF Promise!State, Promise!With, Promise!Says, fates, statements

\* A run that ends without a statement.
LEMMA AbortsWithout ==
    ASSUME RunInv, NEW q \in Runs, phase[q] = "running",
           phase' = [phase EXCEPT ![q] = "raised"], coverage' = coverage
    PROVE  statements' = [statements EXCEPT ![q] = Promise!Aborted]
  <1>1. coverage[q] = NoStatement /\ phase'[q] = "raised"
    BY DEF RunInv
  <1>2. \A p \in Runs \ {q} : phase'[p] = phase[p] /\ coverage'[p] = coverage[p]
    BY DEF RunInv
  <1>3. \A p \in Runs \ {q} : Statement(p)' = Statement(p)
    BY <1>2, Zenon DEF Statement
  <1>4. Statement(q)' = Promise!Aborted
    BY <1>1 DEF Statement, NoStatement, Promise!Aborted, Promise!Says
  <1> QED BY <1>3, <1>4 DEF statements

\* Cancelling a run ends what is left of its steps, and of no other run's.
LEMMA CancelSettles ==
    ASSUME RunInv, NEW q \in Runs, CancelRun(q)
    PROVE  /\ \A p \in Runs \ {q} : \A s \in ExpectedSources(p) : Fate(p, s)' = Fate(p, s)
           /\ \A s \in ExpectedSources(q) : Fate(q, s) # "pending" => Fate(q, s)' = Fate(q, s)
  <1> DEFINE S == {r \in StepsOf[q] : pc[r] # "ended"}
  <1>1. S \in SUBSET Reads /\ Leave(S, "cancelled")
    BY RunsAssumption, ReadsAssumption DEF CancelRun
  <1>2. \A x \in Reads \ S : pc'[x] = pc[x] /\ result'[x] = result[x]
    BY <1>1, LeaveTouchesOnly DEF Untouched
  <1>3. ASSUME NEW p \in Runs \ {q}, NEW s \in ExpectedSources(p)
        PROVE  Fate(p, s)' = Fate(p, s)
    <2>1. \A x \in StepsOf[p] : x \in Reads \ S
      BY RunsAssumption, ReadsAssumption
    <2>2. \A x \in StepsOf[p] : pc'[x] = pc[x] /\ result'[x] = result[x]
      BY <1>2, <2>1
    <2> QED BY <2>2 DEF Fate, Source
  <1>4. ASSUME NEW s \in ExpectedSources(q), Fate(q, s) # "pending"
        PROVE  Fate(q, s)' = Fate(q, s)
    <2> DEFINE steps == {x \in StepsOf[q] : Source(x) = s}
    <2>1. steps \subseteq Reads
      BY RunsAssumption, ReadsAssumption
    <2>2. CASE Fate(q, s) = "covered"
      <3>1. \A x \in steps : pc[x] = "ended"
        BY <2>2 DEF Fate
      <3>2. \A x \in steps : pc'[x] = pc[x] /\ result'[x] = result[x]
        BY <1>2, <2>1, <3>1
      <3> QED BY <3>2 DEF Fate, Source
    <2>3. CASE Fate(q, s) = "excluded"
      <3>1. PICK x \in steps : pc[x] = "ended" /\ result[x] # "returned"
        BY <2>3 DEF Fate
      <3>2. pc'[x] = "ended" /\ result'[x] # "returned"
        BY <1>2, <2>1, <3>1
      <3>3. Fate(q, s)' = "excluded"
        BY <3>2 DEF Fate, Source
      <3> QED BY <2>3, <3>3
    <2> QED BY <1>4, <2>2, <2>3, FateType
  <1> QED BY <1>3, <1>4

\* A run that ends without a statement changes the fates of its own pending sources only.
LEMMA Aborts ==
    ASSUME RunInv, NEW q \in Runs, phase[q] = "running",
           phase' = [phase EXCEPT ![q] = "raised"], coverage' = coverage,
           \A p \in Runs \ {q} : \A s \in ExpectedSources(p) : Fate(p, s)' = Fate(p, s),
           \A s \in ExpectedSources(q) : Fate(q, s) # "pending" => Fate(q, s)' = Fate(q, s)
    PROVE  Promise!Abort(q)
  <1>1. statements[q] = Promise!Unstated
    BY UnstatedWhileRunning
  <1>2. statements' = [statements EXCEPT ![q] = Promise!Aborted]
    BY AbortsWithout
  <1> DEFINE f == [s \in ExpectedSources(q) |-> Fate(q, s)']
  <1>3. f \in [ExpectedSources(q) -> Promise!Fates]
    <2>1. \A s : Fate(q, s)' \in {"pending", "covered", "excluded"}
      BY DEF Fate
    <2> QED BY <2>1 DEF Promise!Fates
  <1>4. fates' = [fates EXCEPT ![q] = f]
    <2>1. fates' = [p \in Runs |-> [s \in ExpectedSources(p) |-> Fate(p, s)']]
      BY DEF fates, ExpectedSources, Source
    <2>2. \A p \in Runs \ {q} : [s \in ExpectedSources(p) |-> Fate(p, s)']
                                 = [s \in ExpectedSources(p) |-> Fate(p, s)]
      OBVIOUS
    <2> QED BY <2>1, <2>2 DEF fates
  <1>5. \A s \in ExpectedSources(q) : fates[q][s] = "pending" \/ f[s] = fates[q][s]
    BY DEF fates
  <1> HIDE DEF f
  <1> QED BY <1>1, <1>2, <1>3, <1>4, <1>5 DEF Promise!Abort, fates, statements

-----------------------------------------------------------------------------
(* Steps *)

\* No read of a run that has ended moves.
LEMMA EndedStays ==
    ASSUME RunInv, NEW r \in Reads, Read(r)
    PROVE  RunInv'
  <1>1. Step(r) /\ phase' = phase /\ coverage' = coverage
    BY DEF Read
  <1>2. /\ pc' = [x \in Reads |-> pc'[x]] /\ result' = [x \in Reads |-> result'[x]]
        /\ \A x \in Reads : pc[x] = "ended" => pc'[x] = "ended"
    BY <1>1, StepTouchesItsTask DEF Untouched
  <1>3. \A q \in Runs : Ended(q) => Ended(q)'
    BY <1>2, RunsAssumption, ReadsAssumption DEF Ended
  <1> QED BY <1>1, <1>2, <1>3 DEF RunInv

LEMMA CoordinatorKeepsRuns ==
    ASSUME RunInv, [CoordinatorNext]_all
    PROVE  RunInv'
  <1>1. CASE \E r \in Reads : Read(r)
    BY <1>1, EndedStays
  <1>2. CASE \E q \in Runs : Dispatch(q)
    BY <1>2 DEF Dispatch, Pass, reads, vars, RunInv, Ended
  <1>3. CASE \E q \in Runs : Reraise(q)
    BY <1>3 DEF Reraise, Gathered, Pass, reads, vars, RunInv, Ended
  <1>4. CASE \E q \in Runs : Conclude(q)
    BY <1>4 DEF Conclude, Gathered, Pass, reads, vars, RunInv, Ended
  <1>5. CASE \E q \in Runs : CancelRun(q)
    <2>1. PICK q \in Runs : CancelRun(q)
      BY <1>5
    <2> DEFINE S == {r \in StepsOf[q] : pc[r] # "ended"}
    <2>2. S \in SUBSET Reads /\ Leave(S, "cancelled") /\ phase[q] = "running"
          /\ phase' = [phase EXCEPT ![q] = "raised"] /\ coverage' = coverage
      BY <2>1, RunsAssumption, ReadsAssumption DEF CancelRun, Pass
    <2>3. /\ pc' = [x \in Reads |-> pc'[x]] /\ result' = [x \in Reads |-> result'[x]]
          /\ \A x \in Reads : pc[x] = "ended" \/ x \in S => pc'[x] = "ended"
      BY <2>2, LeaveTouchesOnly DEF Untouched
    <2>4. Ended(q)' /\ \A p \in Runs : Ended(p) => Ended(p)'
      BY <2>3, RunsAssumption, ReadsAssumption DEF Ended
    <2> QED BY <2>2, <2>3, <2>4 DEF RunInv
  <1>6. CASE UNCHANGED <<pc, result, phase, coverage>>
    BY <1>6 DEF RunInv, Ended
  <1> QED BY <1>1, <1>2, <1>3, <1>4, <1>5, <1>6
          DEF CoordinatorNext, RegisterConnector, Register, Publish, SDKStores, SDKFails,
              ADLCStores, ADLCFails, all, reads, vars

\* Every step of the coordinator is one of the promise, or none.
LEMMA CoordinatorSimulates ==
    ASSUME RunInv, [CoordinatorNext]_all
    PROVE  [Promise!Next]_<<fates, statements>>
  <1>1. CASE \E r \in Reads : Read(r)
    BY <1>1, ReadSettles
  <1>2. ASSUME NEW q \in Runs, Dispatch(q)
        PROVE  UNCHANGED <<fates, statements>>
    <2>1. /\ UNCHANGED <<pc, result, coverage>>
          /\ phase[q] = "planned" /\ phase' = [phase EXCEPT ![q] = "running"]
      BY <1>2 DEF Dispatch, Pass, reads, vars
    <2>2. fates' = fates
      BY <2>1 DEF fates, ExpectedSources, Source, Fate
    <2>3. \A p \in Runs \ {q} : phase'[p] = phase[p]
      BY <2>1 DEF RunInv
    <2>4. \A p \in Runs \ {q} : Statement(p)' = Statement(p)
      BY <2>1, <2>3, Zenon DEF Statement
    <2>5. phase'[q] = "running"
      BY <2>1 DEF RunInv
    <2>6. Statement(q)' = Statement(q)
      BY <2>1, <2>5 DEF Statement
    <2> QED BY <2>2, <2>4, <2>6 DEF statements
  <1>3. ASSUME NEW q \in Runs, Reraise(q)
        PROVE  Promise!Abort(q)
    <2>1. /\ UNCHANGED <<pc, result, coverage>>
          /\ phase[q] = "running" /\ phase' = [phase EXCEPT ![q] = "raised"]
      BY <1>3 DEF Reraise, Gathered, Pass, reads, vars
    <2>2. \A p, s : Fate(p, s)' = Fate(p, s)
      BY <2>1 DEF Fate, Source
    <2> QED BY <2>1, <2>2, Aborts
  <1>4. ASSUME NEW q \in Runs, CancelRun(q)
        PROVE  Promise!Abort(q)
    <2>1. /\ phase[q] = "running" /\ phase' = [phase EXCEPT ![q] = "raised"]
          /\ coverage' = coverage
      BY <1>4 DEF CancelRun, Pass
    <2> QED BY <1>4, <2>1, CancelSettles, Aborts
  <1>5. CASE UNCHANGED <<pc, result, phase, coverage>>
    <2>1. fates' = fates
      BY <1>5 DEF fates, ExpectedSources, Source, Fate
    <2>2. statements' = statements
      BY <1>5 DEF statements, Statement
    <2> QED BY <2>1, <2>2
  <1>6. \/ \E r \in Reads : Read(r)
        \/ \E q \in Runs : Dispatch(q) \/ Reraise(q) \/ Conclude(q) \/ CancelRun(q)
        \/ UNCHANGED <<pc, result, phase, coverage>>
    BY DEF CoordinatorNext, RegisterConnector, Register, Publish, SDKStores, SDKFails,
           ADLCStores, ADLCFails, all, reads, vars
  <1>7. ASSUME NEW q \in Runs, Dispatch(q) \/ Reraise(q) \/ Conclude(q) \/ CancelRun(q)
        PROVE  [Promise!Next]_<<fates, statements>>
    BY <1>2, <1>3, <1>4, <1>7, ConcludeStates DEF Promise!Next
  <1> QED BY <1>1, <1>5, <1>6, <1>7

LEMMA CoordinatorStarts ==
    ASSUME CoordinatorInit
    PROVE  RunInv /\ Promise!Init
  <1>1. /\ pc = [r \in Reads |-> "idle"] /\ result = [r \in Reads |-> "none"]
        /\ phase = [q \in Runs |-> "planned"] /\ coverage = [q \in Runs |-> NoStatement]
    BY DEF CoordinatorInit, Init
  <1>2. \A q \in Runs : \A s \in ExpectedSources(q) : Fate(q, s) = "pending"
    <2>1. \A q \in Runs : \A r \in StepsOf[q] : pc[r] = "idle"
      BY <1>1, RunsAssumption, ReadsAssumption
    <2> QED BY <2>1 DEF Fate, ExpectedSources
  <1>3. \A q \in Runs : Statement(q) = Promise!Unstated
    BY <1>1 DEF Statement, NoStatement, Promise!Unstated, Promise!Says
  <1> QED BY <1>1, <1>2, <1>3 DEF RunInv, Promise!Init

\* The coordinator implements the promise of coverage statements: in whatever order steps
\* end, are cancelled or raise, a statement is made when the fate of every expected source
\* is settled, names each as what it is and claims to be complete only when all are
\* covered (CrossSourceCoordinator.execute(), CoverageStatement).
THEOREM KeepsPromiseHolds == CoordinatorSpec => KeepsPromise
  <1>1. CoordinatorInit => RunInv /\ Promise!Init
    BY CoordinatorStarts
  <1>2. RunInv /\ [CoordinatorNext]_all => RunInv'
    BY CoordinatorKeepsRuns
  <1>3. RunInv /\ [CoordinatorNext]_all => [Promise!Next]_<<fates, statements>>
    BY CoordinatorSimulates
  <1> QED BY <1>1, <1>2, <1>3, PTL
          DEF CoordinatorSpec, KeepsPromise, Promise!Spec, fates, statements

-----------------------------------------------------------------------------
(* Evidence *)

Coverages == [included : SUBSET {Source(r) : r \in Reads},
              excluded : SUBSET {Source(r) : r \in Reads}, complete : BOOLEAN]
Stated(q) == q \in Runs /\ phase[q] = "stated"

\* A run that calls itself complete is.
TruthInv ==
    /\ coverage \in [Runs -> Coverages]
    /\ \A q \in Runs : phase[q] = "stated" /\ coverage[q].complete =>
          \A r \in StepsOf[q] : result[r] = "returned"

Taken(e) ==
    /\ Stated(e.evidence.request) /\ e.evidence = Evidence(e.evidence.request)
    /\ e.receipt \in 1..Len(sdk) /\ sdk[e.receipt] = e.evidence

\* A publication that has asked a sink is about a stated run; one that has its receipt
\* holds the receipt of what it is about.
BridgeInv ==
    /\ sdk \in Seq([request : Runs, coverage : Coverages])
    /\ stage = [p \in Publications |-> stage[p]] /\ about = [p \in Publications |-> about[p]]
    /\ receipt = [p \in Publications |-> receipt[p]]
    /\ \A p \in Publications : stage[p] \in {"sdk", "adlc"} => Stated(about[p])
    /\ \A p \in Publications : stage[p] = "adlc" =>
          receipt[p] \in 1..Len(sdk) /\ sdk[receipt[p]] = Evidence(about[p])
    /\ \A e \in adlc : Taken(e)

\* A statement, and the results it rests on, stay.
LEMMA StatementsStay ==
    ASSUME RunInv, [CoordinatorNext]_all, NEW q \in Runs, phase[q] = "stated"
    PROVE  /\ phase'[q] = "stated" /\ coverage'[q] = coverage[q]
           /\ \A r \in StepsOf[q] : result'[r] = result[r]
  <1>1. \A r \in StepsOf[q] : r \in Reads /\ pc[r] = "ended"
    BY RunsAssumption, ReadsAssumption DEF RunInv, Ended
  <1>2. CASE \E r \in Reads : Read(r)
    <2>1. PICK r \in Reads : Step(r) /\ phase' = phase /\ coverage' = coverage
      BY <1>2 DEF Read
    <2> QED BY <1>1, <2>1, StepTouchesItsTask DEF Untouched
  <1>3. CASE \E p \in Runs : Dispatch(p) \/ Reraise(p) \/ Conclude(p)
    BY <1>3 DEF Dispatch, Reraise, Conclude, Gathered, Pass, reads, vars, RunInv
  <1>4. CASE \E p \in Runs : CancelRun(p)
    <2>1. PICK p \in Runs : CancelRun(p)
      BY <1>4
    <2> DEFINE S == {r \in StepsOf[p] : pc[r] # "ended"}
    <2>2. S \in SUBSET Reads /\ Leave(S, "cancelled") /\ phase[p] = "running"
          /\ phase' = [phase EXCEPT ![p] = "raised"] /\ coverage' = coverage
      BY <2>1, RunsAssumption, ReadsAssumption DEF CancelRun, Pass
    <2>3. \A r \in StepsOf[q] : r \in Reads \ S
      BY <1>1
    <2>4. \A r \in StepsOf[q] : result'[r] = result[r]
      BY <2>2, <2>3, LeaveTouchesOnly DEF Untouched
    <2> QED BY <2>2, <2>4 DEF RunInv
  <1>5. CASE UNCHANGED <<pc, result, phase, coverage>>
    BY <1>5
  <1> QED BY <1>2, <1>3, <1>4, <1>5
          DEF CoordinatorNext, RegisterConnector, Register, Publish, SDKStores, SDKFails,
              ADLCStores, ADLCFails, all, reads, vars

\* What a run concludes of itself is true of its steps.
LEMMA ConclusionsAreTrue ==
    ASSUME RunInv, NEW q \in Runs, Conclude(q)
    PROVE  /\ coverage' = [coverage EXCEPT ![q] =
                 [included |-> Included(q), excluded |-> Excluded(q),
                  complete |-> IsComplete(q, Included(q), Excluded(q))]]
           /\ [included |-> Included(q), excluded |-> Excluded(q),
               complete |-> IsComplete(q, Included(q), Excluded(q))] \in Coverages
           /\ IsComplete(q, Included(q), Excluded(q)) =>
                 \A r \in StepsOf[q] : result'[r] = "returned"
           /\ phase' = [phase EXCEPT ![q] = "stated"] /\ phase[q] = "running"
           /\ UNCHANGED <<result, bridge>>
  <1>1. /\ Included(q) \subseteq {Source(r) : r \in Reads}
        /\ Excluded(q) \subseteq {Source(r) : r \in Reads}
    BY RunsAssumption, ReadsAssumption
       DEF Included, Excluded, Completed, Failures, Outcomes
  <1>2. IsComplete(q, Included(q), Excluded(q)) \in BOOLEAN
    BY DEF IsComplete
  <1>3. ASSUME IsComplete(q, Included(q), Excluded(q)), NEW r \in StepsOf[q]
        PROVE  result[r] = "returned"
    BY <1>3 DEF IsComplete, Excluded, Failures, Outcomes
  <1> QED BY <1>1, <1>2, <1>3 DEF Coverages, Conclude, Gathered, Pass, reads, vars

LEMMA CoordinatorKeepsTruth ==
    ASSUME RunInv, TruthInv, [CoordinatorNext]_all
    PROVE  TruthInv'
  <1>1. CASE \E q \in Runs : Conclude(q)
    <2>1. PICK q \in Runs : Conclude(q)
      BY <1>1
    <2> DEFINE statement == [included |-> Included(q), excluded |-> Excluded(q),
                             complete |-> IsComplete(q, Included(q), Excluded(q))]
    <2>2. /\ coverage' = [coverage EXCEPT ![q] = statement] /\ statement \in Coverages
          /\ statement.complete => \A r \in StepsOf[q] : result'[r] = "returned"
          /\ phase' = [phase EXCEPT ![q] = "stated"] /\ result' = result
      BY <2>1, ConclusionsAreTrue
    <2> HIDE DEF statement
    <2>3. coverage' \in [Runs -> Coverages] /\ coverage'[q] = statement
      BY <2>2 DEF TruthInv
    <2>4. ASSUME NEW p \in Runs \ {q}
          PROVE  phase'[p] = phase[p] /\ coverage'[p] = coverage[p]
      BY <2>2 DEF RunInv
    <2> QED BY <2>2, <2>3, <2>4 DEF TruthInv
  <1>2. ASSUME coverage' = coverage, \A q \in Runs : phase'[q] = "stated" => phase[q] = "stated"
        PROVE  TruthInv'
    BY <1>2, StatementsStay DEF TruthInv
  <1>3. CASE \E q \in Runs : Dispatch(q) \/ Reraise(q) \/ CancelRun(q)
    <2>1. \A q \in Runs : phase'[q] = "stated" => phase[q] = "stated"
      BY <1>3 DEF Dispatch, Reraise, CancelRun, Pass, RunInv
    <2>2. coverage' = coverage
      BY <1>3 DEF Dispatch, Reraise, CancelRun
    <2> QED BY <1>2, <2>1, <2>2
  <1> QED BY <1>1, <1>2, <1>3
          DEF CoordinatorNext, Read, RegisterConnector, Register, Publish, SDKStores, SDKFails,
              ADLCStores, ADLCFails, all

LEMMA CoordinatorKeepsBridge ==
    ASSUME RunInv, TruthInv, BridgeInv, [CoordinatorNext]_all
    PROVE  BridgeInv'
  <1>1. \A q : Stated(q) => Stated(q)' /\ Evidence(q)' = Evidence(q)
    BY StatementsStay DEF Stated, Evidence
  <1>2. ASSUME UNCHANGED bridge
        PROVE  BridgeInv'
    <2>1. \A e \in adlc : Taken(e)'
      BY <1>1, <1>2 DEF BridgeInv, Taken, bridge
    <2> QED BY <1>1, <1>2, <2>1 DEF BridgeInv, bridge
  <1>3. ASSUME NEW p \in Publications, NEW q \in Runs, Publish(p, q)
        PROVE  BridgeInv'
    <2>1. \A e \in adlc : Taken(e)'
      BY <1>1, <1>3 DEF BridgeInv, Taken, Publish
    <2>2. Stated(q)
      BY <1>3 DEF Publish, Stated
    <2> QED BY <1>1, <1>3, <2>1, <2>2 DEF BridgeInv, Publish, Move
  <1>4. ASSUME NEW p \in Publications, SDKStores(p)
        PROVE  BridgeInv'
    <2>1. Evidence(about[p]) \in [request : Runs, coverage : Coverages]
      BY <1>4 DEF SDKStores, BridgeInv, TruthInv, Stated, Evidence
    <2>2. /\ sdk' \in Seq([request : Runs, coverage : Coverages])
          /\ Len(sdk') = Len(sdk) + 1 /\ sdk'[Len(sdk')] = Evidence(about[p])
          /\ \A i \in 1..Len(sdk) : i \in 1..Len(sdk') /\ sdk'[i] = sdk[i]
          /\ Len(sdk') \in 1..Len(sdk')
      BY <1>4, <2>1 DEF SDKStores, BridgeInv
    <2>3. \A e \in adlc : Taken(e)'
      BY <1>1, <1>4, <2>2 DEF BridgeInv, Taken, SDKStores
    <2>4. Stated(about[p]) /\ stage[p] = "sdk"
      BY <1>4 DEF SDKStores, BridgeInv
    <2>5. about' = about /\ adlc' = adlc
      BY <1>4 DEF SDKStores
    <2>6. CASE Move(p, "adlc") /\ receipt' = [receipt EXCEPT ![p] = Len(sdk')]
      BY <1>1, <2>2, <2>3, <2>4, <2>5, <2>6 DEF BridgeInv, Move
    <2>7. CASE Move(p, "failed") /\ UNCHANGED receipt
      BY <1>1, <2>2, <2>3, <2>4, <2>5, <2>7 DEF BridgeInv, Move
    <2> QED BY <1>4, <2>6, <2>7 DEF SDKStores
  <1>5. ASSUME NEW p \in Publications, SDKFails(p) \/ ADLCFails(p)
        PROVE  BridgeInv'
    <2>1. \A e \in adlc : Taken(e)'
      BY <1>1, <1>5 DEF BridgeInv, Taken, SDKFails, ADLCFails
    <2> QED BY <1>1, <1>5, <2>1 DEF BridgeInv, SDKFails, ADLCFails, Move
  <1>6. ASSUME NEW p \in Publications, ADLCStores(p)
        PROVE  BridgeInv'
    <2> DEFINE e == [evidence |-> Evidence(about[p]), receipt |-> receipt[p]]
    <2>1. /\ stage[p] = "adlc" /\ adlc' = adlc \cup {e}
          /\ UNCHANGED <<phase, coverage, about, receipt, sdk>>
      BY <1>6 DEF ADLCStores
    <2>2. PICK next \in {"published", "failed"} : Move(p, next)
      BY <1>6 DEF ADLCStores
    <2>3. /\ Stated(about[p]) /\ receipt[p] \in 1..Len(sdk)
          /\ sdk[receipt[p]] = Evidence(about[p])
      BY <2>1 DEF BridgeInv
    <2>4. Taken(e)
      BY <2>3 DEF Taken, Evidence
    <2>5. \A d \in adlc' : Taken(d)'
      BY <1>1, <2>1, <2>4 DEF BridgeInv, Taken
    <2> QED BY <1>1, <2>1, <2>2, <2>5 DEF BridgeInv, Move
  <1>7. UNCHANGED bridge \/ \E p \in Publications :
           \/ SDKStores(p) \/ SDKFails(p) \/ ADLCStores(p) \/ ADLCFails(p)
           \/ \E q \in Runs : Publish(p, q)
    BY DEF CoordinatorNext, Read, RegisterConnector, Dispatch, Reraise, Conclude, CancelRun, all
  <1> QED BY <1>2, <1>3, <1>4, <1>5, <1>6, <1>7

\* Evidence of a run that the ADLC plane has taken carries a receipt that the SDK plane
\* gave for the same evidence, whatever the sinks lose and however often a result is
\* published; if it says complete, every step of the run delivered (publish()).
THEOREM EvidenceIsBackedHolds == CoordinatorSpec => []EvidenceIsBacked
  <1>1. CoordinatorInit => RunInv /\ TruthInv /\ BridgeInv
    <2>1. CoordinatorInit => TruthInv
      BY DEF CoordinatorInit, TruthInv, NoStatement, Coverages
    <2>2. CoordinatorInit => BridgeInv
      BY DEF CoordinatorInit, BridgeInv
    <2> QED BY <2>1, <2>2, CoordinatorStarts
  <1>2. RunInv /\ TruthInv /\ BridgeInv /\ [CoordinatorNext]_all => (RunInv /\ TruthInv /\ BridgeInv)'
    BY CoordinatorKeepsRuns, CoordinatorKeepsTruth, CoordinatorKeepsBridge
  <1>3. TruthInv /\ BridgeInv => EvidenceIsBacked
    <2>1. ASSUME TruthInv, BridgeInv, NEW e \in adlc, e.evidence.coverage.complete,
                 NEW r \in StepsOf[e.evidence.request]
          PROVE  result[r] = "returned"
      <3> DEFINE q == e.evidence.request
      <3>1. q \in Runs /\ phase[q] = "stated" /\ e.evidence = Evidence(q)
        BY <2>1 DEF BridgeInv, Taken, Stated
      <3>2. e.evidence.coverage = coverage[q]
        BY <3>1 DEF Evidence
      <3> HIDE DEF q
      <3>3. \A x \in StepsOf[q] : result[x] = "returned"
        BY <2>1, <3>1, <3>2 DEF TruthInv
      <3> QED BY <2>1, <3>3 DEF q
    <2>2. ASSUME TruthInv, BridgeInv, NEW e \in adlc
          PROVE  e.receipt \in 1..Len(sdk) /\ sdk[e.receipt] = e.evidence
      BY <2>2 DEF BridgeInv, Taken
    <2> QED BY <2>1, <2>2 DEF EvidenceIsBacked
  <1> QED BY <1>1, <1>2, <1>3, PTL DEF CoordinatorSpec

-----------------------------------------------------------------------------
(* Types *)

\* A read that waits for a slot is in its connector's queue: none is forgotten there.
InQueue ==
    \A r \in Reads : pc[r] = "queued" =>
        \E i \in 1..Len(waiters[Source(r)]) : waiters[Source(r)][i] = r

QueueInv ==
    /\ pc \in [Reads -> Points] /\ waiters \in [Connectors -> Seq(Reads)] /\ InQueue
    /\ result \in [Reads -> Results]

LEMMA WithoutIs ==
    ASSUME NEW s \in Seq(Reads), NEW S
    PROVE  /\ Without(s, S) \in Seq(Reads)
           /\ \A i \in 1..Len(s) : s[i] \notin S =>
                 \E k \in 1..Len(Without(s, S)) : Without(s, S)[k] = s[i]
  <1> DEFINE I == {i \in DOMAIN s : s[i] \notin S}
             t == Without(s, S)
  <1>1. Len(s) \in Nat /\ DOMAIN s = 1..Len(s) /\ \A i \in 1..Len(s) : s[i] \in Reads
    BY LenProperties, ElementOfSeq
  <1>2. I \in SUBSET (1..Len(s)) /\ I \in SUBSET Nat /\ \A i \in I : s[i] \in Reads
    BY <1>1
  <1>3. IsFiniteSet(I)
    <2>1. IsFiniteSet(1..Len(s))
      BY <1>1, FS_Interval
    <2> QED BY <2>1, <1>2, FS_Subset
  <1>4. t = EntriesAt(s, I)
    BY DEF Without
  <1>5. \A i \in 1..Len(s) : s[i] \notin S => i \in I
    BY <1>1
  <1> HIDE DEF I, t
  <1>6. t \in Seq(Reads) /\ Len(t) = Cardinality(I)
    BY <1>2, <1>3, <1>4, EntriesAre
  <1>7. /\ \A k \in 1..Cardinality(I) : t[k] = s[Increasing(I)[k]]
        /\ \A x \in I : \E k \in 1..Cardinality(I) : Increasing(I)[k] = x
    BY <1>2, <1>3, <1>4, EntriesAtIs
  <1>8. \A i \in 1..Len(s) : s[i] \notin S => \E k \in 1..Len(t) : t[k] = s[i]
    BY <1>5, <1>6, <1>7
  <1> QED BY <1>6, <1>8 DEF t

LEMMA LeaveQueues ==
    ASSUME QueueInv, NEW S \in SUBSET Reads, NEW value \in Results, Leave(S, value)
    PROVE  QueueInv'
  <1>1. /\ pc' = [r \in Reads |-> IF r \in S THEN "ended" ELSE pc[r]]
        /\ result' = [r \in Reads |-> IF r \in S THEN value ELSE result[r]]
        /\ waiters' = [c \in Connectors |-> Without(waiters[c], S)]
    BY DEF Leave
  <1>2. pc' \in [Reads -> Points] /\ result' \in [Reads -> Results]
    BY <1>1 DEF QueueInv, Points
  <1>3. \A c \in Connectors : waiters[c] \in Seq(Reads)
    BY DEF QueueInv
  <1>4. \A c \in Connectors : waiters'[c] = Without(waiters[c], S) /\ waiters'[c] \in Seq(Reads)
    BY <1>1, <1>3, WithoutIs
  <1>5. waiters' \in [Connectors -> Seq(Reads)]
    BY <1>1, <1>4
  <1>6. ASSUME NEW r \in Reads, pc'[r] = "queued"
        PROVE  \E i \in 1..Len(waiters'[Source(r)]) : waiters'[Source(r)][i] = r
    <2>1. r \notin S /\ pc[r] = "queued"
      BY <1>1, <1>6
    <2>2. PICK i \in 1..Len(waiters[Source(r)]) : waiters[Source(r)][i] = r
      BY <2>1 DEF QueueInv, InQueue
    <2>3. Source(r) \in Connectors
      BY SourceType
    <2>4. \E k \in 1..Len(Without(waiters[Source(r)], S)) : Without(waiters[Source(r)], S)[k] = r
      BY <2>1, <2>2, <2>3, <1>3, WithoutIs
    <2> QED BY <2>3, <2>4, <1>4
  <1> QED BY <1>2, <1>5, <1>6 DEF QueueInv, InQueue

LEMMA InterruptQueues ==
    ASSUME QueueInv, NEW r \in Reads, Interrupt(r)
    PROVE  QueueInv'
  <1> DEFINE S == {s \in Task(r) : Active(s)}
             A == {s \in S : pc[s] # "holding"}
  <1>1. /\ pc' = [s \in Reads |-> IF s \in A THEN "ended"
                                 ELSE IF s \in S THEN "abandoned" ELSE pc[s]]
        /\ result' = [s \in Reads |-> IF s \in S THEN "cancelled" ELSE result[s]]
        /\ waiters' = [c \in Connectors |-> Without(waiters[c], S)]
    BY DEF Interrupt
  <1>2. A \subseteq S
    OBVIOUS
  <1> HIDE DEF S, A
  <1>3. pc' \in [Reads -> Points] /\ result' \in [Reads -> Results]
    BY <1>1 DEF QueueInv, Points, InSlot, Results
  <1>4. \A c \in Connectors : waiters[c] \in Seq(Reads)
    BY DEF QueueInv
  <1>5. \A c \in Connectors : waiters'[c] = Without(waiters[c], S) /\ waiters'[c] \in Seq(Reads)
    BY <1>1, <1>4, WithoutIs
  <1>6. waiters' \in [Connectors -> Seq(Reads)]
    BY <1>1, <1>5
  <1>7. ASSUME NEW q \in Reads, pc'[q] = "queued"
        PROVE  \E i \in 1..Len(waiters'[Source(q)]) : waiters'[Source(q)][i] = q
    <2>1. q \notin S /\ pc[q] = "queued"
      BY <1>1, <1>2, <1>7
    <2>2. PICK i \in 1..Len(waiters[Source(q)]) : waiters[Source(q)][i] = q
      BY <2>1 DEF QueueInv, InQueue
    <2>3. Source(q) \in Connectors
      BY SourceType
    <2>4. \E k \in 1..Len(Without(waiters[Source(q)], S)) : Without(waiters[Source(q)], S)[k] = q
      BY <2>1, <2>2, <2>3, <1>4, WithoutIs
    <2> QED BY <2>3, <2>4, <1>5
  <1> QED BY <1>3, <1>6, <1>7 DEF QueueInv, InQueue

LEMMA MoveQueues ==
    ASSUME QueueInv, NEW r \in Reads, NEW point \in Points \ {"queued"}, Goto(r, point),
           waiters' = waiters, result' = result
    PROVE  QueueInv'
  <1>1. pc' = [pc EXCEPT ![r] = point]
    BY DEF Goto
  <1>2. pc' \in [Reads -> Points] /\ \A s \in Reads : pc'[s] = "queued" => pc[s] = "queued"
    BY <1>1 DEF QueueInv
  <1> QED BY <1>2 DEF QueueInv, InQueue

LEMMA AdmitQueues ==
    ASSUME QueueInv, NEW r \in Reads, Admit(r)
    PROVE  QueueInv'
  <1> DEFINE d == Source(r)
  <1>1. CASE Goto(r, "listing") /\ UNCHANGED waiters
    <2>1. "listing" \in Points \ {"queued"}
      BY DEF Points
    <2> QED BY <1>1, <2>1, MoveQueues DEF Admit
  <1>2. CASE Goto(r, "queued") /\ waiters' = [waiters EXCEPT ![d] = Append(@, r)]
    <2>1. d \in Connectors /\ waiters[d] \in Seq(Reads) /\ waiters \in [Connectors -> Seq(Reads)]
      BY SourceType DEF QueueInv
    <2>2. /\ Append(waiters[d], r) \in Seq(Reads)
          /\ Len(Append(waiters[d], r)) = Len(waiters[d]) + 1 /\ Len(waiters[d]) \in Nat
          /\ Append(waiters[d], r)[Len(waiters[d]) + 1] = r
          /\ \A i \in 1..Len(waiters[d]) : Append(waiters[d], r)[i] = waiters[d][i]
      BY <2>1, AppendProperties, LenProperties
    <2>3. /\ waiters' \in [Connectors -> Seq(Reads)] /\ waiters'[d] = Append(waiters[d], r)
          /\ \A c \in Connectors : c # d => waiters'[c] = waiters[c]
      BY <1>2, <2>1, <2>2
    <2>4. pc' = [pc EXCEPT ![r] = "queued"] /\ pc' \in [Reads -> Points] /\ result' = result
      BY <1>2 DEF Goto, QueueInv, Points, Admit
    <2>5. ASSUME NEW s \in Reads, pc'[s] = "queued"
          PROVE  \E i \in 1..Len(waiters'[Source(s)]) : waiters'[Source(s)][i] = s
      <3>1. CASE s = r
        <4>1. Len(waiters[d]) + 1 \in 1..Len(waiters'[d]) /\ waiters'[d][Len(waiters[d]) + 1] = r
          BY <2>2, <2>3
        <4> QED BY <3>1, <4>1
      <3>2. CASE s # r
        <4>1. pc[s] = "queued"
          BY <2>4, <2>5, <3>2 DEF QueueInv
        <4>2. PICK i \in 1..Len(waiters[Source(s)]) : waiters[Source(s)][i] = s
          BY <4>1 DEF QueueInv, InQueue
        <4>3. CASE Source(s) = d
          <5>1. i \in 1..Len(waiters'[d]) /\ waiters'[d][i] = s
            BY <4>2, <4>3, <2>2, <2>3
          <5> QED BY <5>1, <4>3
        <4>4. CASE Source(s) # d
          <5>1. waiters'[Source(s)] = waiters[Source(s)]
            BY <4>4, <2>3, SourceType
          <5> QED BY <5>1, <4>2
        <4> QED BY <4>3, <4>4
      <3> QED BY <3>1, <3>2
    <2> QED BY <2>3, <2>4, <2>5 DEF QueueInv, InQueue
  <1> QED BY <1>1, <1>2 DEF Admit

\* The first of a queue leaves it, and only the first.
LEMMA EnterQueues ==
    ASSUME QueueInv, NEW r \in Reads, Enter(r)
    PROVE  QueueInv'
  <1> DEFINE d == Source(r)
             s == waiters[d]
             n == Len(s)
  <1>1. /\ pc[r] = "queued" /\ r = Head(s) /\ waiters' = [waiters EXCEPT ![d] = Tail(s)]
        /\ pc' = [pc EXCEPT ![r] = "pulling"] /\ result' = result
    BY DEF Enter, Goto
  <1>2. d \in Connectors /\ s \in Seq(Reads) /\ waiters \in [Connectors -> Seq(Reads)]
    BY SourceType DEF QueueInv
  <1>3. s # <<>> /\ n \in Nat /\ n >= 1
    <2>1. \E i \in 1..n : s[i] = r
      BY <1>1 DEF QueueInv, InQueue
    <2>2. n \in Nat
      BY <1>2, LenProperties
    <2> HIDE DEF s
    <2>3. n # 0
      BY <2>1, <2>2
    <2> QED BY <2>2, <2>3, <1>2, EmptySeq
  <1>4. /\ Tail(s) \in Seq(Reads) /\ Len(Tail(s)) = n - 1 /\ r = s[1]
        /\ \A i \in 1..n - 1 : Tail(s)[i] = s[i + 1]
    BY <1>1, <1>2, <1>3, HeadTailProperties
  <1>5. /\ waiters' \in [Connectors -> Seq(Reads)] /\ waiters'[d] = Tail(s)
        /\ \A c \in Connectors : c # d => waiters'[c] = waiters[c]
    BY <1>1, <1>2, <1>4
  <1>6. pc' \in [Reads -> Points] /\ result' \in [Reads -> Results]
    BY <1>1 DEF QueueInv, Points, InSlot
  <1>7. ASSUME NEW q \in Reads, pc'[q] = "queued"
        PROVE  \E i \in 1..Len(waiters'[Source(q)]) : waiters'[Source(q)][i] = q
    <2>1. pc[q] = "queued" /\ q # r
      BY <1>1, <1>7 DEF QueueInv
    <2>2. PICK i \in 1..Len(waiters[Source(q)]) : waiters[Source(q)][i] = q
      BY <2>1 DEF QueueInv, InQueue
    <2>3. CASE Source(q) = d
      <3>1. i \in 1..n /\ s[i] = q
        BY <2>2, <2>3
      <3>2. i # 1
        BY <3>1, <2>1, <1>4
      <3> HIDE DEF n, s, d
      <3>3. i - 1 \in 1..n - 1 /\ (i - 1) + 1 = i
        BY <3>1, <3>2, <1>3
      <3>4. Tail(s)[i - 1] = q
        BY <3>1, <3>3, <1>4
      <3>5. i - 1 \in 1..Len(waiters'[d]) /\ waiters'[d][i - 1] = q
        BY <3>3, <3>4, <1>4, <1>5
      <3> QED BY <3>5, <2>3
    <2>4. CASE Source(q) # d
      <3>1. waiters'[Source(q)] = waiters[Source(q)]
        BY <2>4, <1>5, SourceType
      <3> QED BY <3>1, <2>2
    <2> QED BY <2>3, <2>4
  <1> QED BY <1>5, <1>6, <1>7 DEF QueueInv, InQueue

LEMMA StepQueues ==
    ASSUME QueueInv, NEW r \in Reads, Step(r)
    PROVE  QueueInv'
  <1>1. {r} \in SUBSET Reads
    OBVIOUS
  <1>2. {"failed", "cancelled", "closed", "returned"} \subseteq Results
    BY DEF Results
  <1>3. {"authorizing", "emitting", "pulling", "holding", "reporting"} \subseteq Points \ {"queued"}
    BY DEF Points, InSlot
  <1>4. ASSUME NEW value \in Results, End(r, value)
        PROVE  QueueInv'
    BY <1>1, <1>4, LeaveQueues DEF End
  <1>5. ASSUME NEW point \in Points \ {"queued"}, Goto(r, point), UNCHANGED <<waiters, result>>
        PROVE  QueueInv'
    BY <1>5, MoveQueues
  <1>6. CASE \/ Refuse(r) \/ Reject(r) \/ Exhausted(r) \/ Fail(r) \/ Close(r) \/ Report(r)
             \/ Collect(r)
    BY <1>2, <1>4, <1>6 DEF Refuse, Reject, Exhausted, Fail, Close, Report, Collect
  <1>7. CASE Authorize(r) \/ Emit(r) \/ Resume(r) \/ List(r)
    BY <1>3, <1>5, <1>7 DEF Authorize, Emit, Resume, List
  <1>8. CASE Admit(r)
    BY <1>8, AdmitQueues
  <1>9. CASE Enter(r)
    BY <1>9, EnterQueues
  <1>10. CASE Pull(r)
    <2>1. End(r, "failed") \/ (Goto(r, "emitting") /\ UNCHANGED <<waiters, result>>)
      BY <1>10 DEF Pull
    <2> QED BY <2>1, <1>2, <1>3, <1>4, <1>5
  <1>11. CASE Answer(r)
    <2>1. End(r, "failed") \/ (Goto(r, "reporting") /\ UNCHANGED <<waiters, result>>)
      BY <1>11 DEF Answer
    <2> QED BY <2>1, <1>2, <1>3, <1>4, <1>5
  <1>12. CASE Expire(r) \/ Cancel(r)
    <2>1. Interrupt(r) \/ End(r, "failed")
      BY <1>12 DEF Expire, Cancel
    <2> QED BY <2>1, <1>2, <1>4, InterruptQueues
  <1> QED BY <1>6, <1>7, <1>8, <1>9, <1>10, <1>11, <1>12 DEF Step

PlaneInv ==
    /\ registry \subseteq Connectors
    /\ \A q \in Runs :
          coverage[q] \in [included : SUBSET ExpectedSources(q),
                           excluded : SUBSET ExpectedSources(q), complete : BOOLEAN]
    /\ stage \in [Publications -> {"ready", "sdk", "adlc", "published", "failed"}]
    /\ about \in [Publications -> Runs \cup {None}]
    /\ receipt \in [Publications -> 0..SDKBound]
    /\ Len(sdk) \in 0..SDKBound

LEMMA CoordinatorKeepsPlanes ==
    ASSUME RunInv, BridgeInv, PlaneInv, [CoordinatorNext]_all
    PROVE  PlaneInv'
  <1>1. CASE \E q \in Runs : Conclude(q)
    <2>1. PICK q \in Runs : Conclude(q)
      BY <1>1
    <2> DEFINE statement == [included |-> Included(q), excluded |-> Excluded(q),
                             complete |-> IsComplete(q, Included(q), Excluded(q))]
    <2>2. coverage' = [coverage EXCEPT ![q] = statement] /\ UNCHANGED <<registry, bridge>>
      BY <2>1 DEF Conclude, reads, vars
    <2>3. statement \in [included : SUBSET ExpectedSources(q),
                         excluded : SUBSET ExpectedSources(q), complete : BOOLEAN]
      BY DEF Included, Excluded, Completed, Failures, Outcomes, ExpectedSources, IsComplete
    <2> HIDE DEF statement
    <2>4. \A p \in Runs : coverage'[p] = IF p = q THEN statement ELSE coverage[p]
      BY <2>2 DEF RunInv
    <2>5. UNCHANGED <<registry, stage, about, receipt, sdk>>
      BY <2>2 DEF bridge
    <2> QED BY <2>3, <2>4, <2>5 DEF PlaneInv
  <1>2. CASE UNCHANGED <<coverage, bridge>> /\ registry' \subseteq Connectors
    BY <1>2 DEF PlaneInv, bridge
  <1>3. ASSUME NEW p \in Publications, NEW q \in Runs, Publish(p, q)
        PROVE  PlaneInv'
    BY <1>3, PlanesAssumption DEF Publish, Move, PlaneInv, reads, vars
  <1>4. ASSUME NEW p \in Publications, SDKStores(p)
        PROVE  PlaneInv'
    <2>1. /\ Len(sdk') = Len(sdk) + 1 /\ Len(sdk') \in 0..SDKBound
          /\ UNCHANGED <<registry, coverage, about>>
      BY <1>4, PlanesAssumption DEF SDKStores, BridgeInv, PlaneInv, reads, vars
    <2>2. stage' \in [Publications -> {"ready", "sdk", "adlc", "published", "failed"}]
      BY <1>4 DEF SDKStores, Move, PlaneInv
    <2>3. receipt' \in [Publications -> 0..SDKBound]
      BY <1>4, <2>1 DEF SDKStores, PlaneInv
    <2> QED BY <2>1, <2>2, <2>3 DEF PlaneInv
  <1>5. ASSUME NEW p \in Publications, SDKFails(p) \/ ADLCFails(p) \/ ADLCStores(p)
        PROVE  PlaneInv'
    <2>1. UNCHANGED <<registry, coverage, about, receipt, sdk>>
      BY <1>5 DEF SDKFails, ADLCFails, ADLCStores, reads, vars
    <2>2. stage' \in [Publications -> {"ready", "sdk", "adlc", "published", "failed"}]
      BY <1>5 DEF SDKFails, ADLCFails, ADLCStores, Move, PlaneInv
    <2> QED BY <2>1, <2>2 DEF PlaneInv
  <1>6. \/ \E q \in Runs : Conclude(q)
        \/ UNCHANGED <<coverage, bridge>> /\ registry' \subseteq Connectors
        \/ \E p \in Publications :
              \/ SDKStores(p) \/ SDKFails(p) \/ ADLCStores(p) \/ ADLCFails(p)
              \/ \E q \in Runs : Publish(p, q)
    BY DEF CoordinatorNext, Read, Step, RegisterConnector, Register, Dispatch, Reraise, CancelRun,
           all, reads, vars, PlaneInv
  <1> QED BY <1>1, <1>2, <1>3, <1>4, <1>5, <1>6

GatewayInv == QueueInv /\ SumInv

LEMMA CoordinatorKeepsGateway ==
    ASSUME GatewayInv, [CoordinatorNext]_all
    PROVE  GatewayInv'
  <1>1. CASE \E r \in Reads : Read(r)
    BY <1>1, StepQueues, StepKeepsSums DEF Read, GatewayInv
  <1>2. CASE UNCHANGED <<pc, waiters, totals, result>>
    BY <1>2, SumsStay DEF GatewayInv, QueueInv, InQueue
  <1>3. CASE \E q \in Runs : CancelRun(q)
    <2>1. PICK q \in Runs : CancelRun(q)
      BY <1>3
    <2> DEFINE S == {r \in StepsOf[q] : pc[r] # "ended"}
    <2>2. Leave(S, "cancelled")
      BY <2>1 DEF CancelRun
    <2>3. S \subseteq Reads /\ "cancelled" \in Results
      BY RunsAssumption, ReadsAssumption DEF Results
    <2> HIDE DEF S
    <2> QED BY <2>2, <2>3, LeaveQueues, ForgetSums DEF GatewayInv, Leave
  <1>4. ASSUME CoordinatorNext, ~ \E r \in Reads : Read(r), ~ \E q \in Runs : CancelRun(q)
        PROVE  UNCHANGED <<pc, waiters, totals, result>>
    BY <1>4 DEF CoordinatorNext, RegisterConnector, Register, Dispatch, Reraise, Conclude, Publish,
                SDKStores, SDKFails, ADLCStores, ADLCFails, reads, vars
  <1>5. CASE UNCHANGED all
    BY <1>2, <1>5 DEF all, reads, vars
  <1> QED BY <1>1, <1>2, <1>3, <1>4, <1>5

\* THEOREM: the state of the gateway and of the coordinator over it stays in its ranges: no
\* more slots than there are, and what waits is in the queue it waits in (runtime.py,
\* coordination.py, cross_plane.py).
THEOREM CoordinatorTyped == CoordinatorSpec => [](CoordinatorTypeOK /\ InQueue)
  <1>1. CoordinatorInit => GatewayInv /\ PlaneInv
    <2> SUFFICES ASSUME CoordinatorInit PROVE GatewayInv /\ PlaneInv
      OBVIOUS
    <2>1. GatewayInv
      BY NothingPassed DEF CoordinatorInit, Init, GatewayInv, QueueInv, InQueue, Points, Results
    <2>2. PlaneInv
      BY PlanesAssumption DEF CoordinatorInit, Init, PlaneInv, NoStatement
    <2> QED BY <2>1, <2>2
  <1>2. CoordinatorInit => TruthInv /\ BridgeInv
    <2>1. CoordinatorInit => TruthInv
      BY DEF CoordinatorInit, TruthInv, NoStatement, Coverages
    <2>2. CoordinatorInit => BridgeInv
      BY DEF CoordinatorInit, BridgeInv
    <2> QED BY <2>1, <2>2
  <1>3. GatewayInv /\ RunInv /\ TruthInv /\ BridgeInv /\ PlaneInv /\ [CoordinatorNext]_all
        => (GatewayInv /\ RunInv /\ TruthInv /\ BridgeInv /\ PlaneInv)'
    BY CoordinatorKeepsGateway, CoordinatorKeepsRuns, CoordinatorKeepsTruth, CoordinatorKeepsBridge,
       CoordinatorKeepsPlanes
  <1>4. ReadInv /\ GatewayInv /\ RunInv /\ PlaneInv => CoordinatorTypeOK /\ InQueue
    <2> SUFFICES ASSUME ReadInv, GatewayInv, RunInv, PlaneInv PROVE CoordinatorTypeOK /\ InQueue
      OBVIOUS
    <2>1. ASSUME NEW c \in Connectors
          PROVE  slots[c] \in 0..MaxParallelism[c]
      <3>1. Cardinality(Holding(c)) \in Nat /\ slots[c] + Cardinality(Holding(c)) = MaxParallelism[c]
            /\ slots[c] \in Nat
        BY HoldersFinite DEF ReadInv, SlotInv, SlotsConserved, Holding
      <3> QED BY <3>1, ParallelismType
    <2>2. TypeOK
      BY <2>1 DEF TypeOK, GatewayInv, QueueInv, SumInv, TotalInv, PlaneInv
    <2> QED BY <2>2 DEF CoordinatorTypeOK, GatewayInv, QueueInv, RunInv, PlaneInv
  <1> QED BY <1>1, <1>2, <1>3, <1>4, CoordinatorStarts, ReadInvHolds, PTL DEF CoordinatorSpec
=============================================================================
