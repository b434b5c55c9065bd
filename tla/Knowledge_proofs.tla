-------------------------- MODULE Knowledge_proofs --------------------------
(***************************************************************************)
(* Proofs about SemanticMemory, SourceRouting and CheckpointLedger, for    *)
(* any number of entities, assertions, candidates, mappings and streams    *)
(* and for any bound of the clocks.                                        *)
(*                                                                         *)
(* The arguments: a cluster is a union of classes, so an assertion joins   *)
(* two classes or none, and what it joins was checked as a whole; among    *)
(* assertions recorded when they were made, what is known later was known  *)
(* when the last of them was checked; a mapping that met another digest is *)
(* in drift for good; and what a route prefers is the first of a finite    *)
(* order.                                                                  *)
(***************************************************************************)
EXTENDS MCKnowledge, FiniteSetTheorems, WellFoundedInduction, TLAPS

-----------------------------------------------------------------------------
(* Checkpoints *)

\* Tokens stay what record() may store.
THEOREM LedgerTyped == LedgerSpec => []LedgerTypeOK
  <1>1. LedgerInit => LedgerTypeOK
    BY DEF LedgerInit, LedgerTypeOK
  <1>2. LedgerTypeOK /\ [LedgerNext]_ledgervars => LedgerTypeOK'
    BY DEF LedgerTypeOK, LedgerNext, Record, ledgervars
  <1> QED BY <1>1, <1>2, PTL DEF LedgerSpec

\* What is further than the token in force was refused: of a token as far and as late as
\* the one it met, record() stores the new one, and the token only moves forward.
LedgerInv ==
    /\ ResumesFromFurthest
    /\ \A s \in Streams : tokens[s] = NoToken <=> deliveries[s] = {}

LEMMA RecordResumes ==
    ASSUME LedgerTypeOK, LedgerInv, NEW r \in Streams, Record(r), NEW s \in Streams
    PROVE  /\ deliveries'[s] # {} => tokens'[s] \in deliveries'[s]
           /\ \A t \in deliveries'[s] :
                 /\ t.version = tokens'[s].version
                 /\ t.position >= tokens'[s].position /\ t.at >= tokens'[s].at
                 => t = tokens'[s]
           /\ tokens'[s] = NoToken <=> deliveries'[s] = {}
  <1>1. PICK n \in Tokens :
            /\ deliveries' = [deliveries EXCEPT ![r] = @ \cup {n}]
            /\ tokens' = IF Forward(tokens[r], n) THEN [tokens EXCEPT ![r] = n] ELSE tokens
    BY DEF Record
  <1>2. /\ deliveries[s] \subseteq Tokens
        /\ tokens[s] \in {NoToken} \cup Tokens
    BY DEF LedgerTypeOK
  <1>3. /\ deliveries[s] # {} => tokens[s] \in deliveries[s]
        /\ tokens[s] = NoToken <=> deliveries[s] = {}
        /\ \A t \in deliveries[s] :
              /\ t.version = tokens[s].version
              /\ t.position >= tokens[s].position /\ t.at >= tokens[s].at
              => t = tokens[s]
    BY DEF LedgerInv, ResumesFromFurthest
  <1>4. CASE s # r
    <2>1. tokens'[s] = tokens[s] /\ deliveries'[s] = deliveries[s]
      BY <1>1, <1>4 DEF LedgerTypeOK
    <2> QED BY <1>3, <2>1
  <1>5. CASE s = r
    <2>1. /\ deliveries'[s] = deliveries[s] \cup {n}
          /\ tokens'[s] = IF Forward(tokens[s], n) THEN n ELSE tokens[s]
      BY <1>1, <1>5 DEF LedgerTypeOK
    <2>2. \A t \in Tokens : /\ t.position \in Int /\ t.at \in Int /\ t # NoToken
                             /\ t = [position |-> t.position, version |-> t.version, at |-> t.at]
      BY DEF Tokens, NoToken
    <2>3. CASE tokens[s] = NoToken
      <3>1. tokens'[s] = n /\ deliveries'[s] = {n}
        BY <1>3, <2>1, <2>3 DEF Forward
      <3> QED BY <2>2, <3>1
    <2>4. CASE tokens[s] # NoToken /\ Forward(tokens[s], n)
      <3>1. /\ tokens'[s] = n /\ tokens[s] \in Tokens
            /\ n.version = tokens[s].version
            /\ n.position >= tokens[s].position /\ n.at >= tokens[s].at
        BY <1>2, <2>1, <2>4 DEF Forward
      <3>2. ASSUME NEW t \in deliveries[s], t.version = n.version,
                   t.position >= n.position, t.at >= n.at
            PROVE  t = n
        <4>1. /\ t \in Tokens /\ t.position >= tokens[s].position
              /\ t.at >= tokens[s].at /\ t.version = tokens[s].version
          BY <1>2, <2>2, <3>1, <3>2
        <4>2. t = tokens[s]
          BY <1>3, <4>1
        <4>3. t.position = n.position /\ t.at = n.at
          BY <2>2, <3>1, <3>2, <4>2
        <4> QED BY <2>2, <3>2, <4>1, <4>3
      <3> QED BY <2>1, <2>2, <3>1, <3>2
    <2>5. CASE tokens[s] # NoToken /\ ~ Forward(tokens[s], n)
      <3>1. tokens'[s] = tokens[s] /\ tokens[s] \in Tokens
        BY <1>2, <2>1, <2>5
      <3>2. ~ (/\ n.version = tokens[s].version
               /\ n.position >= tokens[s].position /\ n.at >= tokens[s].at)
        BY <2>5 DEF Forward
      <3>3. tokens[s] \in deliveries[s]
        BY <1>3, <2>5
      <3> QED BY <1>3, <2>1, <2>5, <3>1, <3>2, <3>3
    <2> QED BY <2>3, <2>4, <2>5
  <1> QED BY <1>4, <1>5

\* No token of its connector version, stored or refused, is at least as far and at least as
\* late as the one that resume() returns (record(), resume()).
THEOREM ResumesFromFurthestHolds == LedgerSpec => []ResumesFromFurthest
  <1>1. LedgerInit => LedgerInv
    BY DEF LedgerInit, LedgerInv, ResumesFromFurthest
  <1>2. LedgerTypeOK /\ LedgerInv /\ [LedgerNext]_ledgervars => LedgerInv'
    <2> SUFFICES ASSUME LedgerTypeOK, LedgerInv, [LedgerNext]_ledgervars
                 PROVE  LedgerInv'
      OBVIOUS
    <2>1. CASE UNCHANGED ledgervars
      BY <2>1 DEF ledgervars, LedgerInv, ResumesFromFurthest
    <2>2. ASSUME NEW r \in Streams, Record(r) PROVE LedgerInv'
      BY <2>2, RecordResumes DEF LedgerInv, ResumesFromFurthest
    <2> QED BY <2>1, <2>2 DEF LedgerNext
  <1>3. LedgerInv => ResumesFromFurthest
    BY DEF LedgerInv
  <1> QED BY <1>1, <1>2, <1>3, LedgerTyped, PTL DEF LedgerSpec

-----------------------------------------------------------------------------
(* Semantic memory: types and governance *)

LEMMA AppendTypes ==
    ASSUME MemoryTypeOK, NEW a \in Ids, NEW times \in Spans, Append(a, times)
    PROVE  /\ Present' = Present \cup {a} /\ a \notin Present
           /\ Present' \subseteq Ids /\ graph' \in [Present' -> Spans]
           /\ retracted' \in [Present' -> Retractions]
           /\ recorded' \in [Present' -> 0..LastTime]
  <1>1. /\ a \notin Present
        /\ graph' = Add(graph, a, times)
        /\ retracted' = Add(retracted, a, Never)
        /\ recorded' = Add(recorded, a, now)
    BY DEF Append
  <1>2. DOMAIN retracted = Present /\ DOMAIN recorded = Present
    BY DEF MemoryTypeOK
  <1>3. Present' = Present \cup {a}
    BY <1>1 DEF Add, Present
  <1>4. graph' \in [Present' -> Spans]
    BY <1>1, <1>3 DEF Add, MemoryTypeOK, Present
  <1>5. retracted' \in [Present' -> Retractions]
    BY <1>1, <1>2, <1>3 DEF Add, MemoryTypeOK, Retractions
  <1>6. recorded' \in [Present' -> 0..LastTime]
    BY <1>1, <1>2, <1>3 DEF Add, MemoryTypeOK
  <1> QED BY <1>1, <1>3, <1>4, <1>5, <1>6 DEF MemoryTypeOK

LEMMA RetractTypes ==
    ASSUME MemoryTypeOK, NEW a \in Ids, Retract(a)
    PROVE  MemoryTypeOK'
  BY DEF MemoryTypeOK, Retract, Retractions, Present

LEMMA CandidateTypes ==
    ASSUME MemoryTypeOK, NEW c \in Candidates, Propose(c) \/ Review(c)
    PROVE  MemoryTypeOK'
  <1>1. /\ UNCHANGED <<now, graph, retracted, recorded, memory>>
        /\ candidate' \in [Candidates -> CandidateRecords]
        /\ claimed' \in [Candidates -> Reviewers] /\ judged' \in [Candidates -> Reviewers]
    <2>1. CASE Propose(c)
      BY <2>1, TimeAssumption, StancesAssumption
         DEF MemoryTypeOK, Propose, CandidateRecords, Reviewers
    <2>2. CASE Review(c)
      <3>1. PICK h \in Humans, s \in {"approved", "rejected"} :
                /\ candidate' = [candidate EXCEPT ![c].status = s, ![c].reviewer = h]
                /\ judged' = [judged EXCEPT ![c] = IF s = "approved" THEN h ELSE Nobody]
        BY <2>2 DEF Review
      <3>2. h \in Reviewers /\ s \in CandidateStatuses /\ Nobody \in Reviewers
        BY HumansAssumption DEF CandidateStatuses, Reviewers
      <3>3. [candidate[c] EXCEPT !.status = s, !.reviewer = h] \in CandidateRecords
        BY <3>2 DEF MemoryTypeOK, CandidateRecords
      <3>4. candidate' = [candidate EXCEPT ![c] = [candidate[c] EXCEPT !.status = s, !.reviewer = h]]
        BY <3>1 DEF MemoryTypeOK
      <3>5. candidate' \in [Candidates -> CandidateRecords]
        BY <3>3, <3>4 DEF MemoryTypeOK
      <3>6. judged' \in [Candidates -> Reviewers]
        BY <3>1, <3>2 DEF MemoryTypeOK
      <3> QED BY <2>2, <3>5, <3>6 DEF Review, MemoryTypeOK
    <2> QED BY <2>1, <2>2
  <1> QED BY <1>1 DEF MemoryTypeOK, Present

LEMMA PromoteTypes ==
    ASSUME MemoryTypeOK, NEW c \in Candidates, Promote(c)
    PROVE  MemoryTypeOK'
  <1>1. /\ candidate[c] \in CandidateRecords /\ Holds[c] \in Ids
        /\ Append(Holds[c], candidate[c].times)
        /\ memory' = Add(memory, c, candidate[c].reviewer)
        /\ candidate' = [candidate EXCEPT ![c].status = "promoted"]
        /\ candidate[c].reviewer # Nobody
        /\ UNCHANGED <<now, claimed, judged>>
    BY HoldsAssumption DEF Promote, MemoryTypeOK
  <1>2. candidate[c].times \in Spans /\ candidate[c].reviewer \in People
    BY <1>1 DEF CandidateRecords, Reviewers
  <1>3. candidate' \in [Candidates -> CandidateRecords]
    BY <1>1 DEF MemoryTypeOK, CandidateRecords, CandidateStatuses
  <1>4. DOMAIN memory' \subseteq Candidates /\ \A k \in DOMAIN memory' : memory'[k] \in People
    BY <1>1, <1>2 DEF MemoryTypeOK, Add
  <1> QED BY <1>1, <1>2, <1>3, <1>4, AppendTypes DEF MemoryTypeOK

\* The graph and the memory stay typed, step by step.
LEMMA MemoryStepTyped == MemoryTypeOK /\ [MemoryNext]_memvars => MemoryTypeOK'
  <1> SUFFICES ASSUME MemoryTypeOK, [MemoryNext]_memvars PROVE MemoryTypeOK'
    OBVIOUS
  <1>1. CASE UNCHANGED memvars
    BY <1>1 DEF memvars, MemoryTypeOK, Present
  <1>2. CASE MemoryTick
    BY <1>2, TimeAssumption DEF MemoryTick, MemoryTypeOK, Present
  <1>3. ASSUME NEW a \in Ids, Assert(a) PROVE MemoryTypeOK'
    <2>1. PICK times \in Periods : Append(a, times)
      BY <1>3 DEF Assert
    <2>2. times \in Spans
      BY TimeAssumption
    <2> QED BY <1>3, <2>1, <2>2, AppendTypes DEF MemoryTypeOK, Assert
  <1> QED BY <1>1, <1>2, <1>3, RetractTypes, CandidateTypes, PromoteTypes DEF MemoryNext

LEMMA MemoryInitTyped == MemoryInit => MemoryTypeOK
  <1> SUFFICES ASSUME MemoryInit PROVE MemoryTypeOK
    OBVIOUS
  <1>1. (CHOOSE p \in People : TRUE) \in People
    BY HumansAssumption
  <1>2. NoCandidate(CHOOSE p \in People : TRUE) \in CandidateRecords
    BY <1>1, TimeAssumption DEF NoCandidate, CandidateRecords, Reviewers, Spans, Times
  <1>3. candidate \in [Candidates -> CandidateRecords]
    BY <1>2 DEF MemoryInit
  <1>4. DOMAIN graph = {} /\ DOMAIN retracted = {} /\ DOMAIN recorded = {} /\ DOMAIN memory = {}
    BY DEF MemoryInit
  <1> QED BY <1>3, <1>4, TimeAssumption DEF MemoryInit, MemoryTypeOK, Present, Reviewers

LEMMA MemoryTyped == MemorySpec => []MemoryTypeOK
  BY MemoryInitTyped, MemoryStepTyped, PTL DEF MemorySpec

\* By whom a candidate was approved, if it was.
ApprovedBy(c, p) ==
    \/ judged[c] = p /\ p \in Humans /\ claimed[c] = Nobody
    \/ claimed[c] = p /\ p # Nobody /\ judged[c] = Nobody

GovernedInv ==
    /\ \A c \in Candidates :
          /\ candidate[c].status \in {"none", "proposed"} => judged[c] = Nobody /\ claimed[c] = Nobody
          /\ candidate[c].status = "approved" /\ candidate[c].reviewer # Nobody
                => ApprovedBy(c, candidate[c].reviewer)
    /\ MemoryIsGoverned

LEMMA PromoteGoverned ==
    ASSUME MemoryTypeOK, GovernedInv, NEW c \in Candidates, Promote(c)
    PROVE  GovernedInv'
  <1>1. /\ candidate[c] \in CandidateRecords /\ Holds[c] \in Ids
        /\ candidate[c].status = "approved" /\ candidate[c].reviewer # Nobody
        /\ Append(Holds[c], candidate[c].times)
        /\ memory' = Add(memory, c, candidate[c].reviewer)
        /\ UNCHANGED <<claimed, judged>>
        /\ candidate' = [candidate EXCEPT ![c].status = "promoted"]
        /\ Holds[c] \notin Present
        /\ graph' = Add(graph, Holds[c], candidate[c].times)
    BY HoldsAssumption DEF Promote, MemoryTypeOK, Append
  <1>2. ApprovedBy(c, candidate[c].reviewer)
    BY <1>1 DEF GovernedInv
  <1>3. /\ candidate'[c].status = "promoted"
        /\ candidate'[c].reviewer = candidate[c].reviewer
        /\ candidate'[c].times = candidate[c].times
        /\ \A k \in Candidates : k # c => candidate'[k] = candidate[k]
    BY <1>1 DEF MemoryTypeOK, CandidateRecords
  <1>4. \A k \in Candidates :
            /\ candidate'[k].status \in {"none", "proposed"}
                  => judged[k] = Nobody /\ claimed[k] = Nobody
            /\ candidate'[k].status = "approved" /\ candidate'[k].reviewer # Nobody
                  => ApprovedBy(k, candidate'[k].reviewer)
    BY <1>3 DEF GovernedInv
  <1>5. ASSUME NEW k \in DOMAIN memory'
        PROVE  /\ candidate'[k].status = "promoted" /\ ApprovedBy(k, memory'[k])
               /\ Holds[k] \in DOMAIN graph' /\ graph'[Holds[k]] = candidate'[k].times
    <2>1. CASE k = c
      BY <1>1, <1>2, <1>3, <2>1 DEF Add
    <2>2. CASE k # c
      <3>1. k \in DOMAIN memory /\ memory'[k] = memory[k]
        BY <1>1, <2>2 DEF Add
      <3>2. /\ candidate[k].status = "promoted" /\ ApprovedBy(k, memory[k])
            /\ Holds[k] \in Present /\ graph[Holds[k]] = candidate[k].times
        BY <3>1 DEF GovernedInv, MemoryIsGoverned, ApprovedBy
      <3>3. k \in Candidates
        BY <3>1 DEF MemoryTypeOK
      <3>4. Holds[k] \in DOMAIN graph' /\ graph'[Holds[k]] = graph[Holds[k]]
        BY <1>1, <3>2 DEF Present, Add
      <3> QED BY <1>3, <2>2, <3>1, <3>2, <3>3, <3>4
    <2> QED BY <2>1, <2>2
  <1> QED BY <1>1, <1>4, <1>5 DEF GovernedInv, MemoryIsGoverned, ApprovedBy, Present

LEMMA MemoryStepGoverned ==
    ASSUME MemoryTypeOK, GovernedInv, [MemoryNext]_memvars
    PROVE  GovernedInv'
  <1>1. CASE UNCHANGED memvars \/ MemoryTick
    BY <1>1 DEF memvars, MemoryTick, GovernedInv, MemoryIsGoverned, ApprovedBy, Present
  <1>2. ASSUME NEW a \in Ids, Assert(a) PROVE GovernedInv'
    <2>1. PICK times \in Periods : Append(a, times)
      BY <1>2 DEF Assert
    <2>2. UNCHANGED <<candidate, memory, claimed, judged>>
      BY <1>2 DEF Assert
    <2>3. /\ Present \subseteq Present'
          /\ \A i \in Present : graph'[i] = graph[i]
      BY <2>1 DEF Append, Present, Add
    <2> QED BY <2>2, <2>3 DEF GovernedInv, MemoryIsGoverned, ApprovedBy
  <1>3. ASSUME NEW a \in Ids, Retract(a) PROVE GovernedInv'
    BY <1>3 DEF Retract, GovernedInv, MemoryIsGoverned, ApprovedBy, Present
  <1>4. ASSUME NEW c \in Candidates, Propose(c) \/ Review(c) PROVE GovernedInv'
    <2>1. /\ UNCHANGED <<graph, memory>>
          /\ candidate[c].status \in {"none", "proposed"}
          /\ \A k \in Candidates : k # c => /\ candidate'[k] = candidate[k]
                                            /\ claimed'[k] = claimed[k] /\ judged'[k] = judged[k]
      BY <1>4 DEF Propose, Review, MemoryTypeOK
    <2>2. /\ candidate'[c].status \in {"none", "proposed"}
                => judged'[c] = Nobody /\ claimed'[c] = Nobody
          /\ candidate'[c].status = "approved" /\ candidate'[c].reviewer # Nobody
                => \/ /\ judged'[c] = candidate'[c].reviewer
                      /\ candidate'[c].reviewer \in Humans /\ claimed'[c] = Nobody
                   \/ claimed'[c] = candidate'[c].reviewer /\ judged'[c] = Nobody
      <3>1. judged[c] = Nobody /\ claimed[c] = Nobody
        BY <2>1 DEF GovernedInv
      <3>2. CASE Propose(c)
        BY <3>1, <3>2 DEF Propose, MemoryTypeOK
      <3>3. CASE Review(c)
        BY <3>1, <3>3 DEF Review, MemoryTypeOK, CandidateRecords
      <3> QED BY <1>4, <3>2, <3>3
    <2>3. c \notin DOMAIN memory
      BY <2>1 DEF GovernedInv, MemoryIsGoverned
    <2>4. \A k \in DOMAIN memory : k \in Candidates /\ k # c
      BY <2>3 DEF MemoryTypeOK
    <2>5. MemoryIsGoverned'
      BY <2>1, <2>4 DEF GovernedInv, MemoryIsGoverned, Present
    <2> QED BY <2>1, <2>2, <2>5 DEF GovernedInv, ApprovedBy
  <1> QED BY <1>1, <1>2, <1>3, <1>4, PromoteGoverned DEF MemoryNext

\* What is in shared memory was approved by the reviewer it names, through review() or
\* before it came, with the times that it has in the graph (propose(), promote()).
THEOREM MemoryGoverned == MemorySpec => []MemoryIsGoverned
  <1>1. MemoryInit => GovernedInv
    <2> SUFFICES ASSUME MemoryInit PROVE GovernedInv
      OBVIOUS
    <2>1. \A c \in Candidates :
              candidate[c].status = "none" /\ judged[c] = Nobody /\ claimed[c] = Nobody
      BY DEF MemoryInit, NoCandidate
    <2>2. DOMAIN memory = {}
      BY DEF MemoryInit
    <2> QED BY <2>1, <2>2 DEF GovernedInv, MemoryIsGoverned
  <1>2. MemoryTypeOK /\ GovernedInv /\ [MemoryNext]_memvars => GovernedInv'
    BY MemoryStepGoverned
  <1>3. GovernedInv => MemoryIsGoverned
    BY DEF GovernedInv
  <1> QED BY <1>1, <1>2, <1>3, MemoryTyped, PTL DEF MemorySpec

-----------------------------------------------------------------------------
(* Semantic memory: clusters *)

\* No assertion of S crosses the border of C.
ClosedUnder(C, S) ==
    C \subseteq Entities /\ \A l \in Linked(S) : l[1] \in C <=> l[2] \in C

LEMMA LinkedAre ==
    ASSUME NEW S \in SUBSET Ids, NEW C
    PROVE  (\A l \in Linked(S) : l[1] \in C <=> l[2] \in C)
               <=> \A a \in S : Says[a].predicate = "same_as" =>
                       (Says[a].subject \in C <=> Says[a].object \in C)
  <1>1. ASSUME NEW a \in S, Says[a].predicate = "same_as"
        PROVE  <<Says[a].subject, Says[a].object>> \in Linked(S)
    BY <1>1 DEF Linked
  <1>2. ASSUME NEW l \in Linked(S)
        PROVE  \E a \in S : /\ Says[a].predicate = "same_as"
                            /\ l[1] = Says[a].subject /\ l[2] = Says[a].object
    BY <1>2 DEF Linked
  <1>3. ASSUME NEW a \in S, Says[a].predicate = "same_as",
               \A l \in Linked(S) : l[1] \in C <=> l[2] \in C
        PROVE  Says[a].subject \in C <=> Says[a].object \in C
    <2> DEFINE l == <<Says[a].subject, Says[a].object>>
    <2>1. l \in Linked(S) /\ l[1] = Says[a].subject /\ l[2] = Says[a].object
      BY <1>1, <1>3
    <2> HIDE DEF l
    <2> QED BY <1>3, <2>1
  <1> QED BY <1>2, <1>3

LEMMA ClosedIs ==
    ASSUME NEW S \in SUBSET Ids, NEW C \in SUBSET Entities
    PROVE  ClosedUnder(C, S)
               <=> \A a \in S : Says[a].predicate = "same_as" =>
                       (Says[a].subject \in C <=> Says[a].object \in C)
  BY LinkedAre DEF ClosedUnder

LEMMA ClusterIs ==
    ASSUME NEW S \in SUBSET Ids, NEW e \in Entities, NEW f
    PROVE  f \in ClusterOf(e, S)
               <=> f \in Entities /\ \A C \in SUBSET Entities :
                                        ClosedUnder(C, S) /\ e \in C => f \in C
  BY DEF ClusterOf, ClosedUnder

LEMMA ClusterIsClosed ==
    ASSUME NEW S \in SUBSET Ids, NEW e \in Entities
    PROVE  /\ ClosedUnder(ClusterOf(e, S), S) /\ e \in ClusterOf(e, S)
           /\ ClusterOf(e, S) \subseteq Entities
  <1>1. ClusterOf(e, S) \subseteq Entities /\ e \in ClusterOf(e, S)
    BY DEF ClusterOf
  <1>2. ASSUME NEW a \in S, Says[a].predicate = "same_as"
        PROVE  Says[a].subject \in ClusterOf(e, S) <=> Says[a].object \in ClusterOf(e, S)
    <2>1. Says[a].subject \in Entities /\ Says[a].object \in Entities
      BY SaysAssumption
    <2>2. \A C \in SUBSET Entities : ClosedUnder(C, S) =>
              (Says[a].subject \in C <=> Says[a].object \in C)
      BY <1>2, ClosedIs
    <2> QED BY <2>1, <2>2, ClusterIs
  <1> QED BY <1>1, <1>2, ClosedIs

\* Clusters are classes.
LEMMA ClusterIsSymmetric ==
    ASSUME NEW S \in SUBSET Ids, NEW e \in Entities, NEW f \in Entities, f \in ClusterOf(e, S)
    PROVE  e \in ClusterOf(f, S)
  <1> SUFFICES ASSUME NEW C \in SUBSET Entities, ClosedUnder(C, S), f \in C, e \notin C
               PROVE  FALSE
    BY ClusterIs
  <1> DEFINE D == Entities \ C
  <1>1. ClosedUnder(D, S)
    <2>1. ASSUME NEW a \in S, Says[a].predicate = "same_as"
          PROVE  Says[a].subject \in D <=> Says[a].object \in D
      <3>1. Says[a].subject \in Entities /\ Says[a].object \in Entities
        BY SaysAssumption
      <3> QED BY <2>1, <3>1, ClosedIs
    <2> QED BY <2>1, ClosedIs
  <1>2. e \in D /\ f \notin D
    OBVIOUS
  <1> QED BY <1>1, <1>2, ClusterIs

LEMMA ClusterIsTransitive ==
    ASSUME NEW S \in SUBSET Ids, NEW e \in Entities, NEW f \in Entities, NEW g \in Entities,
           f \in ClusterOf(e, S), g \in ClusterOf(f, S)
    PROVE  g \in ClusterOf(e, S)
  BY ClusterIs

\* With fewer assertions, clusters are smaller.
LEMMA ClusterIsMonotone ==
    ASSUME NEW T \in SUBSET Ids, NEW S \in SUBSET T, NEW e \in Entities
    PROVE  ClusterOf(e, S) \subseteq ClusterOf(e, T)
  <1>1. S \in SUBSET Ids
    OBVIOUS
  <1>2. \A C \in SUBSET Entities : ClosedUnder(C, T) => ClosedUnder(C, S)
    BY <1>1, ClosedIs
  <1> QED BY <1>1, <1>2, ClusterIs

LEMMA ConsistentIsAntitone ==
    ASSUME NEW T \in SUBSET Ids, NEW S \in SUBSET T, Consistent(T)
    PROVE  Consistent(S)
  <1> SUFFICES ASSUME NEW a \in S, Says[a].predicate = "not_same_as",
                      Says[a].object \in ClusterOf(Says[a].subject, S)
               PROVE  FALSE
    BY DEF Consistent
  <1>1. Says[a].subject \in Entities
    BY SaysAssumption
  <1> QED BY <1>1, ClusterIsMonotone DEF Consistent

\* What append() checks, of any view.
Conflicts(a, S) ==
    LET left == ClusterOf(Says[a].subject, S)
        right == ClusterOf(Says[a].object, S)
    IN \/ Says[a].predicate = "not_same_as" /\ Says[a].object \in left
       \/ /\ Says[a].predicate = "same_as"
          /\ \E b \in S : /\ Says[b].predicate = "not_same_as"
                          /\ \/ Says[b].subject \in left /\ Says[b].object \in right
                             \/ Says[b].subject \in right /\ Says[b].object \in left

LEMMA ContradictsIs ==
    ASSUME NEW a PROVE Contradicts(a) <=> Conflicts(a, Active(now, now))
  BY DEF Contradicts, Conflicts, Denied, Cluster

LEMMA ConflictsIsMonotone ==
    ASSUME NEW T \in SUBSET Ids, NEW S \in SUBSET T, NEW a \in Ids, Conflicts(a, S)
    PROVE  Conflicts(a, T)
  <1>1. Says[a].subject \in Entities /\ Says[a].object \in Entities
    BY SaysAssumption
  <1>2. /\ ClusterOf(Says[a].subject, S) \subseteq ClusterOf(Says[a].subject, T)
        /\ ClusterOf(Says[a].object, S) \subseteq ClusterOf(Says[a].object, T)
    BY <1>1, ClusterIsMonotone
  <1> QED BY <1>2 DEF Conflicts

\* A view to which an assertion is added that does not contradict it stays without
\* contradiction: two classes are joined, and no denial lies between them.
LEMMA ConsistentExtends ==
    ASSUME NEW S \in SUBSET Ids, Consistent(S), NEW a \in Ids, ~ Conflicts(a, S)
    PROVE  Consistent(S \cup {a})
  <1> DEFINE s == Says[a].subject
             o == Says[a].object
             left == ClusterOf(s, S)
             right == ClusterOf(o, S)
             both == left \cup right
             U == S \cup {a}
  <1>1. s \in Entities /\ o \in Entities /\ U \in SUBSET Ids
        /\ Says[a].predicate \in Predicates
    BY SaysAssumption
  <1>2. CASE Says[a].predicate = "not_same_as"
    <2>1. \A C \in SUBSET Entities : ClosedUnder(C, U) <=> ClosedUnder(C, S)
      BY <1>1, <1>2, ClosedIs
    <2>2. ASSUME NEW e \in Entities
          PROVE  ClusterOf(e, U) = ClusterOf(e, S)
      <3>1. ASSUME NEW f PROVE f \in ClusterOf(e, U) <=> f \in ClusterOf(e, S)
        <4> HIDE DEF U
        <4>1. f \in ClusterOf(e, U) <=> f \in Entities /\ \A C \in SUBSET Entities :
                                          ClosedUnder(C, U) /\ e \in C => f \in C
          BY <1>1, ClusterIs
        <4>2. f \in ClusterOf(e, S) <=> f \in Entities /\ \A C \in SUBSET Entities :
                                          ClosedUnder(C, S) /\ e \in C => f \in C
          BY ClusterIs
        <4> QED BY <2>1, <4>1, <4>2
      <3> QED BY <3>1
    <2>3. ASSUME NEW b \in U, Says[b].predicate = "not_same_as"
          PROVE  Says[b].object \notin ClusterOf(Says[b].subject, U)
      <3>1. Says[b].subject \in Entities
        BY <1>1, SaysAssumption
      <3>2. Says[b].object \notin ClusterOf(Says[b].subject, S)
        BY <1>2, <2>3 DEF Consistent, Conflicts
      <3> QED BY <2>2, <3>1, <3>2
    <2> QED BY <2>3 DEF Consistent
  <1>3. CASE Says[a].predicate = "same_as"
    <2> SUFFICES ASSUME NEW b \in U, Says[b].predicate = "not_same_as"
                 PROVE  Says[b].object \notin ClusterOf(Says[b].subject, U)
      BY DEF Consistent
    <2> DEFINE bs == Says[b].subject
               bo == Says[b].object
    <2>1. b \in S /\ bs \in Entities /\ bo \in Entities
      BY <1>1, <1>3, SaysAssumption
    <2>2. bo \notin ClusterOf(bs, S)
      BY <2>1 DEF Consistent
    <2>3. ~ (bs \in left /\ bo \in right) /\ ~ (bs \in right /\ bo \in left)
      BY <1>3, <2>1 DEF Conflicts
    <2>4. /\ ClosedUnder(left, S) /\ ClosedUnder(right, S) /\ ClosedUnder(ClusterOf(bs, S), S)
          /\ s \in left /\ o \in right /\ bs \in ClusterOf(bs, S)
          /\ left \subseteq Entities /\ right \subseteq Entities
          /\ ClusterOf(bs, S) \subseteq Entities
      BY <1>1, <2>1, ClusterIsClosed
    <2>5. \A C \in SUBSET Entities :
              ClosedUnder(C, S) /\ (s \in C <=> o \in C) => ClosedUnder(C, U)
      BY <1>1, ClosedIs
    <2>6. SUFFICES \E C \in SUBSET Entities :
                      ClosedUnder(C, S) /\ (s \in C <=> o \in C) /\ bs \in C /\ bo \notin C
      <3> HIDE DEF U
      <3>1. ASSUME bo \in ClusterOf(bs, U)
            PROVE  \A C \in SUBSET Entities : ClosedUnder(C, U) /\ bs \in C => bo \in C
        BY <1>1, <2>1, <3>1, ClusterIs
      <3> QED BY <2>5, <3>1
    <2>7. ~ (bs \in left /\ bo \in left) /\ ~ (bs \in right /\ bo \in right)
      BY <1>1, <2>1, <2>2, ClusterIsSymmetric, ClusterIsTransitive
    <2>8. ClosedUnder(both, S) /\ both \in SUBSET Entities /\ s \in both /\ o \in both
      BY <2>4, ClosedIs
    <2>9. CASE bs \in both
      BY <2>3, <2>7, <2>8, <2>9
    <2>10. CASE bs \notin both
      <3>1. s \notin ClusterOf(bs, S) /\ o \notin ClusterOf(bs, S)
        BY <1>1, <2>1, <2>10, ClusterIsSymmetric
      <3> QED BY <2>2, <2>4, <3>1
    <2> QED BY <2>9, <2>10
  <1> QED BY <1>1, <1>2, <1>3 DEF Predicates

-----------------------------------------------------------------------------
(* Semantic memory: no contradiction arises *)

LEMMA ActiveTyped == MemoryTypeOK => \A valid, known : Active(valid, known) \in SUBSET Ids
  BY DEF MemoryTypeOK, Active

\* What is active after an assertion is recorded was active or is the assertion, which
\* append() checked.
LEMMA AppendStaysConsistent ==
    ASSUME MemoryTypeOK, NEW a \in Ids, NEW times \in Spans, Append(a, times), now' = now,
           Consistent(Active(now, now))
    PROVE  Consistent(Active(now, now))'
  <1> DEFINE S == Active(now, now)
             U == S \cup {a}
             W == Active(now, now)'
  <1>1. S \in SUBSET Ids /\ U \in SUBSET Ids
    BY ActiveTyped
  <1>2. ~ Conflicts(a, S)
    BY ContradictsIs DEF Append
  <1>3. W \subseteq U
    BY DEF Append, Active, Add, Present, MemoryTypeOK
  <1>4. Consistent(U)
    BY <1>1, <1>2, ConsistentExtends
  <1>5. Consistent(W)
    <2> HIDE DEF W, U
    <2> QED BY <1>1, <1>3, <1>4, ConsistentIsAntitone
  <1> QED BY <1>5 DEF Consistent

LEMMA FewerStayConsistent ==
    ASSUME MemoryTypeOK, Active(now, now)' \subseteq Active(now, now),
           Consistent(Active(now, now))
    PROVE  Consistent(Active(now, now))'
  <1> DEFINE S == Active(now, now)
             W == Active(now, now)'
  <1>1. S \in SUBSET Ids /\ W \in SUBSET S
    BY ActiveTyped
  <1>2. Consistent(W)
    <2> HIDE DEF W, S
    <2> QED BY <1>1, ConsistentIsAntitone DEF S
  <1> QED BY <1>2 DEF Consistent

LEMMA PresentStepConsistent ==
    ASSUME MemoryTypeOK, [MemoryNext]_memvars, now' = now, Consistent(Active(now, now))
    PROVE  Consistent(Active(now, now))'
  <1>1. CASE UNCHANGED <<graph, retracted>>
    <2>1. Active(now, now)' \subseteq Active(now, now)
      BY <1>1 DEF Active, Present
    <2> QED BY <2>1, FewerStayConsistent
  <1>2. ASSUME NEW a \in Ids, Assert(a) PROVE Consistent(Active(now, now))'
    <2>1. PICK times \in Periods : Append(a, times)
      BY <1>2 DEF Assert
    <2>2. times \in Spans
      BY TimeAssumption
    <2> QED BY <2>1, <2>2, AppendStaysConsistent
  <1>3. ASSUME NEW a \in Ids, Retract(a) PROVE Consistent(Active(now, now))'
    <2>1. /\ retracted[a] = Never /\ a \in Present /\ graph' = graph
          /\ \A b \in Present : b # a => retracted'[b] = retracted[b]
          /\ now \in Int /\ now < Never
      BY <1>3, TimeAssumption DEF Retract, MemoryTypeOK, Never
    <2>2. Active(now, now)' \subseteq Active(now, now)
      BY <2>1 DEF Active, Present
    <2> QED BY <2>2, FewerStayConsistent
  <1>4. ASSUME NEW c \in Candidates, Promote(c) PROVE Consistent(Active(now, now))'
    <2>1. Holds[c] \in Ids /\ candidate[c].times \in Spans /\ Append(Holds[c], candidate[c].times)
      BY <1>4, HoldsAssumption DEF Promote, MemoryTypeOK, CandidateRecords
    <2> QED BY <2>1, AppendStaysConsistent
  <1>5. ASSUME NEW c \in Candidates, Propose(c) \/ Review(c) PROVE UNCHANGED <<graph, retracted>>
    BY <1>5 DEF Propose, Review
  <1>6. CASE MemoryTick \/ UNCHANGED memvars
    BY <1>1, <1>6 DEF MemoryTick, memvars
  <1> QED BY <1>1, <1>2, <1>3, <1>4, <1>5, <1>6 DEF MemoryNext

\* Whatever times assertions carry, no append() and no retract() turns a present without
\* contradiction into one with a contradiction.
THEOREM PresentIsKeptConsistent == MemorySpec => PresentStaysConsistent
  <1>1. MemoryTypeOK /\ [MemoryNext]_memvars =>
            [now' = now /\ Consistent(Active(now, now)) => Consistent(Active(now, now))']_memvars
    BY PresentStepConsistent
  <1> QED BY <1>1, MemoryTyped, PTL DEF MemorySpec, PresentStaysConsistent

-----------------------------------------------------------------------------
(* Semantic memory: prompt assertions never contradict each other *)

\* The prompt assertions known at a time.
PromptKnown(known) ==
    {a \in Present : Prompt(a) /\ recorded[a] <= known /\ known < retracted[a]}

\* Prompt assertions agree in what is known at any time, and none is recorded later than now.
PromptInv ==
    /\ \A known \in Times : Consistent(PromptKnown(known))
    /\ \A a \in Present : recorded[a] <= now

\* Prompt assertions hold for all times.
LEMMA PromptViews ==
    ASSUME MemoryTypeOK, NEW known \in Times
    PROVE  {a \in Active(now, known) : Prompt(a)} = PromptKnown(known)
  <1>1. ASSUME NEW a \in Present, Prompt(a)
        PROVE  /\ graph[a].asserted = recorded[a] /\ graph[a].from <= now /\ now < graph[a].to
    <2>1. now \in Nat /\ now <= LastTime /\ LastTime \in Nat
      BY TimeAssumption DEF MemoryTypeOK
    <2> QED BY <1>1, <2>1 DEF Prompt, Never
  <1> QED BY <1>1 DEF Active, PromptKnown

LEMMA PromptKnownTyped == MemoryTypeOK => \A known : PromptKnown(known) \in SUBSET Ids
  BY DEF MemoryTypeOK, PromptKnown

\* What is known now and later was active when the assertion was checked.
LEMMA AppendStaysPrompt ==
    ASSUME MemoryTypeOK, PromptInv, NEW a \in Ids, NEW times \in Spans, Append(a, times),
           now' = now
    PROVE  PromptInv'
  <1>1. /\ graph' = Add(graph, a, times) /\ retracted' = Add(retracted, a, Never)
        /\ recorded' = Add(recorded, a, now) /\ a \notin Present
        /\ DOMAIN retracted = Present /\ DOMAIN recorded = Present /\ Present = DOMAIN graph
        /\ now \in Nat /\ now <= LastTime
        /\ \A b \in Present : recorded[b] \in Nat /\ retracted[b] \in Nat
    BY TimeAssumption DEF Append, MemoryTypeOK, Present, Retractions, Times, Never
  <1>2. ~ Conflicts(a, Active(now, now))
    BY ContradictsIs DEF Append
  <1>3. \A b \in Present' : recorded'[b] <= now'
    BY <1>1 DEF Add, Present, PromptInv
  <1>4. ASSUME NEW known \in Times PROVE Consistent(PromptKnown(known)')
    <2> DEFINE S == PromptKnown(known)
               W == PromptKnown(known)'
    <2>1. S \in SUBSET Ids /\ Consistent(S) /\ known \in Nat
      BY PromptKnownTyped, TimeAssumption DEF PromptInv, Times
    <2>2. W \subseteq S \cup (IF now <= known THEN {a} ELSE {})
      BY <1>1, <2>1 DEF PromptKnown, Prompt, Add, Present
    <2>3. CASE now <= known
      <3>1. S \subseteq Active(now, now)
        <4>1. ASSUME NEW b \in S
              PROVE  b \in Active(now, now)
          <5>1. /\ b \in Present /\ recorded[b] <= known /\ known < retracted[b]
                /\ recorded[b] <= now /\ Prompt(b)
            BY DEF PromptKnown, PromptInv
          <5>2. now < Never
            BY <1>1, TimeAssumption DEF Never
          <5>3. now < retracted[b]
            BY <1>1, <2>1, <2>3, <5>1
          <5> QED BY <1>1, <5>1, <5>2, <5>3 DEF Active, Prompt
        <4> QED BY <4>1
      <3>2. ~ Conflicts(a, S)
        BY <1>2, <3>1, ActiveTyped, ConflictsIsMonotone
      <3>3. Consistent(S \cup {a}) /\ S \cup {a} \in SUBSET Ids
        BY <2>1, <3>2, ConsistentExtends
      <3>4. W \subseteq S \cup {a}
        BY <2>2, <2>3
      <3> HIDE DEF W, S
      <3> QED BY <3>3, <3>4, ConsistentIsAntitone DEF W
    <2>4. CASE ~ (now <= known)
      <3>1. W \subseteq S
        BY <2>2, <2>4
      <3> HIDE DEF W, S
      <3> QED BY <2>1, <3>1, ConsistentIsAntitone DEF W
    <2> QED BY <2>3, <2>4
  <1>5. ASSUME NEW known \in Times PROVE Consistent(PromptKnown(known))'
    BY <1>4 DEF Consistent
  <1> QED BY <1>3, <1>5 DEF PromptInv

LEMMA FewerStayPrompt ==
    ASSUME MemoryTypeOK, PromptInv,
           \A known \in Times : PromptKnown(known)' \subseteq PromptKnown(known),
           \A a \in Present' : recorded'[a] <= now'
    PROVE  PromptInv'
  <1>1. ASSUME NEW known \in Times PROVE Consistent(PromptKnown(known)')
    <2> DEFINE S == PromptKnown(known)
               W == PromptKnown(known)'
    <2>1. S \in SUBSET Ids /\ Consistent(S) /\ W \in SUBSET S
      BY PromptKnownTyped DEF PromptInv
    <2> HIDE DEF S, W
    <2> QED BY <2>1, ConsistentIsAntitone DEF W
  <1>2. ASSUME NEW known \in Times PROVE Consistent(PromptKnown(known))'
    BY <1>1 DEF Consistent
  <1> QED BY <1>2 DEF PromptInv

LEMMA MemoryStepPrompt ==
    ASSUME MemoryTypeOK, PromptInv, [MemoryNext]_memvars
    PROVE  PromptInv'
  <1>1. CASE UNCHANGED <<graph, retracted, recorded>> /\ now' \in Int /\ now' >= now
    <2>1. \A known \in Times : PromptKnown(known)' \subseteq PromptKnown(known)
      BY <1>1 DEF PromptKnown, Present, Prompt
    <2>2. \A a \in Present : recorded[a] \in Int /\ recorded[a] <= now /\ now \in Int
      BY DEF MemoryTypeOK, PromptInv
    <2>3. \A a \in Present' : recorded'[a] <= now'
      BY <1>1, <2>2 DEF Present
    <2> QED BY <2>1, <2>3, FewerStayPrompt
  <1>2. ASSUME NEW a \in Ids, Assert(a) PROVE PromptInv'
    <2>1. PICK times \in Periods : Append(a, times)
      BY <1>2 DEF Assert
    <2>2. times \in Spans /\ now' = now
      BY <1>2, TimeAssumption DEF Assert
    <2> QED BY <2>1, <2>2, AppendStaysPrompt
  <1>3. ASSUME NEW a \in Ids, Retract(a) PROVE PromptInv'
    <2>1. /\ retracted[a] = Never /\ a \in Present /\ UNCHANGED <<now, graph, recorded>>
          /\ \A b \in Present : b # a => retracted'[b] = retracted[b]
          /\ \A known \in Times : known < Never
      BY <1>3, TimeAssumption DEF Retract, MemoryTypeOK, Never, Times
    <2>2. \A known \in Times : PromptKnown(known)' \subseteq PromptKnown(known)
      BY <2>1 DEF PromptKnown, Present, Prompt
    <2>3. \A b \in Present' : recorded'[b] <= now'
      BY <2>1 DEF Present, PromptInv
    <2> QED BY <2>2, <2>3, FewerStayPrompt
  <1>4. ASSUME NEW c \in Candidates, Promote(c) PROVE PromptInv'
    <2>1. /\ Holds[c] \in Ids /\ candidate[c].times \in Spans
          /\ Append(Holds[c], candidate[c].times) /\ now' = now
      BY <1>4, HoldsAssumption DEF Promote, MemoryTypeOK, CandidateRecords
    <2> QED BY <2>1, AppendStaysPrompt
  <1>5. ASSUME NEW c \in Candidates, Propose(c) \/ Review(c)
        PROVE  UNCHANGED <<graph, retracted, recorded, now>>
    BY <1>5 DEF Propose, Review
  <1>6. CASE MemoryTick \/ UNCHANGED memvars \/ UNCHANGED <<graph, retracted, recorded, now>>
    <2>1. now \in Int
      BY DEF MemoryTypeOK
    <2> QED BY <1>1, <1>6, <2>1 DEF MemoryTick, memvars
  <1> QED BY <1>2, <1>3, <1>4, <1>5, <1>6 DEF MemoryNext

\* Among assertions recorded when they are made, valid at all times, no view of any time,
\* known at any time, contradicts itself.
THEOREM PromptViewsAgree == MemorySpec => []PromptViewsConsistent
  <1>1. MemoryInit => PromptInv
    <2> SUFFICES ASSUME MemoryInit PROVE PromptInv
      OBVIOUS
    <2>1. Present = {}
      BY DEF MemoryInit, Present
    <2> QED BY <2>1 DEF PromptInv, PromptKnown, Consistent
  <1>2. MemoryTypeOK /\ PromptInv /\ [MemoryNext]_memvars => PromptInv'
    BY MemoryStepPrompt
  <1>3. MemoryTypeOK /\ PromptInv => PromptViewsConsistent
    BY PromptViews DEF PromptInv, PromptViewsConsistent
  <1> QED BY <1>1, <1>2, <1>3, MemoryTyped, PTL DEF MemorySpec

-----------------------------------------------------------------------------
(* Routing: the first of a finite order *)

LEMMA PrecedesOrders ==
    ASSUME NEW m \in Mappings, NEW n \in Mappings, NEW k \in Mappings
    PROVE  /\ m # n => Precedes(m, n) \/ Precedes(n, m)
           /\ Precedes(m, n) /\ Precedes(n, k) => Precedes(m, k)
  <1>1. /\ Maps[m].confidence \in Nat /\ Maps[n].confidence \in Nat /\ Maps[k].confidence \in Nat
        /\ m \in Nat /\ n \in Nat /\ k \in Nat
    BY RoutingAssumption DEF MappingContents
  <1> QED BY <1>1 DEF Precedes

FirstOf(m, S) == m \in S /\ \A n \in S \ {m} : Precedes(m, n)

\* Any mappings there are have a first: else take the fewest without one.
LEMMA FirstExists ==
    ASSUME NEW S \in SUBSET Mappings, S # {}
    PROVE  \E m \in S : FirstOf(m, S)
  <1> DEFINE T == {U \in SUBSET Mappings : U # {} /\ ~ \E m \in U : FirstOf(m, U)}
  <1> SUFFICES ASSUME T # {} PROVE FALSE
    OBVIOUS
  <1>1. IsFiniteSet(Mappings)
    BY RoutingAssumption
  <1>2. T \subseteq FiniteSubsetsOf(Mappings)
    BY <1>1, FS_Subset DEF FiniteSubsetsOf
  <1>3. PICK U \in T : \A V \in T : ~ (<<V, U>> \in StrictSubsetOrdering(Mappings))
    <2> HIDE DEF T
    <2> QED BY <1>2, WFMin, FS_StrictSubsetOrderingWellFounded
  <1>4. PICK m \in U : TRUE
    OBVIOUS
  <1> DEFINE V == U \ {m}
  <1>5. V \notin T
    BY <1>3, <1>4 DEF StrictSubsetOrdering
  <1>6. CASE V = {}
    BY <1>4, <1>6 DEF FirstOf
  <1>7. CASE V # {}
    <2>1. PICK n \in V : FirstOf(n, V)
      BY <1>5, <1>7
    <2>2. CASE Precedes(m, n)
      <3>1. FirstOf(m, U)
        BY <1>4, <2>1, <2>2, PrecedesOrders DEF FirstOf
      <3> QED BY <3>1 DEF FirstOf
    <2>3. CASE Precedes(n, m)
      <3>1. FirstOf(n, U)
        BY <1>4, <2>1, <2>3 DEF FirstOf
      <3> QED BY <3>1 DEF FirstOf
    <2> QED BY <1>4, <2>1, <2>2, <2>3, PrecedesOrders
  <1> QED BY <1>6, <1>7

-----------------------------------------------------------------------------
(* Routing *)

\* A mapping has met only digests that it was decided on while it is routable, and none
\* before it is approved.
RouteInv ==
    /\ \A m \in Mappings :
          /\ review[m] # "approved" => seen[m] = {}
          /\ review[m] = "approved" /\ m \notin drift => seen[m] \subseteq {Maps[m].digest}
    /\ decision.routes \subseteq Mappings

LEMMA WinnerIsFirst ==
    ASSUME NEW q, NEW c, Eligible(q, c) # {}
    PROVE  Winner(q, c) \in Mappings /\ FirstOf(Winner(q, c), Eligible(q, c))
  <1>1. Eligible(q, c) \in SUBSET Mappings
    BY DEF Eligible, CandidatesFor, Routable
  <1>2. \E m \in Eligible(q, c) : \A n \in Eligible(q, c) \ {m} : Precedes(m, n)
    BY <1>1, FirstExists DEF FirstOf
  <1> QED BY <1>1, <1>2 DEF Winner, FirstOf

LEMMA WinnersAre ==
    ASSUME NEW q, NEW m \in Winners(q)
    PROVE  \E c \in q.concepts :
               m = Winner(q, c) /\ Eligible(q, c) # {} /\ c \notin Ambiguous(q)
  BY DEF Winners, Uncovered

LEMMA WinnersRoutable ==
    ASSUME NEW q, NEW m \in Winners(q)
    PROVE  m \in Mappings /\ review[m] = "approved" /\ m \notin drift
  <1>1. PICK c \in q.concepts : m = Winner(q, c) /\ Eligible(q, c) # {}
    BY WinnersAre
  <1>2. m \in Eligible(q, c)
    BY <1>1, WinnerIsFirst DEF FirstOf
  <1> QED BY <1>2 DEF Eligible, CandidatesFor, Routable

\* What detect_drift() does to a mapping.
LEMMA DriftKeeps ==
    ASSUME RoutingTypeOK, RouteInv, NEW a \in Assets, DetectDrift(a), NEW m \in Mappings
    PROVE  /\ review'[m] = review[m]
           /\ review'[m] # "approved" => seen'[m] = {}
           /\ review'[m] = "approved" /\ m \notin drift' => seen'[m] \subseteq {Maps[m].digest}
  <1>1. /\ review' = review
        /\ drift' = drift \cup {k \in ApprovedOf(a) : Drifted(k)}
        /\ seen'[m] = IF m \in ApprovedOf(a) THEN seen[m] \cup {schema[a]} ELSE seen[m]
    BY DEF DetectDrift
  <1>2. CASE m \in ApprovedOf(a)
    <2>1. review[m] = "approved" /\ Maps[m].asset = a
      BY <1>2 DEF ApprovedOf
    <2>2. m \notin drift' => m \notin drift /\ schema[a] = Maps[m].digest
      BY <1>1, <1>2, <2>1 DEF Drifted
    <2> QED BY <1>1, <1>2, <2>1, <2>2 DEF RouteInv
  <1>3. CASE m \notin ApprovedOf(a)
    BY <1>1, <1>3 DEF RouteInv
  <1> QED BY <1>2, <1>3

LEMMA RoutingStepTyped ==
    ASSUME RoutingTypeOK, RouteInv, [RoutingNext]_routevars
    PROVE  RoutingTypeOK' /\ RouteInv'
  <1>1. CASE UNCHANGED routevars
    BY <1>1 DEF routevars, governed, routed, RoutingTypeOK, RouteInv
  <1>2. CASE RoutingTick
    BY <1>2, RoutingAssumption
       DEF RoutingTick, governed, routed, RoutingTypeOK, RouteInv, Instants
  <1>3. ASSUME NEW m \in Mappings, ProposeMapping(m) PROVE RoutingTypeOK' /\ RouteInv'
    <2>1. /\ UNCHANGED <<clock, schema, drift, seen, observed, routed>>
          /\ review' = [review EXCEPT ![m] = "proposed"] /\ review[m] = "none"
      BY <1>3 DEF ProposeMapping
    <2>2. RoutingTypeOK'
      BY <2>1 DEF RoutingTypeOK, routed, ReviewStates
    <2>3. RouteInv'
      BY <2>1 DEF RoutingTypeOK, RouteInv, routed
    <2> QED BY <2>2, <2>3
  <1>4. ASSUME NEW m \in Mappings, ReviewMapping(m) PROVE RoutingTypeOK' /\ RouteInv'
    <2>1. PICK s \in Reviews : review' = [review EXCEPT ![m] = s]
      BY <1>4 DEF ReviewMapping
    <2>2. UNCHANGED <<clock, schema, drift, seen, observed, routed>> /\ review[m] = "proposed"
      BY <1>4 DEF ReviewMapping
    <2>3. RoutingTypeOK'
      BY <2>1, <2>2 DEF RoutingTypeOK, routed, ReviewStates, Reviews
    <2>4. seen[m] = {}
      BY <2>2 DEF RouteInv
    <2>5. RouteInv'
      BY <2>1, <2>2, <2>4 DEF RoutingTypeOK, RouteInv, routed
    <2> QED BY <2>3, <2>5
  <1>5. ASSUME NEW a \in Assets, ChangeSchema(a) PROVE RoutingTypeOK' /\ RouteInv'
    BY <1>5 DEF ChangeSchema, RoutingTypeOK, RouteInv, routed
  <1>6. ASSUME NEW a \in Assets, DetectDrift(a) PROVE RoutingTypeOK' /\ RouteInv'
    <2>1. UNCHANGED <<clock, schema, review, observed, routed>>
      BY <1>6 DEF DetectDrift
    <2>2. drift' \subseteq Mappings
      BY <1>6 DEF DetectDrift, ApprovedOf, RoutingTypeOK
    <2>3. seen' \in [Mappings -> SUBSET Digests]
      BY <1>6 DEF DetectDrift, RoutingTypeOK
    <2>4. RoutingTypeOK'
      BY <2>1, <2>2, <2>3 DEF RoutingTypeOK, routed
    <2>5. RouteInv'
      BY <1>6, <2>1, DriftKeeps DEF RouteInv, routed
    <2> QED BY <2>4, <2>5
  <1>7. ASSUME NEW a \in Assets, Observe(a) PROVE RoutingTypeOK' /\ RouteInv'
    BY <1>7 DEF Observe, RoutingTypeOK, RouteInv, routed, governed
  <1>8. ASSUME NEW q \in Requests, Route(q) PROVE RoutingTypeOK' /\ RouteInv'
    <2>1. /\ decision'.status = RouteStatus(q)
          /\ decision'.routes = IF RouteStatus(q) = "selected" THEN Winners(q) ELSE {}
          /\ answer' = NoAnswer
          /\ UNCHANGED <<clock, governed, observed>>
      BY <1>8 DEF Route
    <2>2. RouteStatus(q) \in RouteStatuses
      BY DEF RouteStatus, RouteStatuses
    <2>3. decision'.routes \subseteq Mappings
      BY <2>1, WinnersRoutable
    <2> QED BY <2>1, <2>2, <2>3 DEF RoutingTypeOK, RouteInv, governed
  <1>9. CASE ConcludeAnswer \/ ConcludeWithout
    <2>1. UNCHANGED <<clock, governed, observed, decision>>
      BY <1>9 DEF ConcludeAnswer, ConcludeWithout
    <2>2. answer' \in Envelopes
      BY <1>9 DEF ConcludeAnswer, ConcludeWithout, NoAnswer, Envelopes
    <2> QED BY <2>1, <2>2 DEF RoutingTypeOK, RouteInv, governed
  <1> QED BY <1>1, <1>2, <1>3, <1>4, <1>5, <1>6, <1>7, <1>8, <1>9 DEF RoutingNext

LEMMA RoutingInitTyped == RoutingInit => RoutingTypeOK /\ RouteInv
  BY RoutingAssumption
     DEF RoutingInit, RoutingTypeOK, RouteInv, Instants, ReviewStates, NoDecision

LEMMA RoutingTyped == RoutingSpec => [](RoutingTypeOK /\ RouteInv)
  <1>1. RoutingTypeOK /\ RouteInv /\ [RoutingNext]_routevars => (RoutingTypeOK /\ RouteInv)'
    BY RoutingStepTyped
  <1> QED BY <1>1, RoutingInitTyped, PTL DEF RoutingSpec

\* A selected route has a winner for each concept that nothing admissible comes near.
LEMMA SelectedCovers ==
    ASSUME NEW q \in Requests, RouteStatus(q) = "selected", NEW c \in q.concepts
    PROVE  \E m \in Winners(q) :
               /\ Maps[m].concept = c
               /\ \A n \in Eligible(q, c) \ {m} :
                     Maps[m].confidence > Maps[n].confidence + q.delta
  <1>1. Ambiguous(q) = {} /\ Uncovered(q) = {}
    BY DEF RouteStatus
  <1>2. Eligible(q, c) # {}
    BY <1>1 DEF Uncovered
  <1> DEFINE m == Winner(q, c)
  <1>3. m \in Winners(q) /\ m \in Eligible(q, c) /\ m \in Mappings
    BY <1>1, <1>2, WinnerIsFirst DEF Winners, FirstOf
  <1>4. Maps[m].concept = c
    BY <1>3 DEF Eligible, CandidatesFor
  <1>5. ASSUME NEW n \in Eligible(q, c) \ {m}
        PROVE  Maps[m].confidence > Maps[n].confidence + q.delta
    <2>1. ~ (Maps[m].confidence - Maps[n].confidence <= q.delta)
      BY <1>1, <1>3 DEF Ambiguous
    <2>2. n \in Mappings
      BY DEF Eligible, CandidatesFor, Routable
    <2>3. Maps[m].confidence \in Nat /\ Maps[n].confidence \in Nat /\ q.delta \in Nat
      BY <1>3, <2>2, RoutingAssumption DEF MappingContents, ValidRequest
    <2> HIDE DEF m
    <2> QED BY <2>1, <2>3
  <1> HIDE DEF m
  <1> QED BY <1>3, <1>4, <1>5

LEMMA RouteIsGoverned ==
    ASSUME RoutingTypeOK, RouteInv, NEW q \in Requests, Route(q)
    PROVE  /\ \A m \in decision'.routes :
                 /\ review[m] = "approved" /\ seen[m] \subseteq {Maps[m].digest}
                 /\ m \notin decision'.degraded =>
                       Fresh(Maps[m].asset, decision'.request.maxAge, clock)
           /\ decision'.status = "selected" =>
                 \A c \in decision'.request.concepts :
                     \E m \in decision'.routes :
                         /\ Maps[m].concept = c
                         /\ \A n \in Eligible(decision'.request, c) \ {m} :
                               Maps[m].confidence
                                   > Maps[n].confidence + decision'.request.delta
  <1>1. /\ decision'.status = RouteStatus(q) /\ decision'.request = q
        /\ decision'.routes = IF RouteStatus(q) = "selected" THEN Winners(q) ELSE {}
        /\ decision'.degraded = IF RouteStatus(q) = "selected"
                                THEN {m \in Winners(q) : ~ FreshFor(q, m)} ELSE {}
    BY DEF Route
  <1>2. ASSUME NEW m \in decision'.routes
        PROVE  /\ review[m] = "approved" /\ seen[m] \subseteq {Maps[m].digest}
               /\ m \notin decision'.degraded => Fresh(Maps[m].asset, q.maxAge, clock)
    <2>1. RouteStatus(q) = "selected" /\ m \in Winners(q)
      BY <1>1, <1>2
    <2>2. m \in Mappings /\ review[m] = "approved" /\ m \notin drift
      BY <2>1, WinnersRoutable
    <2>3. ASSUME m \notin decision'.degraded
          PROVE  Fresh(Maps[m].asset, q.maxAge, clock)
      BY <1>1, <2>1, <2>3 DEF FreshFor
    <2> QED BY <2>2, <2>3 DEF RouteInv
  <1> QED BY <1>1, <1>2, SelectedCovers

\* Every decision of the router rests on approved mappings that never met another digest
\* and, unless marked, on fresh assets; a selected route covers every concept without
\* ambiguity.
THEOREM RoutesGoverned == RoutingSpec => RoutesAreGoverned
  <1>1. RoutingTypeOK /\ RouteInv /\ [RoutingNext]_routevars =>
            [decision' # decision =>
               /\ \A m \in decision'.routes :
                     /\ review[m] = "approved" /\ seen[m] \subseteq {Maps[m].digest}
                     /\ m \notin decision'.degraded =>
                           Fresh(Maps[m].asset, decision'.request.maxAge, clock)
               /\ decision'.status = "selected" =>
                     \A c \in decision'.request.concepts :
                         \E m \in decision'.routes :
                             /\ Maps[m].concept = c
                             /\ \A n \in Eligible(decision'.request, c) \ {m} :
                                   Maps[m].confidence
                                       > Maps[n].confidence + decision'.request.delta
            ]_routevars
    <2> SUFFICES ASSUME RoutingTypeOK, RouteInv, RoutingNext, decision' # decision
                 PROVE  \E q \in Requests : Route(q)
      BY RouteIsGoverned
    <2> QED
      BY DEF RoutingNext, RoutingTick, ProposeMapping, ReviewMapping, ChangeSchema,
             DetectDrift, Observe, ConcludeAnswer, ConcludeWithout, routed
  <1> QED BY <1>1, RoutingTyped, PTL DEF RoutingSpec, RoutesAreGoverned

-----------------------------------------------------------------------------
(* The composition *)

LEMMA KnowledgeHasParts ==
    KnowledgeSpec => MemorySpec /\ RoutingSpec /\ LedgerSpec
  <1>1. KnowledgeInit => MemoryInit /\ RoutingInit /\ LedgerInit
    BY DEF KnowledgeInit
  <1>2. [KnowledgeNext]_<<memvars, routevars, ledgervars, part>> =>
            [MemoryNext]_memvars /\ [RoutingNext]_routevars /\ [LedgerNext]_ledgervars
    BY DEF KnowledgeNext
  <1> QED BY <1>1, <1>2, PTL DEF KnowledgeSpec, MemorySpec, RoutingSpec, LedgerSpec

\* The graph, the memory, the routing tables and the checkpoint ledger hold only what the
\* code may put there.
THEOREM KnowledgeTyped == KnowledgeSpec => []KnowledgeTypeOK
  <1>1. MemoryTypeOK /\ RoutingTypeOK /\ LedgerTypeOK => KnowledgeTypeOK
    BY DEF KnowledgeTypeOK
  <1> QED BY <1>1, KnowledgeHasParts, MemoryTyped, RoutingTyped, LedgerTyped, PTL

\* THEOREM: in the composition that TLC checks too, no view of prompt assertions contradicts
\* itself, memory and routes rest on what was approved, and streams resume from the furthest
\* of their tokens
\* (semantic.py, semantic_memory.py, routing.py, freshness.py).
THEOREM KnowledgeGoverned ==
    KnowledgeSpec => /\ [](MemoryIsGoverned /\ PromptViewsConsistent /\ ResumesFromFurthest)
                     /\ PresentStaysConsistent /\ RoutesAreGoverned
  BY KnowledgeHasParts, MemoryGoverned, PromptViewsAgree, PresentIsKeptConsistent, RoutesGoverned,
     ResumesFromFurthestHolds, PTL
=============================================================================
