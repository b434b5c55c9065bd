--------------------------- MODULE SemanticMemory ---------------------------
(***************************************************************************)
(* Semantic assertions about the identity of entities (semantic.py,        *)
(* AssertionGraph) and the governed promotion of candidates into shared    *)
(* memory (semantic_memory.py, GovernedSemanticMemory).                    *)
(*                                                                         *)
(* An assertion says of two entities that they are the same or not, is     *)
(* asserted at a time and valid over a period; a retraction takes effect   *)
(* at a time of its own.  Whoever builds an assertion or a retraction      *)
(* chooses its times: before, at or after the time it is recorded.         *)
(*                                                                         *)
(* Abstractions: time is a small number; what an assertion is about is a   *)
(* constant, its times are not; predicate MENTIONS, which no check looks   *)
(* at, is left out, and so are the scopes of view(), which changes nothing; *)
(* a reviewer without a time of review is no reviewer, for promote() wants *)
(* both.                                                                   *)
(***************************************************************************)
EXTENDS Integers, FiniteSets

CONSTANTS
    Entities,
    Ids,          \* assertion identities
    Says,         \* what each assertion says: subject, predicate, object
    Candidates,   \* candidate identities
    Holds,        \* the assertion that a candidate is about
    People,       \* proposers and reviewers
    Nobody,       \* no reviewer
    Humans,       \* identities of human reviewers
    Stances,      \* the statuses that candidates come with
    Periods,      \* the times that assertions come with
    LastTime      \* bound: the clock stops here

Never == LastTime + 2   \* no valid_to, no retraction
Times == 0..LastTime + 1

Spans == [asserted : Times, from : Times, to : Times \cup {Never}]

Predicates == {"same_as", "not_same_as"}
CandidateStatuses == {"proposed", "approved", "rejected", "promoted"}
Reviewers == People \cup {Nobody}

ASSUME SaysAssumption ==
    Says \in [Ids -> [subject : Entities, predicate : Predicates, object : Entities]]
ASSUME HoldsAssumption == Holds \in [Candidates -> Ids]
ASSUME TimeAssumption == LastTime \in Nat /\ Periods \subseteq Spans
ASSUME StancesAssumption == Stances \subseteq CandidateStatuses
ASSUME HumansAssumption == Humans \subseteq People /\ People # {} /\ Nobody \notin People

\* AssertionRetraction, SemanticMemoryCandidate.
Retractions == Times \cup {Never}
CandidateRecords == [status : CandidateStatuses \cup {"none"}, by : People,
                     reviewer : Reviewers, times : Spans]

VARIABLES
    now,         \* the wall clock
    graph,       \* _assertions: the times of each recorded assertion
    retracted,   \* _retractions: when each recorded assertion is retracted
    recorded,    \* when each assertion was appended (history)
    candidate,   \* _candidates: status, proposer, reviewer and assertion times
    memory,      \* _promoted: promoted_by of each promoted candidate
    claimed,     \* by whom each candidate was approved when it came (history)
    judged       \* who approved each candidate through review() (history)

memvars == <<now, graph, retracted, recorded, candidate, memory, claimed, judged>>

Present == DOMAIN graph

NoCandidate(p) == [status |-> "none", by |-> p, reviewer |-> Nobody,
                   times |-> [asserted |-> 0, from |-> 0, to |-> Never]]

MemoryTypeOK ==
    /\ now \in 0..LastTime
    /\ Present \subseteq Ids /\ graph \in [Present -> Spans]
    /\ retracted \in [Present -> Retractions]
    /\ recorded \in [Present -> 0..LastTime]
    /\ candidate \in [Candidates -> CandidateRecords]
    /\ DOMAIN memory \subseteq Candidates /\ \A c \in DOMAIN memory : memory[c] \in People
    /\ claimed \in [Candidates -> Reviewers] /\ judged \in [Candidates -> Reviewers]

MemoryInit ==
    /\ now = 0
    /\ graph = <<>> /\ retracted = <<>> /\ recorded = <<>>
    /\ candidate = [c \in Candidates |-> NoCandidate(CHOOSE p \in People : TRUE)]
    /\ memory = <<>>
    /\ claimed = [c \in Candidates |-> Nobody]
    /\ judged = [c \in Candidates |-> Nobody]

-----------------------------------------------------------------------------
(* AssertionGraph *)

\* The assertions valid at one time as they were known at another.
Active(valid, known) ==
    {a \in Present : /\ graph[a].asserted <= known /\ known < retracted[a]
                     /\ graph[a].from <= valid /\ valid < graph[a].to}

Linked(S) == {<<Says[a].subject, Says[a].object>> :
                 a \in {b \in S : Says[b].predicate = "same_as"}}

\* The entities that the assertions S identify with e: those that no set closed
\* under S separates from e.
ClusterOf(e, S) ==
    LET closed == {C \in SUBSET Entities : \A l \in Linked(S) : l[1] \in C <=> l[2] \in C}
    IN {f \in Entities : \A C \in closed : e \in C => f \in C}

Cluster(e) == ClusterOf(e, Active(now, now))

Denied(left, right) ==
    \E a \in Active(now, now) :
        /\ Says[a].predicate = "not_same_as"
        /\ \/ Says[a].subject \in left /\ Says[a].object \in right
           \/ Says[a].subject \in right /\ Says[a].object \in left

\* Broken variant: only the named entities are looked at, not their clusters.
DirectlyContradicts(a) ==
    LET s == Says[a].subject
        o == Says[a].object
    IN \/ Says[a].predicate = "not_same_as" /\ o \in Cluster(s)
       \/ Says[a].predicate = "same_as" /\ Denied({s}, {o})

Contradicts(a) ==
    LET left == Cluster(Says[a].subject)
        right == Cluster(Says[a].object)
    IN \/ Says[a].predicate = "not_same_as" /\ Says[a].object \in left
       \/ Says[a].predicate = "same_as" /\ Denied(left, right)

WellFormed(times) == times.from < times.to

Add(f, k, v) == [x \in DOMAIN f \cup {k} |-> IF x = k THEN v ELSE f[x]]

\* Broken variant: the assertion has no entry among the retractions.
AppendUntracked(a, times) ==
    /\ a \notin Present /\ ~ Contradicts(a)
    /\ graph' = Add(graph, a, times)
    /\ recorded' = Add(recorded, a, now)
    /\ UNCHANGED retracted

\* append(), and the exceptions of the assertion's own checks.
Append(a, times) ==
    /\ WellFormed(times) /\ ~ (Says[a].predicate = "not_same_as"
                               /\ Says[a].subject = Says[a].object)
    /\ a \notin Present /\ ~ Contradicts(a)
    /\ graph' = Add(graph, a, times)
    /\ retracted' = Add(retracted, a, Never)
    /\ recorded' = Add(recorded, a, now)

Assert(a) ==
    /\ \E times \in Periods : Append(a, times)
    /\ UNCHANGED <<now, candidate, memory, claimed, judged>>

\* Broken variant: an assertion can be retracted again, at a later time.
RetractAgain(a) ==
    /\ a \in Present
    /\ \E t \in Times : t >= graph[a].asserted /\ retracted' = [retracted EXCEPT ![a] = t]
    /\ UNCHANGED <<now, graph, recorded, candidate, memory, claimed, judged>>

Retract(a) ==
    /\ a \in Present /\ retracted[a] = Never
    /\ \E t \in Times : t >= graph[a].asserted /\ retracted' = [retracted EXCEPT ![a] = t]
    /\ UNCHANGED <<now, graph, recorded, candidate, memory, claimed, judged>>

-----------------------------------------------------------------------------
(* GovernedSemanticMemory *)

\* propose() keeps the status and the reviewer that the candidate comes with.
Propose(c) ==
    /\ candidate[c].status = "none"
    /\ \E p \in People, times \in Periods, s \in Stances, r \in Reviewers :
          /\ WellFormed(times)
          /\ candidate' = [candidate EXCEPT ![c] =
                [status |-> s, by |-> p, reviewer |-> r, times |-> times]]
          /\ claimed' = [claimed EXCEPT ![c] = IF s = "approved" THEN r ELSE Nobody]
    /\ UNCHANGED <<now, graph, retracted, recorded, memory, judged>>

Review(c) ==
    /\ candidate[c].status = "proposed"
    /\ \E h \in Humans, s \in {"approved", "rejected"} :
          /\ candidate' = [candidate EXCEPT ![c].status = s, ![c].reviewer = h]
          /\ judged' = [judged EXCEPT ![c] = IF s = "approved" THEN h ELSE Nobody]
    /\ UNCHANGED <<now, graph, retracted, recorded, memory, claimed>>

\* Broken variant: the status is not looked at, only whether there is a reviewer.
PromoteReviewed(c) ==
    /\ candidate[c].status \in {"proposed", "approved", "rejected"}
    /\ candidate[c].reviewer # Nobody
    /\ Append(Holds[c], candidate[c].times)
    /\ memory' = Add(memory, c, candidate[c].reviewer)
    /\ candidate' = [candidate EXCEPT ![c].status = "promoted"]
    /\ UNCHANGED <<now, claimed, judged>>

\* A contradiction, and an approved candidate without a reviewer, stay as they are.
Promote(c) ==
    /\ candidate[c].status = "approved" /\ candidate[c].reviewer # Nobody
    /\ Append(Holds[c], candidate[c].times)
    /\ memory' = Add(memory, c, candidate[c].reviewer)
    /\ candidate' = [candidate EXCEPT ![c].status = "promoted"]
    /\ UNCHANGED <<now, claimed, judged>>

MemoryTick == now < LastTime /\ now' = now + 1
              /\ UNCHANGED <<graph, retracted, recorded, candidate, memory, claimed, judged>>

MemoryNext ==
    \/ MemoryTick
    \/ \E a \in Ids : Assert(a) \/ Retract(a)
    \/ \E c \in Candidates : Propose(c) \/ Review(c) \/ Promote(c)

MemorySpec == MemoryInit /\ [][MemoryNext]_memvars

-----------------------------------------------------------------------------
(* Properties *)

Consistent(S) ==
    \A a \in S : Says[a].predicate = "not_same_as" =>
        Says[a].object \notin ClusterOf(Says[a].subject, S)

\* Asserted when it is recorded, about all times.
Prompt(a) == graph[a] = [asserted |-> recorded[a], from |-> 0, to |-> Never]

\* Among assertions that are recorded when they are made and hold for all times, no
\* view of any time, known at any time, contradicts itself, whatever was retracted
\* meanwhile and with effect from whenever (append(), retract(), active()).
PromptViewsConsistent ==
    \A known \in Times : Consistent({a \in Active(now, known) : Prompt(a)})

\* Whatever times assertions carry, neither append() nor retract() turns a present
\* without contradiction into one with a contradiction; only time does.
PresentStaysConsistent ==
    [][now' = now /\ Consistent(Active(now, now)) => Consistent(Active(now, now))']_memvars

\* What is in shared memory was approved by the one it names: by a human through review(),
\* once it had been proposed, or else the candidate already came with that approval, which
\* propose() does not question, although docs/testing/phase-4-gates.md:22 says that
\* "unreviewed/self-reviewed promotion is denied"; nor does review() ask who proposed it.  Nothing rejected, undecided or without a reviewer gets
\* in, and each entry stays in the graph with the times that were approved (promote()).
MemoryIsGoverned ==
    \A c \in DOMAIN memory :
        /\ candidate[c].status = "promoted"
        /\ \/ judged[c] = memory[c] /\ memory[c] \in Humans /\ claimed[c] = Nobody
           \/ claimed[c] = memory[c] /\ memory[c] # Nobody /\ judged[c] = Nobody
        /\ Holds[c] \in Present /\ graph[Holds[c]] = candidate[c].times
=============================================================================
