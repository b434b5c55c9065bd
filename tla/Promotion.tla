------------------------------ MODULE Promotion -----------------------------
(***************************************************************************)
(* Readiness of a lab for promotion (promotion.py), over evidence that     *)
(* comes in in some order, several pieces of a kind.                       *)
(*                                                                         *)
(* Abstractions: evidence is its kind and status; the compatibility        *)
(* matrix is the components it lists, in order, and those that are         *)
(* compatible; identities, revisions and digests are well formed.          *)
(***************************************************************************)
EXTENDS Naturals, Sequences, FiniteSets

CONSTANTS
    EvidenceKinds,   \* EvidenceKind, all of them REQUIRED
    MaxEvidence,     \* most pieces of evidence
    MatrixComponents

VARIABLES
    evidence,   \* pieces, in the order in which evaluate() is given them
    matrix      \* entries: component and whether it is compatible

promotionvars == <<evidence, matrix>>

Statuses == {"passed", "failed", "missing"}
Entries == [component : MatrixComponents, compatible : BOOLEAN]

PromotionStarts(m) == evidence = <<>> /\ matrix = m

PromotionInit ==
    \E m \in {<<>>} \cup {<<a>> : a \in Entries} \cup {<<a, b>> : a, b \in Entries} :
        PromotionStarts(m)

AddEvidence(k, s) ==
    /\ Len(evidence) < MaxEvidence
    /\ evidence' = Append(evidence, [kind |-> k, status |-> s])
    /\ UNCHANGED matrix

PromotionNext == \E k \in EvidenceKinds, s \in Statuses : AddEvidence(k, s)

PromotionSpec == PromotionInit /\ [][PromotionNext]_promotionvars

Compatible ==
    /\ matrix # <<>>
    /\ \A i, j \in DOMAIN matrix : matrix[i].component = matrix[j].component => i = j
    /\ \A i \in DOMAIN matrix : matrix[i].compatible

PiecesOf(k) == {i \in DOMAIN evidence : evidence[i].kind = k}

\* by_kind: a later piece replaces the former ones of its kind.
Standing(k) == {evidence[i] : i \in {j \in PiecesOf(k) : \A l \in PiecesOf(k) : l <= j}}

FailedKinds == {k \in EvidenceKinds : \E e \in Standing(k) : e.status = "failed"}
MissingKinds == {k \in EvidenceKinds : \A e \in Standing(k) : e.status = "missing"}

\* evaluate().
Ready == MissingKinds = {} /\ FailedKinds = {} /\ Compatible

-----------------------------------------------------------------------------
(* Properties *)

\* In whatever order evidence comes in, readiness needs of every kind a pass that
\* nothing of its kind came after: a later failure is not hidden by an earlier pass (an
\* earlier failure is hidden by a later pass), and no component of the matrix is listed
\* both as compatible and as not (evaluate()).
NoLaterFailureHidden ==
    Ready => /\ \A k \in EvidenceKinds : \E i \in PiecesOf(k) :
                    evidence[i].status = "passed" /\ \A j \in PiecesOf(k) : j <= i
             /\ \A e \in Entries : (\E i \in DOMAIN matrix : matrix[i] = e) => e.compatible
=============================================================================
