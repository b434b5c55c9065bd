-------------------------- MODULE CoveragePromise --------------------------
(***************************************************************************)
(* What a coverage statement promises (coverage.py; SourceExecutionPlan,   *)
(* expected_sources): each source that a request expects is settled once,  *)
(* as covered or as excluded, and a statement is made when all are; it     *)
(* names the covered ones and the others, and claims to be complete        *)
(* exactly when every expected source is covered.  A request may also end  *)
(* without a statement.                                                    *)
(***************************************************************************)
CONSTANTS Requests, Expected   \* the sources that each request expects

VARIABLES fate, statement

Fates == {"pending", "covered", "excluded"}

Says(kind, covered, excluded) == [kind |-> kind, covered |-> covered, excluded |-> excluded]
Unstated == Says("none", {}, {})
Aborted == Says("aborted", {}, {})
With(q, f) == {s \in Expected[q] : fate[q][s] = f}

Init ==
    /\ fate = [q \in Requests |-> [s \in Expected[q] |-> "pending"]]
    /\ statement = [q \in Requests |-> Unstated]

Settle(q, s) ==
    /\ fate[q][s] = "pending"
    /\ \E f \in {"covered", "excluded"} : fate' = [fate EXCEPT ![q][s] = f]
    /\ UNCHANGED statement

State(q) ==
    /\ statement[q] = Unstated
    /\ With(q, "pending") = {}
    /\ statement' = [statement EXCEPT ![q] =
           Says(IF With(q, "excluded") = {} THEN "complete" ELSE "partial",
                With(q, "covered"), With(q, "excluded"))]
    /\ UNCHANGED fate

\* No statement: the request ends, whatever is still pending with it.
Abort(q) ==
    /\ statement[q] = Unstated
    /\ statement' = [statement EXCEPT ![q] = Aborted]
    /\ \E f \in [Expected[q] -> Fates] :
          /\ \A s \in Expected[q] : fate[q][s] = "pending" \/ f[s] = fate[q][s]
          /\ fate' = [fate EXCEPT ![q] = f]

Next == \E q \in Requests : State(q) \/ Abort(q) \/ \E s \in Expected[q] : Settle(q, s)

Spec == Init /\ [][Next]_<<fate, statement>>
=============================================================================
