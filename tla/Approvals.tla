------------------------------ MODULE Approvals -----------------------------
(***************************************************************************)
(* Previews and human approvals of one deployment (actions.py): the lab's  *)
(* HMAC authority issues approvals, they reach the gateway through other   *)
(* hands, and the gateway checks preview and approval before it executes   *)
(* or compensates (_validate_preview, _validate_approval, verify).         *)
(*                                                                         *)
(* Abstractions: the digest of an action is the action; organisation,      *)
(* solution, agent and request of an identity are one scope; a signature   *)
(* is what it covers, and nobody but the authority makes one.              *)
(***************************************************************************)
EXTENDS Integers, FiniteSets

CONSTANTS
    Actions, Approvers,     \* action plans; human approvers
    Identities, Policies,   \* an identity acts under a policy digest
    LastHour,               \* the clock stops there
    MaxIssued               \* approvals issued

ASSUME ApprovalsAssumption == LastHour \in Nat /\ MaxIssued \in Nat

VARIABLES
    hour,
    previews,   \* the preview that callers hold: action, policy, until
    issued,     \* approvals issued, with the scope they were issued for (history)
    accepted    \* what the gateway accepted in the last step, if anything

approvalvars == <<hour, previews, issued, accepted>>

Hours == 0..LastHour + 1
Terms == [action : Actions, approver : Approvers, policy : Policies, from : Hours, until : Hours,
          undo : BOOLEAN]

\* ActionPreview, allowed
Previews == [action : Actions, policy : Policies, until : Hours]

ApprovalsTypeOK ==
    /\ hour \in 0..LastHour
    /\ previews \subseteq Previews
    /\ Cardinality(previews) <= 1 /\ Cardinality(issued) <= MaxIssued
    /\ Cardinality(accepted) <= 1

ApprovalsInit == hour = 0 /\ previews = {} /\ issued = {} /\ accepted = {}

ClockTicks ==
    /\ hour < LastHour /\ hour' = hour + 1
    /\ accepted' = {} /\ UNCHANGED <<previews, issued>>

\* ActionGateway.preview(), allowed; it holds for an hour.
PreviewAction(a, policy) ==
    /\ previews' = {[action |-> a, policy |-> policy, until |-> hour + 1]}
    /\ accepted' = {} /\ UNCHANGED <<hour, issued>>

\* Broken variant: leave to compensate is not signed.
SignatureWithoutUndo(terms, scope) ==
    [terms |-> [terms EXCEPT !.undo = FALSE], scope |-> scope]

\* HmacApprovalAuthority._signature().
Signature(terms, scope) == [terms |-> terms, scope |-> scope]

\* issue(); ActionApproval refuses an approver that is not human and an empty window.
Issue(terms, scope) ==
    /\ Cardinality(issued) < MaxIssued
    /\ terms.from < terms.until
    /\ issued' = issued \cup {[terms |-> terms, scope |-> scope]}
    /\ accepted' = {} /\ UNCHANGED <<hour, previews>>

InForce(terms) == terms.from <= hour /\ hour < terms.until

\* verify(): an approval is the terms it states and a signature.
Verifies(terms, signature, a, scope, policy, undo) ==
    /\ signature = Signature(terms, scope)
    /\ terms.action = a /\ terms.policy = policy
    /\ InForce(terms)
    /\ undo => terms.undo

Previewed(a, policy) ==
    \E p \in previews : p.action = a /\ p.policy = policy /\ hour < p.until

\* execute() and compensate() of an action that needs approval.  The terms that arrive
\* may be others than were issued; a compensation is not previewed again.
Present(terms, i, a, scope, policy, undo) ==
    /\ Verifies(terms, Signature(i.terms, i.scope), a, scope, policy, undo)
    /\ undo \/ Previewed(a, policy)
    /\ accepted' = {[action |-> a, scope |-> scope, policy |-> policy, at |-> hour,
                     undo |-> undo, approver |-> terms.approver]}
    /\ UNCHANGED <<hour, previews, issued>>

ApprovalsNext ==
    \/ ClockTicks
    \/ \E a \in Actions, p \in Policies : PreviewAction(a, p)
    \/ \E t \in Terms, s \in Identities : Issue(t, s)
    \/ \E t \in Terms, i \in issued, a \in Actions, s \in Identities, p \in Policies,
          u \in BOOLEAN : Present(t, i, a, s, p, u)

ApprovalsSpec == ApprovalsInit /\ [][ApprovalsNext]_approvalvars

-----------------------------------------------------------------------------
(* Properties *)

\* Whatever became of an approval on its way, an action is executed or compensated only
\* as a human approved it: that action, for that identity and policy, at a time within
\* the approval's window, and compensated only if the approval says so (verify()).
AcceptedWasApproved ==
    \A x \in accepted : \E i \in issued :
        /\ i.terms.approver = x.approver /\ i.terms.action = x.action /\ i.scope = x.scope
        /\ i.terms.policy = x.policy
        /\ i.terms.from <= x.at /\ x.at < i.terms.until
        /\ x.undo => i.terms.undo
=============================================================================
