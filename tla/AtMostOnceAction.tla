-------------------------- MODULE AtMostOnceAction --------------------------
(***************************************************************************)
(* What a durable source action promises, seen from the source: an         *)
(* idempotency key is bound to one action for ever, the bound action is    *)
(* sent to the source at most once, and takes effect there at most once    *)
(* and only after it was sent.  How a gateway achieves this (a journal,    *)
(* crashes, reconciliation) is not visible here; DurableGateway is shown   *)
(* to implement this module.                                               *)
(***************************************************************************)
EXTENDS Naturals

CONSTANTS
    Keys,       \* idempotency keys, each already paired with its source
    Actions,    \* action plans, told apart by their digests
    KeyOf,      \* the key each plan carries
    None        \* "no action"

VARIABLES
    binding,    \* binding[k]: the action the key is bound to
    sends,      \* sends[k]: mutation requests sent to the source for the key
    effect      \* effect[k]: the action the source has applied under the key

vars == <<binding, sends, effect>>

Init ==
    /\ binding = [k \in Keys |-> None]
    /\ sends = [k \in Keys |-> 0]
    /\ effect = [k \in Keys |-> None]

\* The first action presented under a key owns it.
Bind(a) ==
    /\ binding[KeyOf[a]] = None
    /\ binding' = [binding EXCEPT ![KeyOf[a]] = a]
    /\ UNCHANGED <<sends, effect>>

\* The bound action leaves for the source, once.
Send(k) ==
    /\ binding[k] # None
    /\ sends[k] = 0
    /\ sends' = [sends EXCEPT ![k] = 1]
    /\ UNCHANGED <<binding, effect>>

\* The source applies what it was sent, once.
Apply(k) ==
    /\ sends[k] = 1
    /\ effect[k] = None
    /\ effect' = [effect EXCEPT ![k] = binding[k]]
    /\ UNCHANGED <<binding, sends>>

Next ==
    \/ \E a \in Actions : Bind(a)
    \/ \E k \in Keys : Send(k) \/ Apply(k)

Spec == Init /\ [][Next]_vars
=============================================================================
