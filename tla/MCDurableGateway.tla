-------------------------- MODULE MCDurableGateway --------------------------
(***************************************************************************)
(* Small instances of DurableGateway for TLC.                              *)
(***************************************************************************)
EXTENDS DurableGateway, TLC

CONSTANTS c1, c2, c3, p1, p2, a1, a2, k1, i1, i2

(* One gateway process. *)
OneProcess == [c \in Calls |-> p1]

(* Two gateway processes on one journal file. *)
TwoProcesses == [c \in Calls |-> IF c = c2 THEN p2 ELSE p1]

(* Plans that contend for one idempotency key. *)
OneKey == [a \in Actions |-> k1]

OwnIds == [a \in Actions |-> IF a = a2 THEN i2 ELSE i1]

CallSymmetry == Permutations(Calls)
=============================================================================
