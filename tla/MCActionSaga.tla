---------------------------- MODULE MCActionSaga ----------------------------
(***************************************************************************)
(* Small instances of ActionSaga for TLC.                                  *)
(***************************************************************************)
EXTENDS ActionSaga, TLC

CONSTANTS r1, r2, r3, a1, a2, a3, k1, k2, i1, i2, i3

(* Sagas that share steps, in different orders. *)
SharedSteps ==
    [r \in Runs |-> CASE r = r1 -> <<a1, a2, a3>> [] r = r2 -> <<a2, a1>> [] OTHER -> <<a3>>]

(* Single actions. *)
Singles == [r \in Runs |-> IF r = r1 THEN <<a1>> ELSE <<a2>>]

(* a2 and a3 contend for a key. *)
TwoKeys == [a \in Actions |-> IF a = a1 THEN k1 ELSE k2]
OneKey == [a \in Actions |-> k1]

OwnIds == [a \in Actions |-> CASE a = a1 -> i1 [] a = a2 -> i2 [] OTHER -> i3]
SharedId == [a \in Actions |-> i1]
=============================================================================
