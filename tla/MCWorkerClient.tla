--------------------------- MODULE MCWorkerClient ---------------------------
(* Instances of WorkerClient for TLC. *)
EXTENDS WorkerClient

CONSTANTS c1, c2, c3

=============================================================================
