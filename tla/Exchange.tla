------------------------------ MODULE Exchange ------------------------------
(***************************************************************************)
(* The canonical exchange objects that connectors hand to the gateways     *)
(* (models.py), as a worker-backed connector builds them from the JSON of  *)
(* its worker (worker_connector.py), and how the gateway measures and      *)
(* checks them (runtime.py).                                               *)
(*                                                                         *)
(* A batch item is a record: structured (a JSON object with the expected   *)
(* members), payload ("list", "bytes" or "other"), finite (no NaN), size   *)
(* and rows of the payload, the declared rowCount and byteCount or None,   *)
(* and the sources that its versions and its lineage name.  A search item  *)
(* is a record of the same kind for one hit.  Identities are never empty.  *)
(***************************************************************************)
EXTENDS Integers

CONSTANT None

Larger(m, n) == IF m >= n THEN m ELSE n
OrZero(n) == IF n = None THEN 0 ELSE n

-----------------------------------------------------------------------------
(* Construction: WorkerBackedConnector.execute and search, DataBatch and      *)
(* SearchHit; what is not constructed is an exception of the connector.       *)

\* _version(), _lineage() and _hit(): an item has the members its object needs.
Converts(item) == item.structured

BatchBuilt(b) ==
    /\ Converts(b)
    /\ b.versions # {} /\ b.lineage # {}
    /\ OrZero(b.rowCount) >= 0 /\ OrZero(b.byteCount) >= 0

HitBuilt(h) == Converts(h) /\ h.lineage # {} /\ h.finite

-----------------------------------------------------------------------------
(* Checks: HarnessGateway                                                     *)

Measurable(b) == b.payload = "bytes" \/ b.finite

BatchBytes(b) == Larger(b.size, OrZero(b.byteCount))

\* A list has its length; anything else the rows it says it has.
CountsAgree(b) == b.payload = "list" => b.rowCount \in {None, b.rows}
BatchRows(b) == IF b.payload = "list" THEN b.rows ELSE OrZero(b.rowCount)

BatchSound(b, source) == Measurable(b) /\ CountsAgree(b) /\ source \in b.versions

HitSound(h, source) == h.source = source /\ h.version = source /\ h.acl
=============================================================================
