---------------------------- MODULE MCRetrieval ----------------------------
(***************************************************************************)
(* An instance of Coordinator for TLC: a plan of two queries of one source *)
(* and a search of another, while a direct reader holds batches of the     *)
(* first source and reads both sources meanwhile.                          *)
(***************************************************************************)
EXTENDS Coordinator

CONSTANTS s1, s2, s3, d1, d2, d3, c1, c2, q1, p1

Ask(c, k, n) == [source |-> c, kind |-> k, limit |-> n]

Requests ==
    [r \in Reads |-> CASE r = s1 -> Ask(c1, "query", 2)
                       [] r = s2 -> Ask(c1, "query", 1)
                       [] r = s3 -> Ask(c2, "search", 1)
                       [] r = d1 -> Ask(c1, "query", 2)
                       [] r = d2 -> Ask(c1, "search", 1)
                       [] r = d3 -> Ask(c2, "discover", 1)]

NestedRead == [r \in Reads |-> IF r \in {d2, d3} THEN d1 ELSE None]
Plans == [q \in Runs |-> {s1, s2, s3}]
Capabilities == [c \in Connectors |-> {"discover", "query", "search"}]
One == [c \in Connectors |-> 1]
Two == [c \in Connectors |-> 2]

\* One row that passes, and what the connector or the gateway refuses.
Good == [structured |-> TRUE, payload |-> "list", finite |-> TRUE, rows |-> 1, size |-> 1,
         rowCount |-> 1, byteCount |-> None, versions |-> {c1}, lineage |-> {c1}]
SomeBatches ==
    {Good,
     [Good EXCEPT !.payload = "other", !.rows = 0, !.size = 2, !.byteCount = 1],
     [Good EXCEPT !.payload = "bytes", !.rowCount = None, !.size = 3],
     [Good EXCEPT !.rows = 2],            \* the count does not match the payload
     [Good EXCEPT !.versions = {c2}],     \* the version of another source
     [Good EXCEPT !.finite = FALSE],
     [Good EXCEPT !.lineage = {}],
     [Good EXCEPT !.structured = FALSE]}

Hit(c) == [structured |-> TRUE, finite |-> TRUE, lineage |-> {c}, source |-> c,
           version |-> c, acl |-> TRUE, size |-> 1]
SomeHits ==
    {<<>>, <<Hit(c1)>>, <<Hit(c2)>>, <<Hit(c1), Hit(c1)>>, <<[Hit(c2) EXCEPT !.acl = FALSE]>>,
     <<[Hit(c2) EXCEPT !.finite = FALSE]>>, <<[Hit(c2) EXCEPT !.size = 3]>>}
=============================================================================
