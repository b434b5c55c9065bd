---------------------------- MODULE ServicePages ----------------------------
(***************************************************************************)
(* The appointments collection, read page by page: the service of the lab  *)
(* (live/service_api.py), the connector that follows its cursor            *)
(* (live/connectors.py, RestLiveConnector), and the offline connector that *)
(* slices the same rows itself (lab.py, ServiceApiConnector).              *)
(*                                                                         *)
(* Abstractions: rows are numbered by their place in the collection, which *)
(* the service loads once; the path, the credential and the encoding of    *)
(* pages are left out, except that a call may fail.                        *)
(***************************************************************************)
EXTENDS Integers, Sequences, Listing

CONSTANTS
    Collections,   \* sequences of the order each appointment belongs to
    OrdersAsked,   \* serviceOrderId filters, with "all" for none
    Limits,        \* limits of requests
    PageSizes      \* page sizes; the service's own is positive

ASSUME PagingAssumption ==
    /\ Limits \subseteq Nat \ {0} /\ PageSizes \subseteq Nat \ {0}
    /\ \A c \in Collections : Len(c) \in Nat /\ DOMAIN c = 1..Len(c)

VARIABLES
    reader,        \* "rest" or "offline"
    collection, wanted, limit, pageSize,
    cursor,        \* offset of the next page
    rows,          \* what the reader has, as places in the collection
    calls,         \* pages read (history)
    batches,       \* sizes of the batches the reader yielded
    reading        \* "reading", "done" or "failed"

pagevars == <<reader, collection, wanted, limit, pageSize, cursor, rows, calls, batches, reading>>
pageinput == <<reader, collection, wanted, limit, pageSize>>

\* The REST connector asks for every appointment.
PageInputs ==
    {i \in {"rest", "offline"} \X Collections \X OrdersAsked \X Limits \X PageSizes :
        i[1] = "rest" => i[3] = "all"}

PagesTypeOK ==
    /\ cursor \in 0..Len(collection) /\ Len(rows) <= limit
    /\ reading \in {"reading", "done", "failed"}

AtMost(m, n) == IF m < n THEN m ELSE n

\* Places of the appointments asked for.
Filtered == Increasing({i \in DOMAIN collection : wanted = "all" \/ collection[i] = wanted})

PagesInit ==
    /\ \E i \in PageInputs : /\ reader = i[1] /\ collection = i[2] /\ wanted = i[3]
                             /\ limit = i[4] /\ pageSize = i[5]
    /\ cursor = 0 /\ rows = <<>> /\ calls = 0 /\ batches = <<>> /\ reading = "reading"

\* appointment_page(): a slice, and where the next begins.
Slice(offset, n) == SubSeq(Filtered, offset + 1, AtMost(offset + n, Len(Filtered)))
EndOf(offset, n) == offset + Len(Slice(offset, n))

MorePages(offset, n) == EndOf(offset, n) < Len(Filtered)

\* Broken variant: the last page is not cut.
KeptWhole(page) == page

\* What the limit leaves of a page.
Kept(page) == SubSeq(page, 1, AtMost(Len(page), limit - Len(rows)))

\* A batch needs lineage, which the REST connector has for rows only.
RestEnds(all) ==
    IF all = <<>> THEN reading' = "failed" /\ UNCHANGED batches
    ELSE reading' = "done" /\ batches' = <<Len(all)>>

\* One round of RestLiveConnector.execute().
FetchPage ==
    LET all == rows \o Kept(Slice(cursor, pageSize))
    IN /\ reader = "rest" /\ reading = "reading"
       /\ rows' = all /\ calls' = calls + 1
       /\ cursor' = EndOf(cursor, pageSize)
       /\ IF MorePages(cursor, pageSize) /\ Len(all) < limit
          THEN UNCHANGED <<reading, batches>>
          ELSE RestEnds(all)
       /\ UNCHANGED pageinput

CallFails ==
    /\ reader = "rest" /\ reading = "reading" /\ reading' = "failed"
    /\ UNCHANGED <<pageinput, cursor, rows, calls, batches>>

OfflineRows == Slice(0, limit)

\* One page of ServiceApiConnector.execute(), or its single empty batch.
YieldPage ==
    LET page == SubSeq(OfflineRows, cursor + 1,
                       AtMost(cursor + AtMost(pageSize, limit), Len(OfflineRows)))
    IN /\ reader = "offline" /\ reading = "reading"
       /\ rows' = rows \o page /\ cursor' = cursor + Len(page) /\ calls' = calls + 1
       /\ batches' = Append(batches, Len(page))
       /\ reading' = IF cursor' < Len(OfflineRows) THEN "reading" ELSE "done"
       /\ UNCHANGED pageinput

PagesNext == FetchPage \/ CallFails \/ YieldPage

PagesSpec == PagesInit /\ [][PagesNext]_pagevars

-----------------------------------------------------------------------------
(* Properties *)

\* However the page size divides the collection and the limit, a read that ends well has
\* the first rows asked for, each once and in order, and no batch is larger than the
\* limit (execute() of either connector, with appointment_page()).
PagesMakeTheCollection ==
    /\ reading = "done" => rows = SubSeq(Filtered, 1, AtMost(limit, Len(Filtered)))
    /\ \A i \in DOMAIN batches : batches[i] <= limit

\* Every call but the last gains a row, so that a read ends (the loop of execute()).
EveryPageGains == reading = "reading" => calls <= Len(rows)
=============================================================================
