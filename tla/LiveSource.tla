----------------------------- MODULE LiveSource -----------------------------
(***************************************************************************)
(* The PostgreSQL source of the live lab (live/connectors.py, mutate()):   *)
(* calls of several gateways, each one transaction that looks its          *)
(* idempotency key up, updates one versioned row and binds the key.        *)
(*                                                                         *)
(* PostgreSQL, at its default isolation (read committed): a lookup sees    *)
(* committed rows only and locks nothing when it finds none; an update     *)
(* waits for the transaction that holds the row and then judges the row    *)
(* that one left; an insert waits for the transaction that inserted the    *)
(* same key and fails if it commits; a connection may drop at any time.    *)
(*                                                                         *)
(* Abstractions: requests have passed the checks on asset, operation and   *)
(* fields; the digest of a request is the request.                         *)
(***************************************************************************)
EXTENDS Integers, FiniteSets

CONSTANTS
    Orders,       \* rows of service_orders
    FirstValue,   \* the resolution every row starts with
    Writers,      \* calls of mutate()
    Asks          \* the request of each call: key, order, value, version, expected

ASSUME SourceAssumption ==
    IsFiniteSet(Writers) /\ \A c \in Writers : Asks[c].order \in Orders

Keys == {Asks[c].key : c \in Writers}
Unbound == [by |-> "none", version |-> 0]

VARIABLES
    row,       \* committed resolution and record_version of each order
    binding,   \* harness_action_idempotency
    stage,     \* how far each call's transaction is
    told,      \* what each call returned
    writes     \* committed updates (history)

sourcevars == <<row, binding, stage, told, writes>>

SourceTypeOK ==
    /\ DOMAIN row = Orders /\ \A o \in Orders : row[o].version \in 1..Cardinality(Writers) + 1
    /\ DOMAIN binding = Keys
    /\ stage \in [Writers -> {"start", "looked", "updated", "bound", "committed", "over"}]
    /\ \A c \in Writers : told[c].as \in {"none", "applied", "replayed", "stale", "raised"}
    /\ \A c \in Writers : stage[c] = "over" <=> told[c].as # "none"

SourceInit ==
    /\ row = [o \in Orders |-> [value |-> FirstValue, version |-> 1]]
    /\ binding = [k \in Keys |-> Unbound]
    /\ stage = [c \in Writers |-> "start"]
    /\ told = [c \in Writers |-> [as |-> "none", version |-> 0]]
    /\ writes = {}

Goto(c, s) == stage' = [stage EXCEPT ![c] = s]

Tell(c, as, version) ==
    /\ Goto(c, "over")
    /\ told' = [told EXCEPT ![c] = [as |-> as, version |-> version]]

\* Transactions that hold the row of call c, or have inserted its key.
RowHolders(c) == {d \in Writers \ {c} : stage[d] \in {"updated", "bound"}
                                        /\ Asks[d].order = Asks[c].order}
KeyHolders(c) == {d \in Writers \ {c} : stage[d] = "bound" /\ Asks[d].key = Asks[c].key}

\* SELECT ... FOR UPDATE, and what follows when it finds the key.
LookUp(c) ==
    LET found == binding[Asks[c].key] IN
    /\ stage[c] = "start"
    /\ \/ found = Unbound /\ Goto(c, "looked") /\ UNCHANGED told
       \/ found # Unbound /\ Asks[found.by] = Asks[c] /\ Tell(c, "replayed", found.version)
       \/ found # Unbound /\ Asks[found.by] # Asks[c] /\ Tell(c, "raised", 0)
    /\ UNCHANGED <<row, binding, writes>>

Expected(c) == /\ row[Asks[c].order].version = Asks[c].version
               /\ row[Asks[c].order].value = Asks[c].expected

\* Broken variant: the row is read before it is waited for.
UpdateUnlocked(c) ==
    /\ stage[c] = "looked"
    /\ \/ Expected(c) /\ Goto(c, "updated") /\ UNCHANGED told
       \/ ~ Expected(c) /\ Tell(c, "stale", row[Asks[c].order].version)
    /\ UNCHANGED <<row, binding, writes>>

\* UPDATE ... RETURNING, or the version that the row has instead.
Update(c) ==
    /\ stage[c] = "looked" /\ RowHolders(c) = {}
    /\ \/ Expected(c) /\ Goto(c, "updated") /\ UNCHANGED told
       \/ ~ Expected(c) /\ Tell(c, "stale", row[Asks[c].order].version)
    /\ UNCHANGED <<row, binding, writes>>

\* INSERT of the key; a key that another call committed meanwhile undoes the update.
Bind(c) ==
    /\ stage[c] = "updated" /\ KeyHolders(c) = {}
    /\ \/ binding[Asks[c].key] = Unbound /\ Goto(c, "bound") /\ UNCHANGED told
       \/ binding[Asks[c].key] # Unbound /\ Tell(c, "raised", 0)
    /\ UNCHANGED <<row, binding, writes>>

Commit(c) ==
    LET ask == Asks[c]
        version == row[ask.order].version + 1
    IN /\ stage[c] = "bound" /\ Goto(c, "committed")
       /\ row' = [row EXCEPT ![ask.order] = [value |-> ask.value, version |-> version]]
       /\ binding' = [binding EXCEPT ![ask.key] = [by |-> c, version |-> version]]
       /\ writes' = writes \cup {[call |-> c, was |-> row[ask.order], version |-> version]}
       /\ UNCHANGED told

Confirm(c) ==
    /\ stage[c] = "committed" /\ Tell(c, "applied", binding[Asks[c].key].version)
    /\ UNCHANGED <<row, binding, writes>>

\* The connection fails or a statement times out: before the commit all is undone.
Drop(c) ==
    /\ stage[c] \notin {"start", "over"} /\ Tell(c, "raised", 0)
    /\ UNCHANGED <<row, binding, writes>>

SourceNext == \E c \in Writers :
    LookUp(c) \/ Update(c) \/ Bind(c) \/ Commit(c) \/ Confirm(c) \/ Drop(c)

SourceSpec == SourceInit /\ [][SourceNext]_sourcevars

-----------------------------------------------------------------------------
(* Properties *)

\* However calls of gateways that share nothing but the source overlap, one key writes
\* once, and every write finds the row as its request expected it and the writes of a
\* row follow one another: no update is lost (mutate(): key, version and value checks).
WritesAreConditional ==
    /\ \A w \in writes : /\ w.was.version = Asks[w.call].version
                         /\ w.was.value = Asks[w.call].expected
    /\ \A v, w \in writes : v # w =>
          /\ Asks[v.call].key # Asks[w.call].key
          /\ Asks[v.call].order = Asks[w.call].order => v.version # w.version

\* What a call is told of an effect is so: it, or an earlier call with the very same
\* request, wrote the version that the answer names (mutate(), replay and success).
\* The converse is not: of two overlapping calls with one request the second is told
\* that its preconditions failed, although the request took effect.
AnswersAreTrue ==
    \A c \in Writers : told[c].as \in {"applied", "replayed"} =>
        \E w \in writes : Asks[w.call] = Asks[c] /\ w.version = told[c].version

\* Overlapping calls neither lose an update nor are told of one that is not there
\* (mutate()).
MutationsAreConditional == WritesAreConditional /\ AnswersAreTrue
=============================================================================
