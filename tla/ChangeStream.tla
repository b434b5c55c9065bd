---------------------------- MODULE ChangeStream ----------------------------
(***************************************************************************)
(* The telemetry stream of the offline lab (lab.py, EventConnector) and a  *)
(* consumer that resumes from a checkpoint it keeps.  The log repeats      *)
(* events, is out of order and holds events without a serial number.       *)
(*                                                                         *)
(* The consumer is external: it processes an event, then records the       *)
(* event's checkpoint; it may start from a whole snapshot and the source's *)
(* own checkpoint(); it may crash at any step.                             *)
(***************************************************************************)
EXTENDS Integers, Sequences, FiniteSets, SequencesExt, Listing

CONSTANTS
    Logs,         \* files of events: sequence, id, serial (whether it has one)
    MaxCrashes    \* crashes of the consumer

\* The file numbers its entries, from one.
ASSUME StreamAssumption ==
    /\ MaxCrashes \in Nat
    /\ \A l \in Logs :
          /\ l \in Seq(Range(l))
          /\ \A i \in DOMAIN l : l[i].sequence \in Nat \ {0} /\ l[i].serial \in BOOLEAN
          /\ \A i, j \in DOMAIN l : l[i].sequence = l[j].sequence => i = j

VARIABLES
    log,        \* EventConnector.raw_events
    available,  \* BaseLabConnector.available
    pending,    \* what the open subscription has still to deliver
    handled,    \* position of the last event processed, in memory
    position,   \* the checkpoint the consumer keeps
    processed,  \* how often each event was processed (history)
    crashes

streamvars == <<log, available, pending, handled, position, processed, crashes>>

Closed == <<[sequence |-> 0, id |-> "closed", serial |-> FALSE]>>   \* no subscription
Positions(l) == {0} \cup {l[i].sequence : i \in DOMAIN l}
EventIds(l) == {l[i].id : i \in DOMAIN l}

StreamTypeOK ==
    /\ available \in BOOLEAN
    /\ pending = Closed \/ Range(pending) \subseteq Range(log)
    /\ handled \in Positions(log) /\ position \in Positions(log)
    /\ processed \in [EventIds(log) -> 0..2 * (MaxCrashes + 1)]
    /\ crashes \in 0..MaxCrashes

\* The entries of s that carry a serial number and are the first to carry their id.
FirstsOf(s) ==
    EntriesAt(s, {i \in DOMAIN s : s[i].serial
                    /\ \A j \in 1..i - 1 : s[j].serial => s[j].id # s[i].id})

\* sorted(): the entries by their numbers, in order.
Numbered(s) ==
    [q \in {s[i].sequence : i \in DOMAIN s} |-> CHOOSE e \in Range(s) : e.sequence = q]
BySequence(s) == EntriesAt(Numbered(s), DOMAIN Numbered(s))

\* Broken variant: events are taken in the order of the file.
LogicalInFileOrder(l) == FirstsOf(l)

LogicalEvents(l) == FirstsOf(BySequence(l))

After(l, from) ==
    LET events == LogicalEvents(l)
    IN EntriesAt(events, {k \in DOMAIN events : events[k].sequence > from})

LastSequence(l) == CHOOSE p \in Positions(l) : \A q \in Positions(l) : p >= q

StreamInit ==
    /\ log \in Logs /\ available = TRUE
    /\ pending = Closed /\ handled = 0 /\ position = 0
    /\ processed = [e \in EventIds(log) |-> 0]
    /\ crashes = 0

Outage ==
    /\ available' = ~ available
    /\ UNCHANGED <<log, pending, handled, position, processed, crashes>>

Subscribe ==
    /\ pending = Closed /\ available
    /\ pending' = After(log, position)
    /\ handled' = position
    /\ UNCHANGED <<log, available, position, processed, crashes>>

Process ==
    /\ pending \notin {Closed, <<>>} /\ handled = position
    /\ processed' = [processed EXCEPT ![Head(pending).id] = @ + 1]
    /\ handled' = Head(pending).sequence
    /\ pending' = Tail(pending)
    /\ UNCHANGED <<log, available, position, crashes>>

Record ==
    /\ handled # position
    /\ position' = handled
    /\ UNCHANGED <<log, available, pending, handled, processed, crashes>>

\* execute() with a limit that no log reaches, and then checkpoint().
Snapshot ==
    /\ pending = Closed /\ available /\ position = 0
    /\ processed' = [e \in EventIds(log) |->
            processed[e] + IF \E f \in Range(LogicalEvents(log)) : f.id = e THEN 1 ELSE 0]
    /\ handled' = LastSequence(log)
    /\ pending' = <<>>
    /\ UNCHANGED <<log, available, position, crashes>>

CrashConsumer ==
    /\ crashes < MaxCrashes /\ pending # Closed
    /\ pending' = Closed /\ handled' = position /\ crashes' = crashes + 1
    /\ UNCHANGED <<log, available, position, processed>>

StreamNext == Outage \/ Subscribe \/ Process \/ Record \/ Snapshot \/ CrashConsumer

StreamSpec == StreamInit /\ [][StreamNext]_streamvars

-----------------------------------------------------------------------------
(* Properties *)

\* Whatever order the file has and wherever the consumer stopped, its checkpoint never
\* runs ahead of an event: every event with a serial number one of whose entries lies at
\* or before the checkpoint has been processed (subscribe(), checkpoint(), logical_events()).
NothingSkipped ==
    \A e \in EventIds(log) :
        LET entries == {i \in DOMAIN log : log[i].id = e /\ log[i].serial}
        IN (/\ entries # {}
            /\ \E i \in entries : log[i].sequence <= position)
              => processed[e] > 0

\* An event is processed again only after a crash, and at most once for each: its repeated
\* entries are not delivered again, on either side of the checkpoint (logical_events()).
RepeatsAreCrashes == \A e \in EventIds(log) : processed[e] <= crashes + 1
=============================================================================
