----------------------------- MODULE AuditLedger ----------------------------
(***************************************************************************)
(* The hash chain of the action gateway (actions.py, ActionAuditLedger),   *)
(* and a copy of it that was damaged before verify() reads it: an entry    *)
(* changed, removed, or exchanged with another.                            *)
(*                                                                         *)
(* Abstractions: a digest is what it is computed from; time and attributes *)
(* of an entry are part of its event.                                      *)
(***************************************************************************)
EXTENDS Integers, Sequences, SequencesExt

CONSTANTS
    AuditEvents,   \* events that the gateway appends
    MaxEntries, MaxDamages

ASSUME AuditAssumption == MaxEntries \in Nat /\ MaxDamages \in Nat

VARIABLES
    entries,   \* ActionAuditLedger._entries
    appended,  \* the entries as they were appended (history)
    damages    \* how often the copy was damaged

auditvars == <<entries, appended, damages>>

Genesis == <<>>
AllEvents == AuditEvents \cup {"telemetry-failed"}

AuditTypeOK ==
    /\ Len(entries) <= MaxEntries /\ damages \in 0..MaxDamages
    /\ \A i \in DOMAIN entries : entries[i].event \in AllEvents

AuditInit == entries = <<>> /\ appended = <<>> /\ damages = 0

DigestOf(sequence, event, previous) == <<sequence, event, previous>>
LastDigest == IF entries = <<>> THEN Genesis ELSE Last(entries).digest

AppendEntry(e) ==
    LET n == Len(entries) + 1
        entry == [sequence |-> n, event |-> e, previous |-> LastDigest,
                  digest |-> DigestOf(n, e, LastDigest)]
    IN /\ damages = 0 /\ Len(entries) < MaxEntries
       /\ entries' = Append(entries, entry)
       /\ appended' = Append(appended, entry)
       /\ UNCHANGED damages

\* _emit(), _emit_event(): only a failure of the telemetry service leaves an entry.
EmitFails == AppendEntry("telemetry-failed")

Damaged(copy) ==
    /\ damages < MaxDamages /\ damages' = damages + 1
    /\ entries' = copy
    /\ UNCHANGED appended

ChangeEntry(i, e) == e # entries[i].event /\ Damaged([entries EXCEPT ![i].event = e])
LoseEntry(i) == Damaged(RemoveAt(entries, i))
ExchangeEntries(i, j) ==
    Damaged([entries EXCEPT ![i] = entries[j], ![j] = entries[i]])

AuditNext ==
    \/ \E e \in AuditEvents : AppendEntry(e)
    \/ EmitFails
    \/ \E i \in DOMAIN entries :
          \/ \E e \in AllEvents : ChangeEntry(i, e)
          \/ LoseEntry(i)
          \/ \E j \in DOMAIN entries : i < j /\ ExchangeEntries(i, j)

AuditSpec == AuditInit /\ [][AuditNext]_auditvars

\* The digest that verify() carries along.
Previous(i) == IF i = 1 THEN Genesis ELSE entries[i - 1].digest

\* Broken variant: entries are checked one by one.
ChainVerifiesSingly ==
    \A i \in DOMAIN entries :
        entries[i].digest = DigestOf(entries[i].sequence, entries[i].event, entries[i].previous)

\* verify(): the loop returns at the first entry that does not follow.
ChainVerifies ==
    \A i \in DOMAIN entries :
        /\ entries[i].previous = Previous(i)
        /\ entries[i].digest = DigestOf(entries[i].sequence, entries[i].event, Previous(i))

-----------------------------------------------------------------------------
(* Properties *)

\* verify() accepts exactly the ledgers that are what was appended, up to entries missing
\* at the end, which it cannot see: no damage inside the ledger goes unnoticed, and an
\* undamaged ledger is never rejected (append(), verify()).
ChainTellsDamage == ChainVerifies <=> IsPrefix(entries, appended)
=============================================================================
