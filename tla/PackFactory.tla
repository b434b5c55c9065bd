----------------------------- MODULE PackFactory ----------------------------
(***************************************************************************)
(* The generator of industry packs (pack_factory.py): passes over the      *)
(* waiting datasets, each generated once all it refers to is there.        *)
(*                                                                         *)
(* Abstractions: a dataset is its id and the datasets its reference        *)
(* fields name; other fields, and the seeded values, are left out.         *)
(***************************************************************************)
EXTENDS Naturals, Sequences, FiniteSets, SequencesExt

CONSTANTS
    Declared,   \* dataset ids in the order of the definition
    Unknown     \* an id that no dataset has

\* IndustryPackDefinition and its DatasetBlueprints: there are datasets, with unique ids.
ValidDefinition(ids) ==
    /\ ids # <<>> /\ ids \in Seq({ids[i] : i \in DOMAIN ids})
    /\ \A i, j \in DOMAIN ids : ids[i] = ids[j] => i = j

ASSUME PackAssumption == ValidDefinition(Declared)

Datasets == {Declared[i] : i \in DOMAIN Declared}

ASSUME UnknownAssumption == Unknown \notin Datasets

\* FieldBlueprint: a reference field names a dataset, which need not exist.
References == [Datasets -> SUBSET (Datasets \cup {Unknown})]

VARIABLES
    refers,      \* datasets named by the reference fields of each dataset
    waiting,     \* pending: datasets not generated yet, in the declared order
    pass,        \* what is left of the copy that the pass walks over
    progressed,  \* whether the pass generated any
    generated,   \* ids, in the order of generation
    generation   \* "running", "done", "raised" (cyclic or unknown) or "failed"

packvars == <<refers, waiting, pass, progressed, generated, generation>>

PackTypeOK ==
    /\ refers \in References
    /\ waiting \in Seq(Datasets) /\ pass \in Seq(Datasets) /\ generated \in Seq(Datasets)
    /\ progressed \in BOOLEAN /\ generation \in {"running", "done", "raised", "failed"}

PackStarts(references) ==
    /\ refers = references /\ waiting = Declared
    /\ pass = Declared /\ progressed = FALSE
    /\ generated = <<>> /\ generation = "running"

PackInit == \E references \in References : PackStarts(references)

Generated == {generated[i] : i \in DOMAIN generated}

ReadyToGenerate(d) == refers[d] \subseteq Generated

\* _generate_dataset(): the rows, and the dataset is removed from those pending, where it
\* is once; a reference field may name a field that the rows it refers to do not have
\* (KeyError).
GenerateDataset(d) ==
    \/ /\ generated' = Append(generated, d)
       /\ \E i \in DOMAIN waiting : waiting[i] = d /\ waiting' = RemoveAt(waiting, i)
       /\ progressed' = TRUE
       /\ UNCHANGED generation
    \/ /\ refers[d] # {} /\ generation' = "failed"
       /\ UNCHANGED <<generated, waiting, progressed>>

\* The pass comes to a dataset: it is generated and no longer waiting, or skipped.
TryDataset ==
    /\ generation = "running" /\ pass # <<>>
    /\ pass' = Tail(pass)
    /\ IF ReadyToGenerate(Head(pass))
       THEN GenerateDataset(Head(pass))
       ELSE UNCHANGED <<generated, waiting, progressed, generation>>
    /\ UNCHANGED refers

\* The pass ends: a pass that generated nothing raises.
EndPass ==
    /\ generation = "running" /\ pass = <<>>
    /\ generation' = IF ~ progressed THEN "raised"
                     ELSE IF waiting = <<>> THEN "done" ELSE "running"
    /\ pass' = waiting /\ progressed' = FALSE
    /\ UNCHANGED <<refers, waiting, generated>>

PackNext == TryDataset \/ EndPass

PackSpec == PackInit /\ [][PackNext]_packvars

-----------------------------------------------------------------------------
(* Properties *)

\* Datasets that can never be generated: each refers to another of them, to itself or to
\* an unknown one.
Ungeneratable ==
    UNION {S \in SUBSET Datasets : \A d \in S : refers[d] \cap (S \cup {Unknown}) # {}}

\* Whatever the declared order, a dataset comes once and after all that it refers to, and
\* the generator gives up exactly when some dataset can never be generated, having
\* generated all the others (generate()).
GenerationFollowsReferences ==
    /\ \A i \in DOMAIN generated :
          /\ refers[generated[i]] \subseteq {generated[j] : j \in 1..i - 1}
          /\ \A j \in 1..i - 1 : generated[j] # generated[i]
    /\ generation = "done" => Generated = Datasets
    /\ generation = "raised" => /\ Ungeneratable # {}
                                /\ Generated = Datasets \ Ungeneratable
=============================================================================
