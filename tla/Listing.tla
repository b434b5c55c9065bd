------------------------------- MODULE Listing -------------------------------
(***************************************************************************)
(* The list comprehensions and the sorting of the lab's readers (lab.py,   *)
(* live/service_api.py), and a semaphore's queue that readers leave        *)
(* (runtime.py): what is left out is gone, the rest keeps or is given its  *)
(* order.                                                                  *)
(***************************************************************************)
EXTENDS Naturals, FiniteSets

\* The numbers of a finite set, from the least to the greatest.
Increasing(S) ==
    CHOOSE s \in [1..Cardinality(S) -> S] : \A i, j \in DOMAIN s : i < j => s[i] < s[j]

\* What a sequence, or another function of numbers, holds at the places I, in their order.
EntriesAt(s, I) ==
    LET at == Increasing(I)
    IN [k \in DOMAIN at |-> s[at[k]]]
=============================================================================
