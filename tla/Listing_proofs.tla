--------------------------- MODULE Listing_proofs ---------------------------
(***************************************************************************)
(* What Listing's operators return, for any finite set of numbers and any  *)
(* sequence: the facts that proofs about the readers' lists and the        *)
(* gateway's queues cite.                                                  *)
(*                                                                         *)
(* The argument: a set that breaks a claim has a subset that breaks it and *)
(* none of whose proper subsets does, and that one has no element to take  *)
(* away.                                                                   *)
(***************************************************************************)
EXTENDS Listing, Integers, Sequences, FiniteSetTheorems, FunctionTheorems, SequenceTheorems,
        WellFoundedInduction, TLAPS

\* Numbers up to n have a least one: else take the fewest without one.
LEMMA LeastExists ==
    ASSUME NEW n \in Nat, NEW S \in SUBSET (1..n), S # {}
    PROVE  \E i \in S : \A j \in S : i <= j
  <1> DEFINE HasLeast(U) == \E i \in U : \A j \in U : i <= j
             T == {U \in SUBSET (1..n) : U # {} /\ ~ HasLeast(U)}
  <1> SUFFICES ASSUME T # {} PROVE FALSE
    OBVIOUS
  <1>1. IsFiniteSet(1..n)
    BY FS_Interval
  <1>2. T \subseteq FiniteSubsetsOf(1..n)
    BY <1>1, FS_Subset DEF FiniteSubsetsOf
  <1>3. PICK U \in T : \A V \in T : ~ (<<V, U>> \in StrictSubsetOrdering(1..n))
    <2> HIDE DEF T
    <2> QED BY <1>2, WFMin, FS_StrictSubsetOrderingWellFounded
  <1>4. PICK i \in U : TRUE
    OBVIOUS
  <1> DEFINE V == U \ {i}
  <1>5. V \notin T
    BY <1>3, <1>4 DEF StrictSubsetOrdering
  <1>6. CASE V = {}
    BY <1>4, <1>6
  <1>7. CASE V # {}
    <2>1. PICK j \in V : \A k \in V : j <= k
      BY <1>5, <1>7
    <2>2. i \in Nat /\ j \in Nat /\ i \in U /\ j \in U
      BY <1>4, <2>1
    <2>3. CASE i <= j
      <3>1. \A k \in U : i <= k
        BY <2>1, <2>2, <2>3
      <3> QED BY <2>2, <3>1
    <2>4. CASE j <= i
      <3>1. \A k \in U : j <= k
        BY <2>1, <2>2, <2>4
      <3> QED BY <2>2, <3>1
    <2> QED BY <2>2, <2>3, <2>4
  <1> QED BY <1>6, <1>7

\* Any numbers of finitely many have a greatest: else take the fewest without one.
LEMMA GreatestExists ==
    ASSUME NEW S \in SUBSET Nat, IsFiniteSet(S), S # {}
    PROVE  \E i \in S : \A j \in S : j <= i
  <1> DEFINE HasGreatest(U) == \E i \in U : \A j \in U : j <= i
             T == {U \in SUBSET S : U # {} /\ ~ HasGreatest(U)}
  <1> SUFFICES ASSUME T # {} PROVE FALSE
    OBVIOUS
  <1>2. T \subseteq FiniteSubsetsOf(S)
    BY FS_Subset DEF FiniteSubsetsOf
  <1>3. PICK U \in T : \A V \in T : ~ (<<V, U>> \in StrictSubsetOrdering(S))
    <2> HIDE DEF T
    <2> QED BY <1>2, WFMin, FS_StrictSubsetOrderingWellFounded
  <1>4. PICK i \in U : TRUE
    OBVIOUS
  <1> DEFINE V == U \ {i}
  <1>5. V \notin T
    BY <1>3, <1>4 DEF StrictSubsetOrdering
  <1>6. CASE V = {}
    BY <1>4, <1>6
  <1>7. CASE V # {}
    <2>1. PICK j \in V : \A k \in V : k <= j
      BY <1>5, <1>7
    <2>2. i \in Nat /\ j \in Nat /\ i \in U /\ j \in U
      BY <1>4, <2>1
    <2>3. CASE j <= i
      <3>1. \A k \in U : k <= i
        BY <2>1, <2>2, <2>3
      <3> QED BY <2>2, <3>1
    <2>4. CASE i <= j
      <3>1. \A k \in U : k <= j
        BY <2>1, <2>2, <2>4
      <3> QED BY <2>2, <3>1
    <2> QED BY <2>2, <2>3, <2>4
  <1> QED BY <1>6, <1>7

Ascending(s, S) ==
    s \in [1..Cardinality(S) -> S] /\ \A i, j \in DOMAIN s : i < j => s[i] < s[j]

\* A list of all but the greatest, and then the greatest.
LEMMA AscendingExists ==
    ASSUME NEW S \in SUBSET Nat, IsFiniteSet(S)
    PROVE  \E s : Ascending(s, S)
  <1> DEFINE T == {U \in SUBSET S : ~ \E s : Ascending(s, U)}
  <1> SUFFICES ASSUME T # {} PROVE FALSE
    OBVIOUS
  <1>2. T \subseteq FiniteSubsetsOf(S)
    BY FS_Subset DEF FiniteSubsetsOf
  <1>3. PICK U \in T : \A V \in T : ~ (<<V, U>> \in StrictSubsetOrdering(S))
    <2> HIDE DEF T
    <2> QED BY <1>2, WFMin, FS_StrictSubsetOrderingWellFounded
  <1>4. U \in SUBSET Nat /\ IsFiniteSet(U) /\ U \in SUBSET S
    BY <1>3, FS_Subset
  <1>5. U # {}
    <2> SUFFICES ASSUME U = {} PROVE Ascending([i \in 1..0 |-> 0], U)
      BY <1>3
    <2>1. Cardinality(U) = 0
      BY FS_EmptySet
    <2> QED BY <2>1 DEF Ascending
  <1>6. PICK m \in U : \A j \in U : j <= m
    BY <1>4, <1>5, GreatestExists
  <1> DEFINE V == U \ {m}
             n == Cardinality(V)
  <1>7. IsFiniteSet(V) /\ n \in Nat /\ Cardinality(U) = n + 1
    <2>1. IsFiniteSet(V) /\ Cardinality(V) = Cardinality(U) - 1
      BY <1>4, <1>6, FS_RemoveElement
    <2>2. Cardinality(V) \in Nat /\ Cardinality(U) \in Nat
      BY <1>4, <2>1, FS_CardinalityType
    <2> QED BY <2>1, <2>2
  <1>8. V \in SUBSET S /\ V \notin T
    BY <1>3, <1>4, <1>6 DEF StrictSubsetOrdering
  <1>9. PICK s : Ascending(s, V)
    BY <1>8
  <1> DEFINE t == [i \in 1..n + 1 |-> IF i = n + 1 THEN m ELSE s[i]]
  <1>10. \A i \in 1..n : s[i] \in U /\ s[i] \in Nat /\ s[i] < m
    <2>1. \A i \in 1..n : s[i] \in V
      BY <1>9 DEF Ascending
    <2>2. m \in Nat /\ \A x \in V : x \in U /\ x \in Nat /\ x <= m /\ x # m
      BY <1>4, <1>6
    <2>3. \A x \in V : x \in U /\ x \in Nat /\ x < m
      BY <2>2
    <2> HIDE DEF n, V
    <2> QED BY <2>1, <2>3
  <1> HIDE DEF n, V
  <1>11. t \in [1..n + 1 -> U]
    BY <1>6, <1>7, <1>10
  <1>12. \A i, j \in 1..n : i < j => s[i] < s[j]
    BY <1>9 DEF Ascending, n
  <1>13. \A i, j \in 1..n + 1 : i < j => t[i] < t[j]
    BY <1>7, <1>10, <1>12
  <1>14. Ascending(t, U)
    BY <1>7, <1>11, <1>13 DEF Ascending
  <1> QED BY <1>3, <1>14

\* Each number of the set comes, once, in order.
LEMMA IncreasingIs ==
    ASSUME NEW S \in SUBSET Nat, IsFiniteSet(S)
    PROVE  /\ Cardinality(S) \in Nat
           /\ Increasing(S) \in [1..Cardinality(S) -> S]
           /\ \A i, j \in 1..Cardinality(S) : i < j => Increasing(S)[i] < Increasing(S)[j]
           /\ \A x \in S : \E i \in 1..Cardinality(S) : Increasing(S)[i] = x
  <1> DEFINE s == Increasing(S)
             n == Cardinality(S)
  <1>1. n \in Nat
    BY FS_CardinalityType
  <1>2. Ascending(s, S)
    BY AscendingExists DEF Increasing, Ascending
  <1>3. s \in [1..n -> S] /\ \A i, j \in 1..n : i < j => s[i] < s[j]
    BY <1>2 DEF Ascending
  <1> HIDE DEF s, n
  <1>4. \A i, j \in 1..n : s[i] = s[j] => i = j
    <2> SUFFICES ASSUME NEW i \in 1..n, NEW j \in 1..n, s[i] = s[j], i # j PROVE FALSE
      OBVIOUS
    <2>1. i < j \/ j < i
      BY <1>1
    <2>2. s[i] \in Nat /\ s[j] \in Nat
      BY <1>3
    <2> QED BY <2>1, <2>2, <1>3
  <1>5. s \in Injection(1..n, S)
    BY <1>3, <1>4 DEF Injection, IsInjective
  <1>6. IsFiniteSet(1..n) /\ Cardinality(1..n) = n
    BY <1>1, FS_Interval
  <1>7. s \in Surjection(1..n, S)
    BY <1>5, <1>6, FS_Injection DEF n
  <1> QED BY <1>1, <1>3, <1>7 DEF Surjection, s, n

LEMMA EntriesAtIs ==
    ASSUME NEW I \in SUBSET Nat, IsFiniteSet(I), NEW s
    PROVE  /\ Cardinality(I) \in Nat
           /\ DOMAIN EntriesAt(s, I) = 1..Cardinality(I)
           /\ Increasing(I) \in [1..Cardinality(I) -> I]
           /\ \A k \in 1..Cardinality(I) : EntriesAt(s, I)[k] = s[Increasing(I)[k]]
           /\ \A k, m \in 1..Cardinality(I) : k < m => Increasing(I)[k] < Increasing(I)[m]
           /\ \A x \in I : \E k \in 1..Cardinality(I) : Increasing(I)[k] = x
  BY IncreasingIs DEF EntriesAt

LEMMA EntriesAre ==
    ASSUME NEW I \in SUBSET Nat, IsFiniteSet(I), NEW s, NEW T, \A i \in I : s[i] \in T
    PROVE  EntriesAt(s, I) \in Seq(T) /\ Len(EntriesAt(s, I)) = Cardinality(I)
  <1> DEFINE n == Cardinality(I)
             r == EntriesAt(s, I)
  <1>1. n \in Nat /\ Increasing(I) \in [1..n -> I]
    BY EntriesAtIs
  <1>2. r = [k \in 1..n |-> s[Increasing(I)[k]]]
    BY <1>1 DEF EntriesAt
  <1> HIDE DEF r, n
  <1>3. \A k \in 1..n : s[Increasing(I)[k]] \in T
    BY <1>1
  <1>4. r \in [1..n -> T]
    BY <1>2, <1>3
  <1>5. r \in Seq(T) /\ Len(r) = n
    BY <1>1, <1>4, LenProperties
  <1> QED BY <1>5 DEF r, n
=============================================================================
