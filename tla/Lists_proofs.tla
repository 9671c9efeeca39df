----------------------------- MODULE Lists_proofs -----------------------------
(***************************************************************************)
(* A finite set of numbers has an n-th smallest element for every n up to   *)
(* its size and no other, so a list filtered by place keeps exactly what it *)
(* should, and an ordered query gives every row once, in order.             *)
(***************************************************************************)
EXTENDS Lists, FiniteSetTheorems, TLAPS

Rank(S, i) == Cardinality({j \in S : j < i})

(* Fewer numbers of S lie below a smaller element than below a larger one,  *)
(* and below any fewer than there are.                                      *)
LEMMA RankGrows ==
    ASSUME NEW S \in SUBSET Int, IsFiniteSet(S), NEW i \in S
    PROVE  /\ Rank(S, i) \in 0..Cardinality(S) - 1
           /\ \A j \in S : i < j => Rank(S, i) < Rank(S, j)
<1>1. Cardinality(S) \in Nat
  BY FS_CardinalityType
<1>2. Rank(S, i) \in Nat /\ Rank(S, i) < Cardinality(S)
  <2>1. {j \in S : j < i} \subseteq S /\ {j \in S : j < i} # S
    OBVIOUS
  <2> QED BY <2>1, FS_Subset, FS_CardinalityType DEF Rank
<1>3. ASSUME NEW j \in S, i < j PROVE Rank(S, i) < Rank(S, j)
  <2>1. {k \in S : k < j} \subseteq S
    OBVIOUS
  <2>2. IsFiniteSet({k \in S : k < j})
    BY <2>1, FS_Subset
  <2>3. \A k \in S : k \in Int
    OBVIOUS
  <2>4. \A k \in S : k < i => k < j
    BY <1>3, <2>3
  <2>5. i \in {k \in S : k < j} /\ i \notin {k \in S : k < i}
    BY <1>3, <2>3
  <2>6. {k \in S : k < i} \subseteq {k \in S : k < j} /\ {k \in S : k < i} # {k \in S : k < j}
    BY <2>4, <2>5
  <2> QED BY <2>2, <2>6, FS_Subset, FS_CardinalityType DEF Rank
<1> QED BY <1>1, <1>2, <1>3

(* Counting the elements below is one to one with 0 .. Cardinality(S) - 1.  *)
LEMMA RankReaches ==
    ASSUME NEW S \in SUBSET Int, IsFiniteSet(S), NEW n \in 1..Cardinality(S)
    PROVE  \E i \in S : Rank(S, i) = n - 1
<1> DEFINE f == [i \in S |-> Rank(S, i)]
           T == 0..Cardinality(S) - 1
<1>1. Cardinality(S) \in Nat
  BY FS_CardinalityType
<1>2. IsFiniteSet(T) /\ Cardinality(T) = Cardinality(S)
  <2>1. 0 \in Int /\ Cardinality(S) - 1 \in Int
    BY <1>1
  <2>2. IsFiniteSet(T) /\ Cardinality(T) = IF 0 > Cardinality(S) - 1 THEN 0 ELSE Cardinality(S) - 1 - 0 + 1
    BY <2>1, FS_Interval
  <2> QED BY <1>1, <2>2
<1>3. f \in [S -> T]
  BY RankGrows
<1>4. ASSUME NEW i \in S, NEW j \in S, i # j PROVE f[i] # f[j]
  <2>1. i < j \/ j < i
    BY <1>4
  <2> QED BY <2>1, RankGrows DEF Rank
<1>5. f \in Injection(S, T)
  BY <1>3, <1>4 DEF Injection, IsInjective
<1>6. f \in Surjection(S, T)
  BY <1>2, <1>5, FS_Injection
<1>7. n - 1 \in T
  BY <1>1
<1> QED BY <1>6, <1>7 DEF Surjection

(* Nth finds the element, and each element is some n-th.                    *)
LEMMA NthElement ==
    ASSUME NEW S \in SUBSET Int, IsFiniteSet(S)
    PROVE  /\ \A n \in 1..Cardinality(S) : Nth(S, n) \in S /\ Rank(S, Nth(S, n)) = n - 1
           /\ \A m, n \in 1..Cardinality(S) : m < n => Nth(S, m) < Nth(S, n)
           /\ \A i \in S : Rank(S, i) + 1 \in 1..Cardinality(S) /\ i = Nth(S, Rank(S, i) + 1)
<1>1. Cardinality(S) \in Nat
  BY FS_CardinalityType
<1>2. ASSUME NEW n \in 1..Cardinality(S) PROVE Nth(S, n) \in S /\ Rank(S, Nth(S, n)) = n - 1
  <2>1. \E i \in S : Cardinality({j \in S : j < i}) = n - 1
    BY RankReaches DEF Rank
  <2> QED BY <2>1 DEF Nth, Rank
<1>3. ASSUME NEW m \in 1..Cardinality(S), NEW n \in 1..Cardinality(S), m < n PROVE Nth(S, m) < Nth(S, n)
  <2>1. Nth(S, m) \in S /\ Nth(S, n) \in S /\ Rank(S, Nth(S, m)) = m - 1 /\ Rank(S, Nth(S, n)) = n - 1
    BY <1>2
  <2>2. CASE Nth(S, m) = Nth(S, n)
    <3>1. m - 1 = n - 1
      BY <2>1, <2>2
    <3> QED BY <1>3, <3>1
  <2>3. CASE Nth(S, n) < Nth(S, m)
    <3>1. Rank(S, Nth(S, n)) < Rank(S, Nth(S, m))
      BY <2>1, <2>3, RankGrows
    <3> QED BY <1>3, <2>1, <3>1
  <2>4. Nth(S, m) \in Int /\ Nth(S, n) \in Int
    BY <2>1
  <2> QED BY <2>2, <2>3, <2>4
<1>4. ASSUME NEW i \in S PROVE Rank(S, i) + 1 \in 1..Cardinality(S) /\ i = Nth(S, Rank(S, i) + 1)
  <2>1. Rank(S, i) + 1 \in 1..Cardinality(S)
    BY <1>1, RankGrows
  <2>2. Nth(S, Rank(S, i) + 1) \in S /\ Rank(S, Nth(S, Rank(S, i) + 1)) = Rank(S, i)
    BY <1>1, <1>2, <2>1, RankGrows
  <2>3. Nth(S, Rank(S, i) + 1) \in Int /\ i \in Int /\ Rank(S, i) \in Int
    <3>1. Nth(S, Rank(S, i) + 1) \in Int
      BY <2>2
    <3>2. Rank(S, i) \in 0..Cardinality(S) - 1
      BY RankGrows
    <3> QED BY <3>1, <3>2
  <2>4. ~ (i < Nth(S, Rank(S, i) + 1)) /\ ~ (Nth(S, Rank(S, i) + 1) < i)
    <3>1. i < Nth(S, Rank(S, i) + 1) => Rank(S, i) < Rank(S, Nth(S, Rank(S, i) + 1))
      BY <2>2, RankGrows
    <3>2. Nth(S, Rank(S, i) + 1) < i => Rank(S, Nth(S, Rank(S, i) + 1)) < Rank(S, i)
      BY <2>2, RankGrows
    <3> QED BY <2>2, <2>3, <3>1, <3>2
  <2> QED BY <2>1, <2>3, <2>4
<1> QED BY <1>2, <1>3, <1>4

(* A filtered list holds what stood at the places kept, and nothing else.   *)
THEOREM FilterKeeps ==
    ASSUME NEW V, NEW list \in Seq(V), NEW places \in SUBSET (1..Len(list))
    PROVE  /\ AtPlaces(list, places) \in Seq(V)
           /\ Len(AtPlaces(list, places)) = Cardinality(places)
           /\ Cardinality(places) \in Nat /\ Cardinality(places) <= Len(list)
           /\ \A n \in 1..Cardinality(places) : Nth(places, n) \in places /\ AtPlaces(list, places)[n] = list[Nth(places, n)]
           /\ \A m, n \in 1..Cardinality(places) : m < n => Nth(places, m) < Nth(places, n)
           /\ \A i \in places : \E n \in 1..Cardinality(places) : i = Nth(places, n)
<1>1. IsFiniteSet(1..Len(list)) /\ Cardinality(1..Len(list)) = Len(list)
  <2>1. Len(list) \in Nat /\ 1 \in Int /\ Len(list) \in Int
    OBVIOUS
  <2>2. IsFiniteSet(1..Len(list)) /\ Cardinality(1..Len(list)) = IF 1 > Len(list) THEN 0 ELSE Len(list) - 1 + 1
    BY <2>1, FS_Interval
  <2> QED BY <2>1, <2>2
<1>2. IsFiniteSet(places) /\ Cardinality(places) \in Nat /\ Cardinality(places) <= Len(list)
  BY <1>1, FS_Subset, FS_CardinalityType
<1>3. places \in SUBSET Int
  OBVIOUS
<1>4. \A n \in 1..Cardinality(places) : Nth(places, n) \in places
  BY <1>2, <1>3, NthElement
<1>5. AtPlaces(list, places) \in [1..Cardinality(places) -> V]
  <2>1. \A i \in 1..Len(list) : list[i] \in V
    OBVIOUS
  <2> QED BY <1>4, <2>1 DEF AtPlaces
<1>6. AtPlaces(list, places) \in Seq(V) /\ Len(AtPlaces(list, places)) = Cardinality(places)
  BY <1>2, <1>5
<1>7. \A i \in places : \E n \in 1..Cardinality(places) : i = Nth(places, n)
  BY <1>2, <1>3, NthElement
<1>8. \A m, n \in 1..Cardinality(places) : m < n => Nth(places, m) < Nth(places, n)
  BY <1>2, <1>3, NthElement
<1> QED BY <1>2, <1>4, <1>6, <1>7, <1>8 DEF AtPlaces

(* An ordered query gives each row once, the latest first.                  *)
THEOREM QueryOrders ==
    ASSUME NEW S \in SUBSET Int, IsFiniteSet(S)
    PROVE  /\ Descending(S) \in Seq(S)
           /\ Len(Descending(S)) = Cardinality(S) /\ Cardinality(S) \in Nat
           /\ \A m, n \in 1..Cardinality(S) : m < n => Descending(S)[m] > Descending(S)[n]
           /\ \A i \in S : \E n \in 1..Cardinality(S) : Descending(S)[n] = i
<1>1. Cardinality(S) \in Nat
  BY FS_CardinalityType
<1>2. \A n \in 1..Cardinality(S) : Cardinality(S) + 1 - n \in 1..Cardinality(S)
  BY <1>1
<1>3. Descending(S) \in [1..Cardinality(S) -> S]
  BY <1>2, NthElement DEF Descending
<1>4. Descending(S) \in Seq(S) /\ Len(Descending(S)) = Cardinality(S)
  BY <1>1, <1>3
<1>5. ASSUME NEW m \in 1..Cardinality(S), NEW n \in 1..Cardinality(S), m < n
      PROVE  Descending(S)[m] > Descending(S)[n]
  <2>1. Cardinality(S) + 1 - n < Cardinality(S) + 1 - m
    BY <1>1, <1>5
  <2>2. Nth(S, Cardinality(S) + 1 - n) < Nth(S, Cardinality(S) + 1 - m)
    BY <1>2, <2>1, NthElement
  <2>3. Nth(S, Cardinality(S) + 1 - n) \in Int /\ Nth(S, Cardinality(S) + 1 - m) \in Int
    BY <1>2, NthElement
  <2> QED BY <2>2, <2>3 DEF Descending
<1>6. ASSUME NEW i \in S PROVE \E n \in 1..Cardinality(S) : Descending(S)[n] = i
  <2> DEFINE n == Cardinality(S) - Rank(S, i)
  <2>1. Rank(S, i) + 1 \in 1..Cardinality(S) /\ i = Nth(S, Rank(S, i) + 1) /\ Rank(S, i) \in Int
    BY NthElement, RankGrows, <1>1
  <2>2. n \in 1..Cardinality(S) /\ Cardinality(S) + 1 - n = Rank(S, i) + 1
    BY <1>1, <2>1
  <2>3. Descending(S)[n] = i
    BY <2>1, <2>2 DEF Descending
  <2> QED BY <2>2, <2>3
<1> QED BY <1>1, <1>4, <1>5, <1>6
=============================================================================
