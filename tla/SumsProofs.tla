----------------------------- MODULE SumsProofs -----------------------------
(***************************************************************************)
(* The laws of SumOf that the accounting proofs use. A sum of naturals is   *)
(* the number of cells <<k, i>> with i in 1..of[k], so the laws follow from  *)
(* those of Cardinality. Only that takes an induction, over the size of the  *)
(* sets, which is done by a least counterexample.                            *)
(***************************************************************************)
EXTENDS Sums, FiniteSetTheorems, WellFoundedInduction, TLAPS

-----------------------------------------------------------------------------
(* What the fold computes *)

\* Every set of naturals has a least one.
LEMMA LeastNatural ==
  ASSUME NEW T \in SUBSET Nat, T # {}
  PROVE  \E n \in T : \A m \in T : n <= m
<1> DEFINE R == {p \in Nat \X Nat : p[1] < p[2]}
<1>1. IsWellFoundedOn(R, Nat)
  BY NatLessThanWellFounded DEF OpToRel
<1>2. PICK n \in T : \A m \in T : <<m, n>> \notin R
  BY <1>1, WFMin
<1>3. ASSUME NEW m \in T PROVE n <= m
  <2>1. ~(m < n)
    BY <1>2, <1>3
  <2> QED
    BY <2>1
<1> QED
  BY <1>3

Some(s) == CHOOSE x \in s : TRUE
SumStep(f, h, s) == IF s = {} THEN 0 ELSE f[Some(s)] + h[s \ {Some(s)}]
Sums(f, S, h) == h = [s \in SUBSET S |-> SumStep(f, h, s)]
LEMMA Unfold == ASSUME NEW f, NEW S PROVE SumOf(f, S) = (CHOOSE h : Sums(f, S, h))[S]
BY DEF SumOf, Some, SumStep, MapThenFoldSet, SumFunctionOnSet, FoldFunctionOnSet, Sums

Few(S, n) == {s \in SUBSET S : Cardinality(s) <= n}
\* The partial sums of up to n
PartSums(f, S, n) == {h \in [Few(S, n) -> Int] : \A s \in Few(S, n) : h[s] = SumStep(f, h, s)}

LEMMA Smaller ==
  ASSUME NEW S, IsFiniteSet(S), NEW n \in Nat, NEW s \in Few(S, n), s # {}
  PROVE  Some(s) \in s /\ n > 0 /\ s \ {Some(s)} \in Few(S, n - 1) /\ s \ {Some(s)} \in Few(S, n)
<1>1. Some(s) \in s
  BY DEF Some
<1>2. IsFiniteSet(s) /\ Cardinality(s) \in Nat
  BY FS_Subset, FS_CardinalityType DEF Few
<1>3. Cardinality(s \ {Some(s)}) = Cardinality(s) - 1 /\ Cardinality(s \ {Some(s)}) \in Nat
  BY <1>1, <1>2, FS_RemoveElement, FS_CardinalityType
<1> QED
  BY <1>1, <1>2, <1>3 DEF Few

LEMMA PartSumsExist ==
  ASSUME NEW f, NEW S, IsFiniteSet(S), \A k \in S : f[k] \in Int, NEW n \in Nat
  PROVE  PartSums(f, S, n) # {}
<1> DEFINE T == {m \in Nat : PartSums(f, S, m) = {}}
<1>1. SUFFICES ASSUME T # {} PROVE FALSE
  OBVIOUS
<1>2. PICK m \in T : \A k \in T : m <= k
  BY <1>1, LeastNatural
<1>3. CASE m = 0
  <2>1. ASSUME NEW s \in Few(S, 0), s # {} PROVE FALSE
    <3>1. IsFiniteSet(s) /\ Cardinality(s) = 0
      BY FS_Subset, FS_CardinalityType DEF Few
    <3> QED
      BY <2>1, <3>1, FS_EmptySet
  <2> DEFINE h == [s \in Few(S, 0) |-> 0]
  <2>2. h \in PartSums(f, S, 0)
    BY <2>1 DEF PartSums, SumStep
  <2> QED
    BY <1>2, <1>3, <2>2
<1>4. CASE m # 0
  <2>1. m - 1 \in Nat /\ m - 1 \notin T
    BY <1>2, <1>4
  <2>2. PICK h \in PartSums(f, S, m - 1) : TRUE
    BY <2>1
  <2> DEFINE g == [s \in Few(S, m) |-> SumStep(f, h, s)]
  <2>3. ASSUME NEW s \in Few(S, m) PROVE g[s] = SumStep(f, g, s) /\ g[s] \in Int
    <3>1. CASE s = {}
      BY <3>1 DEF SumStep
    <3>2. CASE s # {}
      <4> DEFINE u == s \ {Some(s)}
      <4>1. Some(s) \in S /\ u \in Few(S, m - 1) /\ u \in Few(S, m)
        BY <3>2, Smaller DEF Few
      <4>2. g[u] = SumStep(f, h, u)
        BY <4>1
      <4>3. h[u] = SumStep(f, h, u) /\ h[u] \in Int
        BY <2>2, <4>1 DEF PartSums
      <4> QED
        BY <3>2, <4>1, <4>2, <4>3 DEF SumStep
    <3> QED
      BY <3>1, <3>2
  <2>4. g \in PartSums(f, S, m)
    BY <2>3 DEF PartSums
  <2> QED
    BY <1>2, <2>4
<1> QED
  BY <1>3, <1>4

\* The fold does what it says.
LEMMA SumsExist ==
  ASSUME NEW f, NEW S, IsFiniteSet(S), \A k \in S : f[k] \in Int
  PROVE  \E h : Sums(f, S, h)
<1>1. Cardinality(S) \in Nat /\ Few(S, Cardinality(S)) = SUBSET S
  BY FS_CardinalityType, FS_Subset DEF Few
<1>2. PICK h : h \in PartSums(f, S, Cardinality(S))
  BY <1>1, PartSumsExist
<1> QED
  BY <1>1, <1>2 DEF PartSums, Sums

-----------------------------------------------------------------------------
(* Sums of naturals *)

\* One cell for each of the of[k] that each k in S adds.
Cells(of, S) == UNION {{k} \X (1 .. of[k]) : k \in S}

\* What one member adds.
LEMMA CellsOfOne ==
  ASSUME NEW k, NEW n \in Nat
  PROVE  /\ IsFiniteSet({k} \X (1 .. n))
         /\ Cardinality({k} \X (1 .. n)) = n
<1>1. IsFiniteSet({k}) /\ Cardinality({k}) = 1
  BY FS_Singleton
<1>2. IsFiniteSet(1 .. n) /\ Cardinality(1 .. n) = n
  BY FS_Interval
<1>3. /\ IsFiniteSet({k} \X (1 .. n))
      /\ Cardinality({k} \X (1 .. n)) = Cardinality({k}) * Cardinality(1 .. n)
  BY <1>1, <1>2, FS_Product
<1> QED
  BY <1>1, <1>2, <1>3

\* A finite collection has finitely many cells.
LEMMA CellsFinite ==
  ASSUME NEW S, IsFiniteSet(S), NEW of, \A k \in S : of[k] \in Nat
  PROVE  /\ IsFiniteSet(Cells(of, S))
         /\ Cardinality(Cells(of, S)) \in Nat
<1> DEFINE G == [k \in S |-> {k} \X (1 .. of[k])]
           T == {{k} \X (1 .. of[k]) : k \in S}
<1>1. G \in Surjection(S, T)
  <2>1. G \in [S -> T]
    OBVIOUS
  <2>2. \A t \in T : \E k \in S : G[k] = t
    OBVIOUS
  <2> QED
    BY <2>1, <2>2 DEF Surjection
<1>2. IsFiniteSet(T)
  <2> HIDE DEF G, T
  <2> QED
    BY <1>1, FS_Surjection
<1>3. \A t \in T : IsFiniteSet(t)
  <2>1. ASSUME NEW k \in S
        PROVE  IsFiniteSet({k} \X (1 .. of[k]))
    <3>1. of[k] \in Nat
      OBVIOUS
    <3> QED
      BY <3>1, CellsOfOne
  <2> QED
    BY <2>1
<1>4. IsFiniteSet(UNION T)
  <2> HIDE DEF T
  <2> QED
    BY <1>2, <1>3, FS_UNION
<1> QED
  BY <1>4, FS_CardinalityType DEF Cells

\* The cells of two disjoint collections add up.
LEMMA CellsDisjoint ==
  ASSUME NEW S, IsFiniteSet(S), NEW T, IsFiniteSet(T), S \cap T = {},
         NEW of, \A k \in S \cup T : of[k] \in Nat
  PROVE  Cardinality(Cells(of, S \cup T)) = Cardinality(Cells(of, S)) + Cardinality(Cells(of, T))
<1>1. IsFiniteSet(Cells(of, S)) /\ IsFiniteSet(Cells(of, T))
  BY CellsFinite
<1>2. Cells(of, S \cup T) = Cells(of, S) \cup Cells(of, T)
  BY DEF Cells
<1>3. Cells(of, S) \cap Cells(of, T) = {}
  BY DEF Cells
<1>4. Cardinality(Cells(of, S) \cap Cells(of, T)) = 0
  BY <1>3, FS_EmptySet
<1>5. /\ Cardinality(Cells(of, S)) \in Nat
      /\ Cardinality(Cells(of, T)) \in Nat
  BY <1>1, FS_CardinalityType
<1>6. Cardinality(Cells(of, S) \cup Cells(of, T))
        = Cardinality(Cells(of, S)) + Cardinality(Cells(of, T)) - 0
  BY <1>1, <1>4, FS_Union
<1>7. Cardinality(Cells(of, S \cup T))
        = Cardinality(Cells(of, S) \cup Cells(of, T))
  BY <1>2, Zenon
<1> QED
  BY <1>5, <1>6, <1>7

\* A sum is the number of cells: of the subsets for which it is not, none is the smallest.
LEMMA SumIsCells ==
  ASSUME NEW S, IsFiniteSet(S), NEW of, \A k \in S : of[k] \in Nat
  PROVE  SumOf(of, S) = Cardinality(Cells(of, S))
<1>1. PICK h : SumOf(of, S) = h[S] /\ Sums(of, S, h)
  <2>1. \E h : Sums(of, S, h)
    BY SumsExist
  <2>2. Sums(of, S, CHOOSE h : Sums(of, S, h))
    BY <2>1, Zenon
  <2> QED
    BY <2>2, Unfold, Zenon
<1> DEFINE T == {n \in Nat : \E s \in SUBSET S : Cardinality(s) = n /\ h[s] # Cardinality(Cells(of, s))}
<1>2. SUFFICES ASSUME T # {} PROVE FALSE
  BY <1>1, FS_CardinalityType
<1>3. PICK n \in T : \A m \in T : n <= m
  BY <1>2, LeastNatural
<1>4. PICK s \in SUBSET S : Cardinality(s) = n /\ h[s] # Cardinality(Cells(of, s))
  BY <1>3
<1>5. IsFiniteSet(s)
  BY FS_Subset
<1>6. CASE s = {}
  <2>1. Cells(of, {}) = {}
    BY DEF Cells
  <2>2. h[s] = 0
    BY <1>1, <1>6 DEF Sums, SumStep
  <2> QED
    BY <1>4, <1>6, <2>1, <2>2, FS_EmptySet
<1>7. CASE s # {}
  <2> DEFINE x == Some(s)
             u == s \ {x}
  <2>1. x \in s /\ u \in SUBSET S /\ h[s] = of[x] + h[u]
    BY <1>1, <1>7 DEF Sums, SumStep, Some
  <2> HIDE DEF x
  <2>2. IsFiniteSet(u) /\ IsFiniteSet({x}) /\ Cardinality(u) = n - 1 /\ Cardinality(u) \in Nat
    BY <1>4, <1>5, <2>1, FS_RemoveElement, FS_CardinalityType, FS_Singleton
  <2>3. h[u] = Cardinality(Cells(of, u))
    BY <1>3, <2>1, <2>2
  <2>4. Cells(of, {x}) = {x} \X (1 .. of[x])
    BY DEF Cells
  <2>5. Cardinality(Cells(of, {x})) = of[x]
    <3>1. of[x] \in Nat
      BY <2>1
    <3> QED
      BY <2>4, <3>1, CellsOfOne
  <2>6. s = u \cup {x} /\ u \cap {x} = {}
    BY <2>1
  <2> HIDE DEF u
  <2>7. Cardinality(Cells(of, u \cup {x})) = Cardinality(Cells(of, u)) + Cardinality(Cells(of, {x}))
    BY <2>1, <2>2, <2>6, CellsDisjoint
  <2>8. Cardinality(Cells(of, u)) \in Nat
    BY <2>1, <2>2, CellsFinite
  <2> QED
    BY <1>4, <2>1, <2>3, <2>5, <2>6, <2>7, <2>8
<1> QED
  BY <1>6, <1>7

-----------------------------------------------------------------------------
(* The laws *)

LEMMA SumType ==
  ASSUME NEW S, IsFiniteSet(S), NEW of, \A k \in S : of[k] \in Nat
  PROVE  SumOf(of, S) \in Nat
BY SumIsCells, CellsFinite

\* The sums over two disjoint collections add up.
LEMMA SumDisjoint ==
  ASSUME NEW S, IsFiniteSet(S), NEW T, IsFiniteSet(T), S \cap T = {},
         NEW of, \A k \in S \cup T : of[k] \in Nat
  PROVE  SumOf(of, S \cup T) = SumOf(of, S) + SumOf(of, T)
<1>1. IsFiniteSet(S \cup T)
  BY FS_Union
<1>2. /\ SumOf(of, S \cup T) = Cardinality(Cells(of, S \cup T))
      /\ SumOf(of, S) = Cardinality(Cells(of, S))
      /\ SumOf(of, T) = Cardinality(Cells(of, T))
  BY <1>1, SumIsCells
<1> QED
  BY <1>2, CellsDisjoint

\* Only what the members add matters.
LEMMA SumEqual ==
  ASSUME NEW S, NEW of, NEW of2, \A k \in S : of[k] = of2[k]
  PROVE  SumOf(of, S) = SumOf(of2, S)
<1>1. ASSUME NEW h, NEW s \in SUBSET S PROVE SumStep(of, h, s) = SumStep(of2, h, s)
  BY DEF SumStep, Some
<1>2. \A h : Sums(of, S, h) = Sums(of2, S, h)
  BY <1>1 DEF Sums
<1>3. (CHOOSE h : Sums(of, S, h)) = (CHOOSE h : Sums(of2, S, h))
  BY <1>2
<1>4. /\ SumOf(of, S) = (CHOOSE h : Sums(of, S, h))[S]
      /\ SumOf(of2, S) = (CHOOSE h : Sums(of2, S, h))[S]
  BY Unfold, Zenon
<1> QED
  BY <1>3, <1>4, Zenon

\* A single member.
LEMMA SumOfOne ==
  ASSUME NEW k, NEW of, of[k] \in Nat
  PROVE  SumOf(of, {k}) = of[k]
<1>1. Cells(of, {k}) = {k} \X (1 .. of[k])
  BY DEF Cells
<1>2. IsFiniteSet({k}) /\ \A j \in {k} : of[j] \in Nat
  BY FS_Singleton
<1>3. SumOf(of, {k}) = Cardinality(Cells(of, {k}))
  BY <1>2, SumIsCells
<1> QED
  BY <1>1, <1>3, CellsOfOne

LEMMA SumOfNone == ASSUME NEW of PROVE SumOf(of, {}) = 0
<1>1. Cells(of, {}) = {}
  BY DEF Cells
<1> QED
  BY <1>1, SumIsCells, FS_EmptySet

\* A collection whose members add nothing.
LEMMA SumZero ==
  ASSUME NEW S, IsFiniteSet(S), NEW of, \A k \in S : of[k] = 0
  PROVE  SumOf(of, S) = 0
<1>1. Cells(of, S) = {}
  <2>1. 1 .. 0 = {}
    OBVIOUS
  <2> QED
    BY <2>1 DEF Cells
<1> QED
  BY <1>1, SumIsCells, FS_EmptySet

\* A collection whose members add no more.
LEMMA SumMonotone ==
  ASSUME NEW S, IsFiniteSet(S), NEW of, NEW of2,
         \A k \in S : of[k] \in Nat /\ of2[k] \in Nat /\ of[k] <= of2[k]
  PROVE  SumOf(of, S) <= SumOf(of2, S)
<1>1. IsFiniteSet(Cells(of2, S))
  BY CellsFinite
<1>2. Cells(of, S) \subseteq Cells(of2, S)
  <2>1. \A k \in S : 1 .. of[k] \subseteq 1 .. of2[k]
    OBVIOUS
  <2> QED
    BY <2>1 DEF Cells
<1>3. SumOf(of, S) = Cardinality(Cells(of, S)) /\ SumOf(of2, S) = Cardinality(Cells(of2, S))
  BY SumIsCells
<1> QED
  BY <1>1, <1>2, <1>3, FS_Subset

\* Replacing what one member adds moves the sum by the difference.
LEMMA SumUpdate ==
  ASSUME NEW S, IsFiniteSet(S), NEW k \in S,
         NEW of, NEW of2,
         \A j \in S : of[j] \in Nat /\ of2[j] \in Nat,
         \A j \in S \ {k} : of[j] = of2[j]
  PROVE  /\ SumOf(of2, S) = SumOf(of, S) - of[k] + of2[k]
         /\ SumOf(of, S) >= of[k]
<1>1. IsFiniteSet(S \ {k}) /\ IsFiniteSet({k})
  BY FS_Difference, FS_Singleton
<1>2. S = (S \ {k}) \cup {k} /\ (S \ {k}) \cap {k} = {}
  OBVIOUS
<1>3. SumOf(of, S) = SumOf(of, S \ {k}) + SumOf(of, {k})
  BY <1>1, <1>2, SumDisjoint
<1>4. SumOf(of2, S) = SumOf(of2, S \ {k}) + SumOf(of2, {k})
  BY <1>1, <1>2, SumDisjoint
<1>5. SumOf(of, S \ {k}) = SumOf(of2, S \ {k})
  BY SumEqual
<1>6. SumOf(of, {k}) = of[k] /\ SumOf(of2, {k}) = of2[k]
  BY SumOfOne
<1>7. SumOf(of, S \ {k}) \in Nat
  BY <1>1, SumType
<1> QED
  BY <1>3, <1>4, <1>5, <1>6, <1>7

\* Emptying the members of R removes exactly what they added.
LEMMA SumRemove ==
  ASSUME NEW S, IsFiniteSet(S), NEW R \in SUBSET S,
         NEW of, NEW of2,
         \A j \in S : of[j] \in Nat,
         \A j \in S : of2[j] = IF j \in R THEN 0 ELSE of[j]
  PROVE  /\ SumOf(of2, S) = SumOf(of, S) - SumOf(of, R)
         /\ SumOf(of2, S) \in Nat
         /\ SumOf(of, R) \in Nat
         /\ SumOf(of, S) \in Nat
<1>1. IsFiniteSet(S \ R) /\ IsFiniteSet(R)
  BY FS_Difference, FS_Subset
<1>2. S = (S \ R) \cup R /\ (S \ R) \cap R = {}
  OBVIOUS
<1>3. SumOf(of, S) = SumOf(of, S \ R) + SumOf(of, R)
  BY <1>1, <1>2, SumDisjoint
<1>4. \A j \in S : of2[j] \in Nat
  OBVIOUS
<1>5. SumOf(of2, S) = SumOf(of2, S \ R) + SumOf(of2, R)
  BY <1>1, <1>2, <1>4, SumDisjoint
<1>6. SumOf(of, S \ R) = SumOf(of2, S \ R)
  BY SumEqual
<1>7. SumOf(of2, R) = 0
  <2>1. \A j \in R : of2[j] = 0
    OBVIOUS
  <2> QED
    BY <1>1, <2>1, SumZero
<1>8. SumOf(of, S \ R) \in Nat /\ SumOf(of, R) \in Nat
  BY <1>1, SumType
<1> QED
  BY <1>3, <1>5, <1>6, <1>7, <1>8

\* of2 is of with d more for k, which may be new.
MoreBy(d, k, S, of, of2) ==
  /\ IsFiniteSet(S) /\ d \in Nat
  /\ \A j \in S : of[j] \in Nat
  /\ \A j \in S \ {k} : of2[j] = of[j]
  /\ of2[k] = d + (IF k \in S THEN of[k] ELSE 0)

LEMMA SumInsert ==
  ASSUME NEW S, NEW k, NEW d, NEW of, NEW of2, MoreBy(d, k, S, of, of2)
  PROVE  SumOf(of2, S \cup {k}) = SumOf(of, S) + d
<1> USE DEF MoreBy
<1>1. CASE k \in S
  <2>1. S \cup {k} = S
    BY <1>1
  <2>2. \A j \in S : of2[j] \in Nat
    BY <1>1
  <2>3. SumOf(of2, S) = SumOf(of, S) - of[k] + of2[k]
    BY <1>1, <2>2, SumUpdate
  <2>4. SumOf(of, S) \in Nat /\ of[k] \in Nat /\ of2[k] = d + of[k]
    BY <1>1, SumType
  <2>5. SumOf(of2, S \cup {k}) = SumOf(of2, S)
    BY <2>1, Zenon
  <2> QED
    BY <2>3, <2>4, <2>5
<1>2. CASE k \notin S
  <2>1. IsFiniteSet({k}) /\ S \cap {k} = {} /\ of2[k] \in Nat /\ \A j \in S \cup {k} : of2[j] \in Nat
    BY <1>2, FS_Singleton
  <2>2. SumOf(of2, S \cup {k}) = SumOf(of2, S) + SumOf(of2, {k})
    BY <2>1, SumDisjoint
  <2>3. SumOf(of2, S) = SumOf(of, S)
    BY <1>2, SumEqual
  <2>4. SumOf(of2, {k}) = d
    BY <1>2, <2>1, SumOfOne
  <2>5. SumOf(of, S) \in Nat
    BY SumType
  <2> QED
    BY <2>2, <2>3, <2>4, <2>5
<1> QED
  BY <1>1, <1>2

\* The members of S whose key is g, the keys of S, and the sum of each group.
Group(at, S, g) == {k \in S : at[k] = g}
KeysOf(at, S) == {at[k] : k \in S}
GroupSums(of, at, S) == [g \in KeysOf(at, S) |-> SumOf(of, Group(at, S, g))]

GroupsAddUp(of, at, S) ==
  /\ IsFiniteSet(KeysOf(at, S))
  /\ \A g \in KeysOf(at, S) : SumOf(of, Group(at, S, g)) \in Nat
  /\ SumOf(GroupSums(of, at, S), KeysOf(at, S)) = SumOf(of, S)

\* Taking a whole group away leaves the other groups as they are.
LEMMA GroupAway ==
  ASSUME NEW S, IsFiniteSet(S), NEW of, \A k \in S : of[k] \in Nat, NEW at,
         NEW x \in S, GroupsAddUp(of, at, S \ Group(at, S, at[x]))
  PROVE  GroupsAddUp(of, at, S)
<1> DEFINE g0 == at[x]
           A == Group(at, S, g0)
           R == S \ A
           G == KeysOf(at, R)
           sums == GroupSums(of, at, S)
           sums0 == GroupSums(of, at, R)
<1>1. /\ R \subseteq S /\ A \subseteq S /\ R \cap A = {} /\ S = R \cup A
      /\ IsFiniteSet(R) /\ IsFiniteSet(A)
  <2>1. /\ R \subseteq S /\ A \subseteq S /\ R \cap A = {} /\ S = R \cup A
    BY DEF Group
  <2> QED
    BY <2>1, FS_Subset
<1>2. KeysOf(at, S) = G \cup {g0} /\ g0 \notin G /\ g0 \in KeysOf(at, S)
  BY DEF KeysOf, Group
<1>3. ASSUME NEW g \in G PROVE Group(at, R, g) = Group(at, S, g)
  BY <1>2 DEF KeysOf, Group
<1>4. SumOf(of, A) \in Nat /\ SumOf(of, R) \in Nat
  BY <1>1, SumType
<1>5. IsFiniteSet(G) /\ SumOf(sums0, G) = SumOf(of, R) /\ \A g \in G : SumOf(of, Group(at, R, g)) \in Nat
  BY DEF GroupsAddUp
<1>6. IsFiniteSet(KeysOf(at, S))
  BY <1>2, <1>5, FS_AddElement
<1>7. \A g \in KeysOf(at, S) : SumOf(of, Group(at, S, g)) \in Nat
  BY <1>2, <1>3, <1>4, <1>5
<1>8. \A g \in KeysOf(at, S) : sums[g] = SumOf(of, Group(at, S, g))
  BY DEF GroupSums
<1>9. \A g \in G : sums0[g] = sums[g]
  BY <1>2, <1>3, <1>8 DEF GroupSums
<1>10. SumOf(sums, KeysOf(at, S)) = SumOf(sums, G) + SumOf(sums, {g0})
  <2>1. IsFiniteSet({g0}) /\ G \cap {g0} = {} /\ \A g \in G \cup {g0} : sums[g] \in Nat
    <3> HIDE DEF sums, G, g0
    <3>1. IsFiniteSet({g0}) /\ G \cap {g0} = {}
      BY <1>2, FS_Singleton
    <3>2. ASSUME NEW g \in G \cup {g0} PROVE sums[g] \in Nat
      <4>1. g \in KeysOf(at, S)
        BY <1>2, <3>2
      <4> QED
        BY <1>7, <1>8, <4>1
    <3> QED
      BY <3>1, <3>2
  <2> HIDE DEF sums, G, g0
  <2>2. SumOf(sums, G \cup {g0}) = SumOf(sums, G) + SumOf(sums, {g0})
    BY <1>5, <2>1, SumDisjoint
  <2> QED
    BY <1>2, <2>2
<1>11. SumOf(sums, {g0}) = SumOf(of, A)
  <2>1. sums[g0] \in Nat /\ sums[g0] = SumOf(of, A)
    BY <1>2, <1>7, <1>8
  <2> HIDE DEF sums, g0, A
  <2> QED
    BY <2>1, SumOfOne
<1>12. SumOf(sums0, G) = SumOf(sums, G)
  <2> HIDE DEF sums, sums0, G
  <2> QED
    BY <1>9, SumEqual
<1>13. SumOf(of, S) = SumOf(of, R) + SumOf(of, A)
  <2> HIDE DEF R, A
  <2>1. SumOf(of, R \cup A) = SumOf(of, R) + SumOf(of, A)
    BY <1>1, SumDisjoint
  <2> QED
    BY <1>1, <2>1
<1>14. SumOf(sums, KeysOf(at, S)) = SumOf(of, S)
  <2> HIDE DEF sums, sums0, G, R, A, g0
  <2> QED
    BY <1>4, <1>5, <1>10, <1>11, <1>12, <1>13
<1> QED
  BY <1>6, <1>7, <1>14 DEF GroupsAddUp

\* The sums of the groups add up to the sum of all.
LEMMA SumGroups ==
  ASSUME NEW S, IsFiniteSet(S), NEW of, \A k \in S : of[k] \in Nat, NEW at
  PROVE  GroupsAddUp(of, at, S)
<1> DEFINE Wrong == {R \in SUBSET S : ~GroupsAddUp(of, at, R)}
           Sizes == {Cardinality(R) : R \in Wrong}
<1>1. SUFFICES ASSUME Wrong # {} PROVE FALSE
  OBVIOUS
<1>2. \A R \in SUBSET S : IsFiniteSet(R) /\ Cardinality(R) \in Nat
  BY FS_Subset, FS_CardinalityType
<1>3. Sizes \in SUBSET Nat /\ Sizes # {}
  BY <1>1, <1>2
<1>4. PICK n \in Sizes : \A m \in Sizes : n <= m
  <2> HIDE DEF Sizes
  <2> QED
    BY <1>3, LeastNatural
<1>5. PICK R \in Wrong : Cardinality(R) = n
  OBVIOUS
<1>6. R # {}
  <2>1. ASSUME R = {} PROVE GroupsAddUp(of, at, R)
    <3>1. KeysOf(at, R) = {}
      BY <2>1 DEF KeysOf
    <3>2. SumOf(GroupSums(of, at, R), {}) = 0 /\ SumOf(of, {}) = 0
      BY SumOfNone
    <3> QED
      BY <2>1, <3>1, <3>2, FS_EmptySet DEF GroupsAddUp
  <2> QED
    BY <1>5, <2>1
<1>7. PICK x \in R : TRUE
  BY <1>6
<1> DEFINE Q == R \ Group(at, R, at[x])
<1>8. Q \subseteq R /\ Q # R /\ Q \in SUBSET S
  BY <1>5, <1>7 DEF Group
<1>9. Cardinality(Q) < Cardinality(R)
  <2>1. IsFiniteSet(R) /\ Cardinality(R) \in Nat
    BY <1>2, <1>5
  <2> HIDE DEF Q
  <2> QED
    BY <1>8, <2>1, FS_Subset, FS_CardinalityType
<1>10. Q \notin Wrong
  <2>1. SUFFICES ASSUME Q \in Wrong PROVE FALSE
    OBVIOUS
  <2>2. Cardinality(Q) \in Sizes /\ Cardinality(Q) \in Nat /\ Cardinality(R) \in Nat
    BY <1>2, <1>5, <1>8, <2>1
  <2> QED
    BY <1>4, <1>5, <1>9, <2>2
<1>11. GroupsAddUp(of, at, R)
  <2>1. IsFiniteSet(R) /\ \A k \in R : of[k] \in Nat
    BY <1>2, <1>5
  <2>2. GroupsAddUp(of, at, Q)
    BY <1>8, <1>10
  <2> QED
    BY <1>7, <2>1, <2>2, GroupAway
<1> QED
  BY <1>5, <1>11

\* A sum of ones counts.
LEMMA SumOfOnes ==
  ASSUME NEW S, IsFiniteSet(S)
  PROVE  SumOf([k \in S |-> 1], S) = Cardinality(S)
<1> DEFINE of == [k \in S |-> 1]
<1>1. \A k \in S : of[k] = 1 /\ of[k] \in Nat
  OBVIOUS
<1>2. Cells(of, S) = S \X {1}
  <2>1. 1 .. 1 = {1}
    OBVIOUS
  <2>2. \A k \in S : {k} \X (1 .. of[k]) = {k} \X {1}
    BY <1>1, <2>1
  <2> HIDE DEF of
  <2>3. ASSUME NEW c PROVE c \in Cells(of, S) <=> c \in S \X {1}
    BY <2>2 DEF Cells
  <2> QED
    BY <2>3
<1>3. IsFiniteSet({1}) /\ Cardinality({1}) = 1
  BY FS_Singleton
<1>4. Cardinality(S \X {1}) = Cardinality(S) * 1 /\ Cardinality(S) \in Nat
  BY <1>3, FS_Product, FS_CardinalityType
<1>5. SumOf(of, S) = Cardinality(Cells(of, S))
  <2> HIDE DEF of
  <2> QED
    BY <1>1, SumIsCells
<1>6. SumOf(of, S) = Cardinality(S)
  <2> HIDE DEF of
  <2> QED
    BY <1>2, <1>4, <1>5
<1> QED
  BY <1>6

\* The groups have as many members as the whole, and there are no more of them than members.
LEMMA GroupsCount ==
  ASSUME NEW S, IsFiniteSet(S), NEW at
  PROVE  /\ SumOf([g \in KeysOf(at, S) |-> Cardinality(Group(at, S, g))], KeysOf(at, S)) = Cardinality(S)
         /\ IsFiniteSet(KeysOf(at, S)) /\ Cardinality(KeysOf(at, S)) <= Cardinality(S)
<1> DEFINE of == [k \in S |-> 1]
           G == KeysOf(at, S)
           counts == [g \in G |-> Cardinality(Group(at, S, g))]
<1>1. \A k \in S : of[k] \in Nat
  OBVIOUS
<1>2. GroupsAddUp(of, at, S)
  <2> HIDE DEF of
  <2> QED
    BY <1>1, SumGroups
<1>3. ASSUME NEW g \in G PROVE GroupSums(of, at, S)[g] = counts[g]
  <2> DEFINE A == Group(at, S, g)
             ofA == [k \in A |-> 1]
  <2>1. IsFiniteSet(A) /\ \A k \in A : ofA[k] = of[k]
    BY FS_Subset DEF Group
  <2>2. SumOf(ofA, A) = Cardinality(A)
    <3> HIDE DEF A
    <3> QED
      BY <2>1, SumOfOnes
  <2>3. SumOf(ofA, A) = SumOf(of, A)
    <3> HIDE DEF A, of, ofA
    <3> QED
      BY <2>1, SumEqual
  <2> QED
    BY <2>2, <2>3 DEF GroupSums
<1>4. SumOf(GroupSums(of, at, S), G) = SumOf(counts, G)
  <2> HIDE DEF counts, G, of
  <2> QED
    BY <1>3, SumEqual
<1>5. SumOf(of, S) = Cardinality(S)
  BY SumOfOnes
<1>6. IsFiniteSet(G) /\ Cardinality(G) <= Cardinality(S)
  <2> DEFINE key == [k \in S |-> at[k]]
  <2>1. key \in Surjection(S, G)
    BY DEF KeysOf, Surjection
  <2> HIDE DEF key, G
  <2> QED
    BY <2>1, FS_Surjection
<1> QED
  BY <1>2, <1>4, <1>5, <1>6 DEF GroupsAddUp

=============================================================================
