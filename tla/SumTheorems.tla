----------------------------- MODULE SumTheorems -----------------------------
(***************************************************************************)
(* Sums of natural numbers over a finite set, MapThenSumSet of the         *)
(* community modules: what changes when one summand does, that no summand  *)
(* exceeds the sum, and the sum of a constant.  The sum is a recursive     *)
(* function on the subsets, which TLA+ defines with CHOOSE; that such a    *)
(* function exists, and every fact about it, is shown by induction on the  *)
(* subsets, as the absence of a smallest set where the fact fails.         *)
(***************************************************************************)
EXTENDS FiniteSetsExt, FiniteSetTheorems, WellFoundedInduction, TLAPS

\* The element that the sum takes from a set first.
Pick(s) == CHOOSE x \in s : TRUE

\* The equation of the partial sums of f over the subsets of S.
IsSum(g, f, S) ==
    g = [s \in SUBSET S |-> IF s = {} THEN 0 ELSE f[Pick(s)] + g[s \ {Pick(s)}]]

PartialSums(f, S) == CHOOSE g : IsSum(g, f, S)

\* The sum is the last of the partial sums.
LEMMA SumDefinition ==
    ASSUME NEW f, NEW S
    PROVE  MapThenSumSet(LAMBDA a : f[a], S) = PartialSums(f, S)[S]
BY Zenon DEF MapThenSumSet, MapThenFoldSet, PartialSums, IsSum, Pick

-----------------------------------------------------------------------------
(* Induction.                                                               *)

LEMMA LeastNumber ==
    ASSUME NEW T, T \subseteq Nat, T # {}
    PROVE  \E n \in T : \A m \in T : n <= m
<1>1. \E n \in T : \A m \in T : <<m, n>> \notin OpToRel(<, Nat)
  BY WFMin, NatLessThanWellFounded, Zenon
<1>2. \A n, m \in T : <<m, n>> \notin OpToRel(<, Nat) => n <= m
  BY DEF OpToRel
<1> QED
  BY <1>1, <1>2

LEMMA NumberInduction ==
    ASSUME NEW T, 0 \in T, \A n \in Nat : n \in T => n + 1 \in T
    PROVE  Nat \subseteq T
<1> SUFFICES ASSUME Nat \ T # {} PROVE FALSE
  OBVIOUS
<1>1. PICK n \in Nat \ T : \A m \in Nat \ T : n <= m
  BY LeastNumber
<1>2. n # 0 /\ n - 1 \in Nat /\ n - 1 \in T
  BY <1>1
<1> QED
  BY <1>1, <1>2

LEMMA PickType ==
    ASSUME NEW s, s # {}
    PROVE  Pick(s) \in s
BY DEF Pick

\* The subsets of a finite set are built from the empty one in this order.
LEMMA SubsetInduction ==
    ASSUME NEW S, IsFiniteSet(S), NEW T, {} \in T,
           \A s \in SUBSET S : s # {} /\ s \ {Pick(s)} \in T => s \in T
    PROVE  SUBSET S \subseteq T
<1> DEFINE Sizes == {n \in Nat : \A s \in SUBSET S : Cardinality(s) <= n => s \in T}
<1>1. ASSUME NEW s \in SUBSET S
      PROVE  IsFiniteSet(s) /\ Cardinality(s) \in Nat
  BY FS_Subset, FS_CardinalityType
<1>2. 0 \in Sizes
  <2> SUFFICES ASSUME NEW s \in SUBSET S, Cardinality(s) <= 0 PROVE s \in T
    OBVIOUS
  <2>1. Cardinality(s) = 0
    BY <1>1
  <2> QED
    BY <1>1, <2>1, FS_EmptySet
<1>3. ASSUME NEW n \in Nat, n \in Sizes PROVE n + 1 \in Sizes
  <2> SUFFICES ASSUME NEW s \in SUBSET S, Cardinality(s) <= n + 1, s # {} PROVE s \in T
    OBVIOUS
  <2>1. Cardinality(s \ {Pick(s)}) = Cardinality(s) - 1
    BY <1>1, PickType, FS_RemoveElement
  <2>2. Cardinality(s \ {Pick(s)}) <= n
    BY <1>1, <2>1
  <2> QED
    BY <1>3, <2>2
<1> HIDE DEF Sizes
<1>4. Nat \subseteq Sizes
  BY <1>2, <1>3, NumberInduction
<1> USE DEF Sizes
<1> SUFFICES ASSUME NEW s \in SUBSET S PROVE s \in T
  OBVIOUS
<1>5. Cardinality(s) \in Sizes
  BY <1>1, <1>4
<1> QED
  BY <1>1, <1>5

-----------------------------------------------------------------------------
(* The partial sums exist, and are natural numbers.                         *)

LEMMA SumsExist ==
    ASSUME NEW S, IsFiniteSet(S), NEW f \in [S -> Nat]
    PROVE  IsSum(PartialSums(f, S), f, S)
<1> DEFINE Body(g, s) == IF s = {} THEN 0 ELSE f[Pick(s)] + g[s \ {Pick(s)}]
           Extent == {n \in Nat : \E g \in [SUBSET S -> Nat] :
                         \A s \in SUBSET S : Cardinality(s) <= n => g[s] = Body(g, s)}
<1>1. ASSUME NEW s \in SUBSET S
      PROVE  IsFiniteSet(s) /\ Cardinality(s) \in Nat /\ Cardinality(s) <= Cardinality(S)
  BY FS_Subset, FS_CardinalityType
<1>2. 0 \in Extent
  <2>1. ASSUME NEW s \in SUBSET S, Cardinality(s) <= 0
        PROVE  s = {}
    <3>1. Cardinality(s) = 0
      BY <1>1, <2>1
    <3> QED
      BY <1>1, <3>1, FS_EmptySet
  <2>2. [s \in SUBSET S |-> 0] \in [SUBSET S -> Nat]
    OBVIOUS
  <2> QED
    BY <2>1, <2>2
<1>3. ASSUME NEW n \in Nat, n \in Extent PROVE n + 1 \in Extent
  <2>1. PICK g \in [SUBSET S -> Nat] :
           \A s \in SUBSET S : Cardinality(s) <= n => g[s] = Body(g, s)
    BY <1>3
  <2> DEFINE h == [s \in SUBSET S |-> Body(g, s)]
  <2>2. h \in [SUBSET S -> Nat]
    <3> SUFFICES ASSUME NEW s \in SUBSET S PROVE Body(g, s) \in Nat
      OBVIOUS
    <3>1. CASE s # {}
      <4>1. Pick(s) \in S
        BY <3>1, PickType
      <4>2. f[Pick(s)] \in Nat /\ g[s \ {Pick(s)}] \in Nat
        BY <4>1
      <4> QED
        BY <4>2
    <3> QED
      BY <3>1
  <2>3. ASSUME NEW s \in SUBSET S, Cardinality(s) <= n + 1
        PROVE  h[s] = Body(h, s)
    <3>1. CASE s # {}
      <4> DEFINE r == s \ {Pick(s)}
      <4>1. r \in SUBSET S /\ Cardinality(r) <= n
        BY <1>1, <2>3, <3>1, PickType, FS_RemoveElement
      <4>2. h[r] = g[r]
        BY <2>1, <4>1
      <4> QED
        BY <4>2
    <3> QED
      BY <3>1
  <2>4. \A s \in SUBSET S : Cardinality(s) <= n + 1 => h[s] = Body(h, s)
    BY <2>3
  <2> HIDE DEF h
  <2>5. \E e \in [SUBSET S -> Nat] :
           \A s \in SUBSET S : Cardinality(s) <= n + 1 => e[s] = Body(e, s)
    BY <2>2, <2>4, Zenon
  <2> QED
    BY <2>5
<1> HIDE DEF Extent
<1>4. Cardinality(S) \in Extent
  BY <1>1, <1>2, <1>3, NumberInduction
<1> USE DEF Extent
<1>5. PICK g \in [SUBSET S -> Nat] : \A s \in SUBSET S : g[s] = Body(g, s)
  BY <1>1, <1>4
<1>6. IsSum(g, f, S)
  <2>1. g = [s \in SUBSET S |-> Body(g, s)]
    BY <1>5
  <2> QED
    BY <2>1 DEF IsSum
<1> QED
  BY <1>6, Zenon DEF PartialSums

LEMMA PartialSum ==
    ASSUME NEW S, IsFiniteSet(S), NEW f \in [S -> Nat]
    PROVE  /\ PartialSums(f, S)[{}] = 0
           /\ \A s \in SUBSET S :
                 /\ PartialSums(f, S)[s] \in Nat
                 /\ s # {} => PartialSums(f, S)[s]
                                 = f[Pick(s)] + PartialSums(f, S)[s \ {Pick(s)}]
<1> DEFINE g == PartialSums(f, S)
           Numbers == {s \in SUBSET S : g[s] \in Nat}
<1>1. g = [s \in SUBSET S |-> IF s = {} THEN 0 ELSE f[Pick(s)] + g[s \ {Pick(s)}]]
  BY SumsExist DEF IsSum
<1> HIDE DEF g
<1>2. g[{}] = 0
  BY <1>1
<1>3. \A s \in SUBSET S : s # {} => g[s] = f[Pick(s)] + g[s \ {Pick(s)}]
  BY <1>1
<1>4. ASSUME NEW s \in SUBSET S, s # {}, s \ {Pick(s)} \in Numbers
      PROVE  s \in Numbers
  <2>1. f[Pick(s)] \in Nat /\ g[s \ {Pick(s)}] \in Nat
    BY <1>4, PickType
  <2>2. g[s] = f[Pick(s)] + g[s \ {Pick(s)}]
    BY <1>3, <1>4
  <2>3. g[s] \in Nat
    BY <2>1, <2>2
  <2> QED
    BY <2>3
<1>5. {} \in Numbers
  BY <1>2
<1>6. SUBSET S \subseteq Numbers
  <2> HIDE DEF Numbers
  <2> QED
    BY <1>4, <1>5, SubsetInduction
<1> QED
  BY <1>2, <1>3, <1>6 DEF g

-----------------------------------------------------------------------------

LEMMA SumType ==
    ASSUME NEW S, IsFiniteSet(S), NEW f \in [S -> Nat]
    PROVE  MapThenSumSet(LAMBDA a : f[a], S) \in Nat
<1>1. PartialSums(f, S)[S] \in Nat
  BY PartialSum
<1> QED
  BY <1>1, SumDefinition

\* Two functions that differ at one element only.
LEMMA SumChange ==
    ASSUME NEW S, IsFiniteSet(S), NEW f \in [S -> Nat], NEW h \in [S -> Nat],
           NEW a \in S, \A b \in S \ {a} : h[b] = f[b]
    PROVE  MapThenSumSet(LAMBDA b : h[b], S) + f[a] = MapThenSumSet(LAMBDA b : f[b], S) + h[a]
<1> DEFINE F == PartialSums(f, S)
           H == PartialSums(h, S)
           Shifted == {s \in SUBSET S : IF a \in s THEN H[s] + f[a] = F[s] + h[a]
                                                  ELSE H[s] = F[s]}
<1>1. /\ F[{}] = 0 /\ H[{}] = 0
      /\ \A s \in SUBSET S : F[s] \in Nat /\ H[s] \in Nat
      /\ \A s \in SUBSET S : s # {} => /\ F[s] = f[Pick(s)] + F[s \ {Pick(s)}]
                                       /\ H[s] = h[Pick(s)] + H[s \ {Pick(s)}]
  BY PartialSum
<1> HIDE DEF F, H
<1>2. {} \in Shifted
  BY <1>1
<1>3. ASSUME NEW s \in SUBSET S, s # {}, s \ {Pick(s)} \in Shifted
      PROVE  s \in Shifted
  <2> DEFINE p == Pick(s)
             r == s \ {p}
  <2>1. p \in s /\ r \in SUBSET S
    BY <1>3, PickType
  <2>2. /\ F[s] = f[p] + F[r] /\ H[s] = h[p] + H[r]
        /\ F[r] \in Nat /\ H[r] \in Nat /\ F[s] \in Nat /\ H[s] \in Nat
        /\ f[p] \in Nat /\ h[p] \in Nat /\ f[a] \in Nat /\ h[a] \in Nat
    BY <1>1, <1>3, <2>1
  <2> HIDE DEF p
  <2>3. CASE p = a
    <3>1. H[r] = F[r]
      BY <1>3, <2>3 DEF p
    <3> QED
      BY <2>1, <2>2, <2>3, <3>1
  <2>4. CASE p # a
    <3>1. h[p] = f[p]
      BY <2>1, <2>4
    <3>2. IF a \in s THEN H[r] + f[a] = F[r] + h[a] ELSE H[r] = F[r]
      BY <1>3, <2>4 DEF p
    <3> HIDE DEF r
    <3> QED
      BY <2>2, <3>1, <3>2
  <2> QED
    BY <2>3, <2>4
<1>4. SUBSET S \subseteq Shifted
  <2> HIDE DEF Shifted
  <2> QED
    BY <1>2, <1>3, SubsetInduction
<1>5. H[S] + f[a] = F[S] + h[a]
  BY <1>4
<1> QED
  BY <1>5, SumDefinition DEF F, H

\* No summand exceeds the sum.
LEMMA SumBound ==
    ASSUME NEW S, IsFiniteSet(S), NEW f \in [S -> Nat], NEW a \in S
    PROVE  f[a] <= MapThenSumSet(LAMBDA b : f[b], S)
<1> DEFINE F == PartialSums(f, S)
           Bounded == {s \in SUBSET S : a \in s => f[a] <= F[s]}
<1>1. /\ \A s \in SUBSET S : F[s] \in Nat
      /\ \A s \in SUBSET S : s # {} => F[s] = f[Pick(s)] + F[s \ {Pick(s)}]
  BY PartialSum
<1> HIDE DEF F
<1>2. ASSUME NEW s \in SUBSET S, s # {}, s \ {Pick(s)} \in Bounded
      PROVE  s \in Bounded
  <2>1. Pick(s) \in S
    BY <1>2, PickType
  <2>2. /\ F[s] = f[Pick(s)] + F[s \ {Pick(s)}]
        /\ F[s \ {Pick(s)}] \in Nat
        /\ f[Pick(s)] \in Nat /\ f[a] \in Nat
    BY <1>1, <1>2, <2>1
  <2> QED
    BY <1>2, <2>2
<1>3. SUBSET S \subseteq Bounded
  <2> HIDE DEF Bounded
  <2>1. {} \in Bounded
    BY DEF Bounded
  <2> QED
    BY <1>2, <2>1, SubsetInduction
<1>4. f[a] <= F[S]
  BY <1>3
<1> QED
  BY <1>4, SumDefinition DEF F

\* The sum of a constant on a part of the set.
LEMMA SumOfConstant ==
    ASSUME NEW S, IsFiniteSet(S), NEW M \in SUBSET S, NEW c \in Nat,
           NEW f \in [S -> Nat], \A a \in S : f[a] = IF a \in M THEN c ELSE 0
    PROVE  MapThenSumSet(LAMBDA a : f[a], S) = Cardinality(M) * c
<1> DEFINE F == PartialSums(f, S)
           Multiples == {s \in SUBSET S : F[s] = Cardinality(s \cap M) * c}
<1>1. /\ F[{}] = 0
      /\ \A s \in SUBSET S : s # {} => F[s] = f[Pick(s)] + F[s \ {Pick(s)}]
  BY PartialSum
<1> HIDE DEF F
<1>2. {} \in Multiples
  <2>1. Cardinality({} \cap M) = 0
    BY FS_EmptySet
  <2> QED
    BY <1>1, <2>1
<1>3. ASSUME NEW s \in SUBSET S, s # {}, s \ {Pick(s)} \in Multiples
      PROVE  s \in Multiples
  <2> DEFINE p == Pick(s)
             rest == (s \ {p}) \cap M
  <2>1. p \in s
    BY <1>3, PickType
  <2>2. F[s] = f[p] + Cardinality(rest) * c
    BY <1>1, <1>3
  <2>3. IsFiniteSet(rest) /\ Cardinality(rest) \in Nat
    BY FS_Subset, FS_CardinalityType
  <2>4. CASE p \in M
    <3>1. s \cap M = rest \cup {p} /\ p \notin rest
      BY <2>1, <2>4
    <3>2. Cardinality(s \cap M) = Cardinality(rest) + 1
      BY <2>3, <3>1, FS_AddElement
    <3>3. f[p] = c
      BY <2>1, <2>4
    <3> HIDE DEF rest, p
    <3>4. c + Cardinality(rest) * c = (Cardinality(rest) + 1) * c
      BY <2>3
    <3> QED
      BY <2>2, <3>2, <3>3, <3>4
  <2>5. CASE p \notin M
    <3>1. s \cap M = rest /\ f[p] = 0
      BY <2>1, <2>5
    <3>2. F[s] = Cardinality(s \cap M) * c
      <4>1. Cardinality(rest) * c \in Nat
        BY <2>3
      <4> HIDE DEF p, rest
      <4>2. F[s] = Cardinality(rest) * c
        BY <2>2, <3>1, <4>1
      <4> QED
        BY <3>1, <4>2, Zenon
    <3> QED
      BY <3>2
  <2> QED
    BY <2>4, <2>5
<1>4. SUBSET S \subseteq Multiples
  <2> HIDE DEF Multiples
  <2> QED
    BY <1>2, <1>3, SubsetInduction
<1>5. F[S] = Cardinality(S \cap M) * c
  BY <1>4
<1>6. S \cap M = M
  OBVIOUS
<1> QED
  BY <1>5, <1>6, SumDefinition DEF F
=============================================================================
