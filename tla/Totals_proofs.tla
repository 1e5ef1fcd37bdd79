----------------------------- MODULE Totals_proofs -----------------------------
(***************************************************************************)
(* What Total returns: sums of integers are integers, a sum of zeros is    *)
(* zero, and a function changed at one element has a total changed by the  *)
(* difference there.  The induction over the summed set is carried by sets *)
(* (of naturals, of subsets) instead of by predicates.                     *)
(***************************************************************************)
EXTENDS Totals, FiniteSetTheorems, WellFoundedInduction, TLAPS

(* Induction over the natural numbers, for a set of them. *)
LEMMA NatsByInduction ==
    ASSUME NEW T, 0 \in T, \A n \in Nat : n \in T => n + 1 \in T
    PROVE  Nat \subseteq T
  <1> DEFINE R == OpToRel(<, Nat)
             B == Nat \ T
  <1> SUFFICES ASSUME B # {} PROVE FALSE
    OBVIOUS
  <1>1. IsWellFoundedOn(R, Nat)  BY NatLessThanWellFounded
  <1>2. PICK n \in B : \A m \in B : ~(<<m, n>> \in R)
    <2>1. B \subseteq Nat /\ B # {}  OBVIOUS
    <2> HIDE DEF R, B
    <2> QED  BY <1>1, <2>1, WFMin
  <1> HIDE DEF R, B
  <1>0. n \in Nat /\ n \notin T  BY <1>2 DEF B
  <1>3. n - 1 \in Nat /\ n - 1 < n  BY <1>0
  <1>4. <<n - 1, n>> \in R  BY <1>0, <1>3 DEF OpToRel, R
  <1>5. n - 1 \in T  BY <1>2, <1>3, <1>4 DEF B
  <1>6. (n - 1) + 1 \in T  BY <1>3, <1>5
  <1> QED  BY <1>0, <1>6

(* What a fold over the subsets of S does with one of them. *)
Chosen(s) == CHOOSE x \in s : TRUE
Added(f, g, s) == IF s = {} THEN 0 ELSE f[Chosen(s)] + g[s \ {Chosen(s)}]
UpTo(S, n) == {s \in SUBSET S : Cardinality(s) <= n}

(* Taking the chosen element out leaves a subset that is smaller by one.     *)
LEMMA Smaller ==
    ASSUME NEW S, IsFiniteSet(S), NEW s \in SUBSET S, s # {}
    PROVE  /\ Chosen(s) \in s /\ s \ {Chosen(s)} \in SUBSET S
           /\ Cardinality(s) \in Nat /\ Cardinality(s \ {Chosen(s)}) \in Nat
           /\ Cardinality(s) = Cardinality(s \ {Chosen(s)}) + 1
  <1>1. Chosen(s) \in s  BY DEF Chosen
  <1>2. IsFiniteSet(s)  BY FS_Subset
  <1>3. Cardinality(s) \in Nat  BY <1>2, FS_CardinalityType
  <1>4. IsFiniteSet(s \ {Chosen(s)}) /\ Cardinality(s \ {Chosen(s)}) = Cardinality(s) - 1
    BY <1>1, <1>2, FS_RemoveElement
  <1>5. Cardinality(s \ {Chosen(s)}) \in Nat  BY <1>4, FS_CardinalityType
  <1> QED  BY <1>1, <1>3, <1>4, <1>5

(* The fold is defined on every subset: it is a function that satisfies its  *)
(* own equation, built up from the smaller subsets.                          *)
LEMMA FoldDefined ==
    ASSUME NEW S, IsFiniteSet(S), NEW f
    PROVE  \E g : g = [s \in SUBSET S |-> Added(f, g, s)]
  <1> DEFINE T == {n \in Nat : \E g : g = [s \in UpTo(S, n) |-> Added(f, g, s)]}
  <1>1. 0 \in T
    <2> DEFINE g == [s \in UpTo(S, 0) |-> 0]
    <2>1. ASSUME NEW s \in UpTo(S, 0) PROVE s = {}
      <3>1. s \in SUBSET S /\ Cardinality(s) <= 0 /\ IsFiniteSet(s)
        BY FS_Subset DEF UpTo
      <3>2. Cardinality(s) = 0  BY <3>1, FS_CardinalityType
      <3> QED  BY <3>1, <3>2, FS_EmptySet
    <2>2. g = [s \in UpTo(S, 0) |-> Added(f, g, s)]  BY <2>1 DEF Added
    <2> QED  BY <2>2
  <1>2. ASSUME NEW n \in Nat, n \in T PROVE n + 1 \in T
    <2>1. PICK g : g = [s \in UpTo(S, n) |-> Added(f, g, s)]  BY <1>2
    <2> DEFINE h == [s \in UpTo(S, n + 1) |-> Added(f, g, s)]
    <2>2. ASSUME NEW s \in UpTo(S, n + 1) PROVE h[s] = Added(f, h, s)
      <3>1. CASE s = {}  BY <2>2, <3>1 DEF Added
      <3>2. CASE s # {}
        <4> DEFINE t == s \ {Chosen(s)}
        <4>1. s \in SUBSET S /\ Cardinality(s) <= n + 1  BY DEF UpTo
        <4>2. /\ t \in SUBSET S /\ Cardinality(s) \in Nat /\ Cardinality(t) \in Nat
              /\ Cardinality(s) = Cardinality(t) + 1
          BY <3>2, <4>1, Smaller
        <4>3. t \in UpTo(S, n) /\ t \in UpTo(S, n + 1)  BY <4>1, <4>2 DEF UpTo
        <4>4. g[t] = Added(f, g, t)  BY <2>1, <4>3
        <4>5. h[t] = Added(f, g, t)  BY <4>3
        <4> QED  BY <2>2, <3>2, <4>4, <4>5 DEF Added
      <3> QED  BY <3>1, <3>2
    <2>3. h = [s \in UpTo(S, n + 1) |-> Added(f, h, s)]
      <3> HIDE DEF h
      <3>1. DOMAIN h = UpTo(S, n + 1) /\ h = [s \in DOMAIN h |-> h[s]]  BY DEF h
      <3> QED  BY <2>2, <3>1
    <2>4. n + 1 \in Nat /\ \E k : k = [s \in UpTo(S, n + 1) |-> Added(f, k, s)]
      <3> HIDE DEF h
      <3> QED  BY <2>3
    <2> QED  BY <2>4
  <1>3. Cardinality(S) \in T
    <2> HIDE DEF T
    <2>1. Nat \subseteq T  BY <1>1, <1>2, NatsByInduction
    <2> QED  BY <2>1, FS_CardinalityType
  <1>4. UpTo(S, Cardinality(S)) = SUBSET S  BY FS_Subset DEF UpTo
  <1> QED  BY <1>3, <1>4

(* That function, which MapThenFoldSet takes at S.                           *)
Fold(f, S) == CHOOSE g : g = [s \in SUBSET S |-> Added(f, g, s)]

(* It takes out the chosen element first.                                    *)
LEMMA FoldEquation ==
    ASSUME NEW S, IsFiniteSet(S), NEW f, NEW s \in SUBSET S
    PROVE  Fold(f, S)[s] = Added(f, Fold(f, S), s)
  <1>1. Fold(f, S) = [t \in SUBSET S |-> Added(f, Fold(f, S), t)]
    BY FoldDefined DEF Fold
  <1> QED  BY <1>1

(* A total is the fold at the whole set.                                     *)
LEMMA TotalIsFold == ASSUME NEW S, NEW f PROVE Total(f, S) = Fold(f, S)[S]
  BY DEF Total, Fold, MapThenFoldSet, Added, Chosen

(* Induction over the subsets of a finite set, one chosen element at a time. *)
LEMMA SubsetsByInduction ==
    ASSUME NEW S, IsFiniteSet(S), NEW B, {} \in B,
           \A s \in SUBSET S : s # {} /\ s \ {Chosen(s)} \in B => s \in B
    PROVE  SUBSET S \subseteq B
  <1> DEFINE T == {n \in Nat : \A s \in SUBSET S : Cardinality(s) = n => s \in B}
  <1>1. 0 \in T  BY FS_Subset, FS_EmptySet
  <1>2. ASSUME NEW n \in Nat, n \in T PROVE n + 1 \in T
    <2> SUFFICES ASSUME NEW s \in SUBSET S, Cardinality(s) = n + 1 PROVE s \in B
      OBVIOUS
    <2>1. s # {}  BY FS_EmptySet
    <2>2. s \ {Chosen(s)} \in SUBSET S /\ Cardinality(s \ {Chosen(s)}) = n
      BY <2>1, Smaller
    <2> QED  BY <1>2, <2>1, <2>2
  <1>3. Nat \subseteq T
    <2> HIDE DEF T
    <2> QED  BY <1>1, <1>2, NatsByInduction
  <1> SUFFICES ASSUME NEW s \in SUBSET S PROVE s \in B
    OBVIOUS
  <1>4. Cardinality(s) \in Nat  BY FS_Subset, FS_CardinalityType
  <1> QED  BY <1>3, <1>4

(* A sum of integers is an integer. *)
LEMMA TotalIsInt ==
    ASSUME NEW S, IsFiniteSet(S), NEW f \in [S -> Int]
    PROVE  Total(f, S) \in Int
  <1> DEFINE B == {s \in SUBSET S : Fold(f, S)[s] \in Int}
  <1>0. \A s \in SUBSET S : Fold(f, S)[s] = Added(f, Fold(f, S), s)
    BY FoldEquation
  <1>1. {} \in B
    <2>1. Fold(f, S)[{}] = 0  BY <1>0 DEF Added
    <2> QED  BY <2>1
  <1>2. ASSUME NEW s \in SUBSET S, s # {}, s \ {Chosen(s)} \in B PROVE s \in B
    <2>1. f[Chosen(s)] \in Int  BY <1>2, Smaller
    <2>2. Fold(f, S)[s] = f[Chosen(s)] + Fold(f, S)[s \ {Chosen(s)}]
      BY <1>0, <1>2 DEF Added
    <2>3. Fold(f, S)[s \ {Chosen(s)}] \in Int  BY <1>2
    <2>4. Fold(f, S)[s] \in Int  BY <2>1, <2>2, <2>3
    <2> QED  BY <2>4
  <1>3. S \in B
    <2> HIDE DEF B
    <2> QED  BY <1>1, <1>2, SubsetsByInduction
  <1> QED  BY <1>3, TotalIsFold

(* A sum of zeros is zero. *)
LEMMA TotalOfZeros ==
    ASSUME NEW S, IsFiniteSet(S), NEW f, \A x \in S : f[x] = 0
    PROVE  Total(f, S) = 0
  <1> DEFINE B == {s \in SUBSET S : Fold(f, S)[s] = 0}
  <1>1. {} \in B  BY FoldEquation DEF Added
  <1>2. ASSUME NEW s \in SUBSET S, s # {}, s \ {Chosen(s)} \in B PROVE s \in B
    <2>1. f[Chosen(s)] = 0  BY <1>2, Smaller
    <2> QED  BY <1>2, <2>1, FoldEquation DEF Added
  <1>3. S \in B
    <2> HIDE DEF B
    <2> QED  BY <1>1, <1>2, SubsetsByInduction
  <1> QED  BY <1>3, TotalIsFold

(* Changing a function at one element changes its total by the difference. *)
LEMMA TotalChanges ==
    ASSUME NEW S, IsFiniteSet(S), NEW f \in [S -> Int], NEW g \in [S -> Int],
           NEW x \in S, \A y \in S \ {x} : g[y] = f[y]
    PROVE  Total(g, S) = Total(f, S) + (g[x] - f[x])
  <1> DEFINE F == Fold(f, S)
             G == Fold(g, S)
             B == {s \in SUBSET S :
                     /\ F[s] \in Int
                     /\ G[s] = F[s] + (IF x \in s THEN g[x] - f[x] ELSE 0)}
  <1>1. \A s \in SUBSET S : F[s] = Added(f, F, s) /\ G[s] = Added(g, G, s)
    BY FoldEquation
  <1> HIDE DEF F, G
  <1>2. {} \in B
    <2>1. F[{}] = 0 /\ G[{}] = 0  BY <1>1 DEF Added
    <2> QED  BY <2>1
  <1>3. ASSUME NEW s \in SUBSET S, s # {}, s \ {Chosen(s)} \in B PROVE s \in B
    <2> DEFINE c == Chosen(s)
               t == s \ {c}
    <2>1. c \in s /\ t \in SUBSET S  BY <1>3, Smaller
    <2>2. /\ F[t] \in Int
          /\ G[t] = F[t] + (IF x \in t THEN g[x] - f[x] ELSE 0)
      BY <1>3
    <2>3. F[s] = f[c] + F[t] /\ G[s] = g[c] + G[t]  BY <1>1, <1>3 DEF Added
    <2>4. f[c] \in Int /\ g[c] \in Int /\ f[x] \in Int /\ g[x] \in Int  BY <2>1
    <2> HIDE DEF c
    <2>5. CASE c = x  BY <2>1, <2>2, <2>3, <2>4, <2>5
    <2>6. CASE c # x
      <3>1. g[c] = f[c] /\ (x \in s <=> x \in t)  BY <2>1, <2>6
      <3> QED  BY <2>2, <2>3, <2>4, <3>1
    <2> QED  BY <2>5, <2>6
  <1>4. S \in B
    <2> HIDE DEF B
    <2> QED  BY <1>2, <1>3, SubsetsByInduction
  <1> QED  BY <1>4, TotalIsFold DEF F, G
===============================================================================
