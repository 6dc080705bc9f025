------------------------------ MODULE FoldProofs ------------------------------
(* What the folds of the community modules compute, for the operators the    *)
(* models fold (sums of sequences and of sets, the functions of LineText that *)
(* go through a text), and what Sorting does.  The induction behind it is    *)
(* over sets, not over predicates: the provers cannot instantiate the        *)
(* theorems of the library that take an operator.                            *)
EXTENDS LineText, Sorting, FiniteSetsExt, SequencesExt,
        FiniteSetTheorems, FunctionTheorems, SequenceTheorems,
        WellFoundedInduction, TLAPS

-----------------------------------------------------------------------------
(* Induction.                                                               *)

\* A set with 0 and the successor of each of its numbers holds all numbers.
LEMMA NatSetInduction ==
    ASSUME NEW T, 0 \in T, \A n \in Nat : n \in T => n + 1 \in T
    PROVE  Nat \subseteq T
<1> SUFFICES ASSUME Nat \ T # {} PROVE FALSE
  OBVIOUS
<1>1. PICK x \in Nat \ T : \A y \in Nat \ T : ~(<<y, x>> \in OpToRel(<, Nat))
  BY NatLessThanWellFounded, WFMin
<1>2. \A y \in Nat \ T : ~(y < x)
  BY <1>1 DEF OpToRel
<1>3. x # 0 /\ x - 1 \in Nat /\ x - 1 < x
  OBVIOUS
<1>4. x - 1 \in T
  BY <1>2, <1>3
<1>5. (x - 1) + 1 \in T
  BY <1>3, <1>4
<1> QED
  BY <1>5

\* c chooses an element of every subset of S that has one.
Chooses(c, S) == \A t \in SUBSET S : t # {} => c[t] \in t

\* There is a choice for every set.
LEMMA SomeChoice == ASSUME NEW S PROVE \E c : Chooses(c, S)
<1> DEFINE c == [t \in SUBSET S |-> CHOOSE x \in t : TRUE]
<1>1. \A t \in SUBSET S : t # {} => c[t] \in t
  OBVIOUS
<1> QED
  BY <1>1 DEF Chooses

\* A set that has the rest of t after the choice has t as well.
Grows(T, S, c) == \A t \in SUBSET S : t # {} /\ t \ {c[t]} \in T => t \in T

\* The subsets of a finite set are reached one chosen element at a time.
LEMMA SubsetInduction ==
    ASSUME NEW S, IsFiniteSet(S), NEW c, Chooses(c, S),
           NEW T, {} \in T, Grows(T, S, c)
    PROVE  SUBSET S \subseteq T
<1> DEFINE M == {n \in Nat : \A t \in SUBSET S : Cardinality(t) = n => t \in T}
<1>1. \A t \in SUBSET S : IsFiniteSet(t) /\ Cardinality(t) \in Nat
  BY FS_Subset, FS_CardinalityType
<1>2. 0 \in M
  <2>1. \A t \in SUBSET S : Cardinality(t) = 0 => t = {}
    BY <1>1, FS_EmptySet
  <2> QED
    BY <2>1
<1>3. ASSUME NEW n \in Nat, n \in M PROVE n + 1 \in M
  <2> SUFFICES ASSUME NEW t \in SUBSET S, Cardinality(t) = n + 1 PROVE t \in T
    OBVIOUS
  <2>1. t # {}
    <3>1. Cardinality({}) = 0 /\ Cardinality(t) # 0
      BY FS_EmptySet
    <3> QED
      BY <3>1
  <2>2. c[t] \in t /\ t \ {c[t]} \in SUBSET S
    BY <2>1 DEF Chooses
  <2>3. Cardinality(t \ {c[t]}) = n
    <3>1. Cardinality(t \ {c[t]}) = Cardinality(t) - 1
      BY <1>1, <2>2, FS_RemoveElement
    <3> QED
      BY <3>1
  <2>4. t \ {c[t]} \in T
    BY <1>3, <2>2, <2>3
  <2> QED
    BY <2>1, <2>4 DEF Grows
<1> HIDE DEF M
<1>4. Nat \subseteq M
  BY <1>2, <1>3, NatSetInduction
<1> QED
  BY <1>1, <1>4 DEF M

\* G is defined on the elements of S and the values of V.
StepOn(G, S, V) == \A x \in S, v \in V : G[<<x, v>>] \in V

\* f solves the recursion over the subsets of S with the step G.
Recurs(f, S, V, base, c, G) ==
    /\ f \in [SUBSET S -> V]
    /\ f[{}] = base
    /\ \A t \in SUBSET S : t # {} => f[t] = G[<<c[t], f[t \ {c[t]}]>>]

\* Every such recursion has a solution.
LEMMA SubsetRecursion ==
    ASSUME NEW S, IsFiniteSet(S), NEW c, Chooses(c, S),
           NEW V, NEW base \in V, NEW G, StepOn(G, S, V)
    PROVE  \E f : Recurs(f, S, V, base, c, G)
<1> DEFINE Small(n) == {t \in SUBSET S : Cardinality(t) <= n}
           Solves(f, n) == /\ f \in [Small(n) -> V]
                           /\ f[{}] = base
                           /\ \A t \in Small(n) : t # {} => f[t] = G[<<c[t], f[t \ {c[t]}]>>]
           M == {n \in Nat : \E f : Solves(f, n)}
<1>1. \A t \in SUBSET S : IsFiniteSet(t) /\ Cardinality(t) \in Nat
  BY FS_Subset, FS_CardinalityType
<1>2. {} \in SUBSET S /\ Cardinality({}) = 0
  BY FS_EmptySet
<1>3. 0 \in M
  <2>1. \A t \in Small(0) : t = {}
    BY <1>1, FS_EmptySet
  <2>2. {} \in Small(0)
    BY <1>2
  <2>3. Solves([t \in Small(0) |-> base], 0)
    BY <2>1, <2>2
  <2> QED
    BY <2>3
<1>4. ASSUME NEW n \in Nat, n \in M PROVE n + 1 \in M
  <2>1. PICK f : Solves(f, n)
    BY <1>4
  <2> DEFINE g == [t \in Small(n + 1) |-> IF t \in Small(n) THEN f[t]
                                         ELSE G[<<c[t], f[t \ {c[t]}]>>]]
  <2>2. ASSUME NEW t \in Small(n + 1), t # {}
        PROVE  c[t] \in S /\ t \ {c[t]} \in Small(n) /\ t \ {c[t]} \in Small(n + 1)
    <3>1. c[t] \in t
      BY <2>2 DEF Chooses
    <3>2. Cardinality(t \ {c[t]}) = Cardinality(t) - 1
      BY <1>1, <3>1, FS_RemoveElement
    <3>3. Cardinality(t \ {c[t]}) <= n /\ Cardinality(t \ {c[t]}) <= n + 1
      BY <1>1, <3>2
    <3> QED
      BY <3>1, <3>3
  <2>3. {} \in Small(n) /\ {} \in Small(n + 1)
    BY <1>2
  <2>4. \A t \in Small(n) : f[t] \in V
    BY <2>1
  <2>5. ASSUME NEW t \in Small(n + 1), t # {} PROVE G[<<c[t], f[t \ {c[t]}]>>] \in V
    BY <2>2, <2>4, <2>5 DEF StepOn
  <2>6. g \in [Small(n + 1) -> V]
    BY <2>3, <2>4, <2>5
  <2>7. g[{}] = base
    BY <2>1, <2>3
  <2>8. ASSUME NEW t \in Small(n + 1), t # {} PROVE g[t] = G[<<c[t], g[t \ {c[t]}]>>]
    <3>1. g[t \ {c[t]}] = f[t \ {c[t]}]
      BY <2>2, <2>8
    <3>2. g[t] = G[<<c[t], f[t \ {c[t]}]>>]
      BY <2>1, <2>8
    <3> QED
      BY <3>1, <3>2
  <2> HIDE DEF g, Small
  <2>9. Solves(g, n + 1)
    BY <2>6, <2>7, <2>8
  <2> QED
    BY <2>9
<1> HIDE DEF M
<1>5. Nat \subseteq M
  BY <1>3, <1>4, NatSetInduction
<1>6. Cardinality(S) \in M
  BY <1>1, <1>5
<1>7. Small(Cardinality(S)) = SUBSET S
  BY FS_Subset
<1> HIDE DEF Small
<1> QED
  BY <1>6, <1>7 DEF M, Recurs

\* What the choice determines of f it determines of g.
Agree(f, g, S, c) ==
    \A t \in SUBSET S : t # {} /\ f[t \ {c[t]}] = g[t \ {c[t]}] => f[t] = g[t]

\* f is a function on the subsets of S.
MapsSubsets(f, S) == f = [t \in SUBSET S |-> f[t]]

\* There is only one solution.
LEMMA OneSolution ==
    ASSUME NEW S, IsFiniteSet(S), NEW c, Chooses(c, S),
           NEW f, NEW g, Agree(f, g, S, c), f[{}] = g[{}],
           MapsSubsets(f, S), MapsSubsets(g, S)
    PROVE  f = g
<1> DEFINE T == {t \in SUBSET S : f[t] = g[t]}
<1>1. {} \in T
  OBVIOUS
<1>2. Grows(T, S, c)
  BY DEF Grows, Agree
<1> HIDE DEF T
<1>3. SUBSET S \subseteq T
  BY <1>1, <1>2, SubsetInduction
<1>4. \A t \in SUBSET S : f[t] = g[t]
  BY <1>3 DEF T
<1> QED
  BY <1>4 DEF MapsSubsets

-----------------------------------------------------------------------------
(* Least and greatest numbers.                                              *)

\* A finite set of integers that is not empty has a greatest element, and Max
\* is that element.
LEMMA MaxOfFinite ==
    ASSUME NEW S \in SUBSET Int, IsFiniteSet(S), S # {}
    PROVE  Max(S) \in S /\ \A y \in S : y <= Max(S)
<1> DEFINE T == {t \in SUBSET S : t # {} => \E x \in t : \A y \in t : x >= y}
<1>1. PICK c : Chooses(c, S)
  BY SomeChoice
<1>2. Grows(T, S, c)
  <2> SUFFICES ASSUME NEW t \in SUBSET S, t # {}, t \ {c[t]} \in T PROVE t \in T
    BY DEF Grows
  <2>1. PICK m \in t : m = c[t]
    BY <1>1 DEF Chooses
  <2>2. CASE t \ {m} = {}
    <3>1. t = {m} /\ m \in Int
      BY <2>2
    <3>2. \A y \in t : m >= y
      BY <3>1
    <3> QED
      BY <3>2
  <2>3. CASE t \ {m} # {}
    <3>1. PICK x \in t \ {m} : \A y \in t \ {m} : x >= y
      BY <2>1, <2>3
    <3>2. x \in Int /\ m \in Int /\ \A y \in t : y \in Int
      OBVIOUS
    <3>3. CASE x >= m
      <4>1. \A y \in t : x >= y
        BY <3>1, <3>3
      <4> QED
        BY <4>1
    <3>4. CASE ~(x >= m)
      <4>1. ASSUME NEW y \in t PROVE m >= y
        <5>1. y = m \/ x >= y
          BY <3>1
        <5> QED
          BY <3>2, <3>4, <5>1
      <4> QED
        BY <4>1
    <3> QED
      BY <3>3, <3>4
  <2> QED
    BY <2>2, <2>3
<1>3. {} \in T
  OBVIOUS
<1> HIDE DEF T
<1>4. SUBSET S \subseteq T
  BY <1>1, <1>2, <1>3, SubsetInduction
<1>5. \E x \in S : \A y \in S : x >= y
  BY <1>4 DEF T
<1>6. Max(S) \in S /\ \A y \in S : Max(S) >= y
  BY <1>5 DEF Max
<1> QED
  BY <1>6

\* Likewise Min and the least element.
LEMMA MinOfFinite ==
    ASSUME NEW S \in SUBSET Int, IsFiniteSet(S), S # {}
    PROVE  Min(S) \in S /\ \A y \in S : Min(S) <= y
<1> DEFINE T == {t \in SUBSET S : t # {} => \E x \in t : \A y \in t : x <= y}
<1>1. PICK c : Chooses(c, S)
  BY SomeChoice
<1>2. Grows(T, S, c)
  <2> SUFFICES ASSUME NEW t \in SUBSET S, t # {}, t \ {c[t]} \in T PROVE t \in T
    BY DEF Grows
  <2>1. PICK m \in t : m = c[t]
    BY <1>1 DEF Chooses
  <2>2. CASE t \ {m} = {}
    <3>1. t = {m} /\ m \in Int
      BY <2>2
    <3>2. \A y \in t : m <= y
      BY <3>1
    <3> QED
      BY <3>2
  <2>3. CASE t \ {m} # {}
    <3>1. PICK x \in t \ {m} : \A y \in t \ {m} : x <= y
      BY <2>1, <2>3
    <3>2. x \in Int /\ m \in Int /\ \A y \in t : y \in Int
      OBVIOUS
    <3>3. CASE x <= m
      <4>1. \A y \in t : x <= y
        BY <3>1, <3>3
      <4> QED
        BY <4>1
    <3>4. CASE ~(x <= m)
      <4>1. ASSUME NEW y \in t PROVE m <= y
        <5>1. y = m \/ x <= y
          BY <3>1
        <5> QED
          BY <3>2, <3>4, <5>1
      <4> QED
        BY <4>1
    <3> QED
      BY <3>3, <3>4
  <2> QED
    BY <2>2, <2>3
<1>3. {} \in T
  OBVIOUS
<1> HIDE DEF T
<1>4. SUBSET S \subseteq T
  BY <1>1, <1>2, <1>3, SubsetInduction
<1>5. \E x \in S : \A y \in S : x <= y
  BY <1>4 DEF T
<1> QED
  BY <1>5 DEF Min

\* The values of a function on a finite set.
LEMMA FiniteImage ==
    ASSUME NEW D, IsFiniteSet(D), D # {}, NEW h \in [D -> Int]
    PROVE  \E M \in SUBSET Int : M = {h[w] : w \in D} /\ IsFiniteSet(M) /\ M # {}
<1>1. PICK M : M = {h[w] : w \in D}
  OBVIOUS
<1>2. M \subseteq Int /\ M # {}
  BY <1>1
<1>3. h \in Surjection(D, M)
  BY <1>1 DEF Surjection
<1>4. IsFiniteSet(M)
  BY <1>3, FS_Surjection
<1> QED
  BY <1>1, <1>2, <1>4

\* The greatest index of the first n.
LEMMA LastIndex ==
    ASSUME NEW n \in Nat, n # 0
    PROVE  Max(1..n) = n /\ (1..n) \ {n} = 1..(n - 1)
<1>1. Max(1..n) \in 1..n /\ \A y \in 1..n : Max(1..n) >= y
  <2>1. \E x \in 1..n : \A y \in 1..n : x >= y
    OBVIOUS
  <2> QED
    BY <2>1 DEF Max
<1> QED
  BY <1>1

\* The least and the greatest number are the ones that are.
LEMMA MinIs ==
    ASSUME NEW S \in SUBSET Int, NEW m \in S, \A y \in S : m <= y
    PROVE  Min(S) = m
<1>1. Min(S) \in S /\ \A y \in S : Min(S) <= y
  BY DEF Min
<1>2. Min(S) <= m /\ m <= Min(S) /\ m \in Int /\ Min(S) \in Int
  BY <1>1
<1> QED
  BY <1>2

\* An element that no other exceeds is the greatest.
LEMMA MaxIs ==
    ASSUME NEW S \in SUBSET Int, NEW m \in S, \A y \in S : m >= y
    PROVE  Max(S) = m
<1>1. Max(S) \in S /\ \A y \in S : Max(S) >= y
  BY DEF Max
<1>2. Max(S) >= m /\ m >= Max(S) /\ m \in Int /\ Max(S) \in Int
  BY <1>1
<1> QED
  BY <1>2

-----------------------------------------------------------------------------
(* Folds of sequences.                                                      *)

\* c chooses the greatest index.
IsLast(c, n) == \A t \in SUBSET (1..n) : c[t] = Max(t)

\* A set of indices has its greatest.
LEMMA LastElement ==
    ASSUME NEW n \in Nat, NEW t \in SUBSET (1..n), t # {}
    PROVE  Max(t) \in t
<1>1. t \in SUBSET Int
  OBVIOUS
<1>2. IsFiniteSet(1..n)
  BY FS_Interval
<1>3. IsFiniteSet(t)
  BY <1>2, FS_Subset
<1> QED
  BY <1>1, <1>3, MaxOfFinite

\* The greatest element is a choice for the subsets of 1..n.
LEMMA LastChoice ==
    ASSUME NEW n \in Nat
    PROVE  \E c : IsLast(c, n) /\ Chooses(c, 1..n)
<1> DEFINE c == [t \in SUBSET (1..n) |-> Max(t)]
<1>1. \A t \in SUBSET (1..n) : c[t] = Max(t)
  OBVIOUS
<1>2. \A t \in SUBSET (1..n) : t # {} => Max(t) \in t
  BY LastElement
<1> HIDE DEF c
<1> QED
  BY <1>1, <1>2 DEF IsLast, Chooses

\* f is the recursion over sets of indices, p over indices.
Unfolds(f, p, n, V, base, G) ==
    /\ f \in [SUBSET (1..n) -> V] /\ p \in [0..n -> V]
    /\ f[{}] = base
    /\ \A t \in SUBSET (1..n) : t # {} => f[t] = G[<<Max(t), f[t \ {Max(t)}]>>]
    /\ p[0] = base
    /\ \A k \in 1..n : p[k] = G[<<k, p[k - 1]>>]
    /\ f[1..n] = p[n]

\* A recursion from the first to the last index, written over sets of indices
\* as FoldLeft writes it, and over indices.
LEMMA IndexRecursion ==
    ASSUME NEW n \in Nat, NEW V, NEW base \in V, NEW G, StepOn(G, 1..n, V)
    PROVE  \E f, p : Unfolds(f, p, n, V, base, G)
<1>1. IsFiniteSet(1..n)
  BY FS_Interval
<1>2. PICK c : IsLast(c, n) /\ Chooses(c, 1..n)
  BY LastChoice
<1>3. PICK f : Recurs(f, 1..n, V, base, c, G)
  BY <1>1, <1>2, SubsetRecursion
<1>4. /\ f \in [SUBSET (1..n) -> V] /\ f[{}] = base
      /\ \A t \in SUBSET (1..n) : t # {} => f[t] = G[<<Max(t), f[t \ {Max(t)}]>>]
  BY <1>2, <1>3 DEF Recurs, IsLast
<1> DEFINE p == [k \in 0..n |-> f[1..k]]
<1>5. \A k \in 0..n : 1..k \in SUBSET (1..n)
  OBVIOUS
<1>6. p \in [0..n -> V]
  BY <1>4, <1>5
<1>7. p[0] = base
  <2>1. 1..0 = {}
    OBVIOUS
  <2> QED
    BY <1>4, <2>1
<1>8. ASSUME NEW k \in 1..n PROVE p[k] = G[<<k, p[k - 1]>>]
  <2>1. Max(1..k) = k /\ (1..k) \ {k} = 1..(k - 1)
    BY LastIndex
  <2>2. PICK t \in SUBSET (1..n) : t = 1..k
    OBVIOUS
  <2>3. t # {} /\ Max(t) = k /\ t \ {k} = 1..(k - 1)
    <3>1. k \in t
      BY <2>2
    <3> QED
      BY <2>1, <2>2, <3>1
  <2>4. f[t] = G[<<k, f[t \ {k}]>>]
    BY <1>4, <2>3
  <2>5. k \in 0..n /\ k - 1 \in 0..n
    OBVIOUS
  <2>6. p[k] = f[t] /\ p[k - 1] = f[t \ {k}]
    BY <2>2, <2>3, <2>5
  <2> QED
    BY <2>4, <2>6
<1>9. f[1..n] = p[n]
  OBVIOUS
<1> HIDE DEF p
<1> QED
  BY <1>4, <1>6, <1>7, <1>8, <1>9 DEF Unfolds

\* What the values before the last index determine of f they determine of g.
AgreeAtLast(f, g, n) ==
    \A t \in SUBSET (1..n) :
        t # {} /\ f[t \ {Max(t)}] = g[t \ {Max(t)}] => f[t] = g[t]

\* What FoldLeft recurs on is this recursion.
LEMMA FoldSolved ==
    ASSUME NEW n \in Nat, NEW V, NEW base, NEW G, NEW f, NEW p,
           Unfolds(f, p, n, V, base, G),
           NEW g, MapsSubsets(g, 1..n), g[{}] = base, AgreeAtLast(f, g, n)
    PROVE  g[1..n] = p[n]
<1>1. PICK c : IsLast(c, n) /\ Chooses(c, 1..n)
  BY LastChoice
<1>2. IsFiniteSet(1..n)
  BY FS_Interval
<1>3. Agree(f, g, 1..n, c)
  BY <1>1 DEF Agree, AgreeAtLast, IsLast
<1>4. MapsSubsets(f, 1..n) /\ f[{}] = g[{}]
  BY DEF Unfolds, MapsSubsets
<1>5. f = g
  BY <1>1, <1>2, <1>3, <1>4, OneSolution
<1> QED
  BY <1>5 DEF Unfolds

\* p[k] is the sum of the first k numbers of s.
SumsOf(s) ==
    {p \in [0..Len(s) -> Int] :
        p[0] = 0 /\ \A k \in 1..Len(s) : p[k] = p[k - 1] + s[k]}

\* There is one such function.
LEMMA OnePrefix ==
    ASSUME NEW s \in Seq(Int), NEW p \in SumsOf(s), NEW q \in SumsOf(s)
    PROVE  p = q
<1> DEFINE T == {k \in Nat : k <= Len(s) => p[k] = q[k]}
<1>0. Len(s) \in Nat
  OBVIOUS
<1>1. 0 \in T
  BY DEF SumsOf
<1>2. ASSUME NEW k \in Nat, k \in T PROVE k + 1 \in T
  <2> SUFFICES ASSUME k + 1 <= Len(s) PROVE p[k + 1] = q[k + 1]
    OBVIOUS
  <2>1. k + 1 \in 1..Len(s) /\ (k + 1) - 1 = k /\ p[k] = q[k]
    BY <1>0, <1>2
  <2> QED
    BY <2>1 DEF SumsOf
<1> HIDE DEF T
<1>3. Nat \subseteq T
  BY <1>1, <1>2, NatSetInduction
<1>4. \A k \in 0..Len(s) : p[k] = q[k]
  BY <1>0, <1>3 DEF T
<1> QED
  BY <1>4 DEF SumsOf

\* FoldLeft with + adds up a sequence.
LEMMA FoldLeftAdds ==
    ASSUME NEW s \in Seq(Int)
    PROVE  \E p \in SumsOf(s) : FoldLeft(+, 0, s) = p[Len(s)]
<1> DEFINE Step(t, g) == IF t = {} THEN 0 ELSE g[t \ {Max(t)}] + s[Max(t)]
<1>1. PICK n \in Nat : n = Len(s) /\ DOMAIN s = 1..n /\ \A k \in 1..n : s[k] \in Int
  OBVIOUS
<1>2. PICK G : \A k \in 1..n, v \in Int : G[<<k, v>>] = v + s[k]
  <2> DEFINE H == [x \in (1..n) \X Int |-> x[2] + s[x[1]]]
  <2>1. ASSUME NEW k \in 1..n, NEW v \in Int PROVE H[<<k, v>>] = v + s[k]
    <3>1. <<k, v>> \in (1..n) \X Int /\ <<k, v>>[1] = k /\ <<k, v>>[2] = v
      OBVIOUS
    <3> QED
      BY <3>1
  <2> HIDE DEF H
  <2> QED
    BY <2>1
<1>3. PICK f, p : Unfolds(f, p, n, Int, 0, G)
  <2>1. ASSUME NEW k \in 1..n, NEW v \in Int PROVE G[<<k, v>>] \in Int
    <3>1. G[<<k, v>>] = v + s[k] /\ s[k] \in Int
      BY <1>1, <1>2
    <3> QED
      BY <3>1
  <2>2. StepOn(G, 1..n, Int)
    BY <2>1 DEF StepOn
  <2>3. 0 \in Int
    OBVIOUS
  <2> QED
    BY <2>2, <2>3, IndexRecursion
<1>4. p \in SumsOf(s)
  <2>1. p \in [0..n -> Int] /\ \A k \in 1..n : p[k] = G[<<k, p[k - 1]>>]
    BY <1>3 DEF Unfolds
  <2>2. \A k \in 1..n : p[k - 1] \in Int
    BY <2>1
  <2>3. \A k \in 1..n : p[k] = p[k - 1] + s[k]
    BY <1>2, <2>1, <2>2
  <2> QED
    BY <1>1, <1>3, <2>3 DEF SumsOf, Unfolds
<1>5. PICK g : /\ FoldLeft(+, 0, s) = g[DOMAIN s]
               /\ g = CHOOSE h : h = [t \in SUBSET (DOMAIN s) |->
                         IF t = {} THEN 0 ELSE h[t \ {Max(t)}] + s[Max(t)]]
  BY DEF FoldLeft, MapThenFoldSet
<1>6. f = [t \in SUBSET (1..n) |-> Step(t, f)]
  <2>1. ASSUME NEW t \in SUBSET (1..n) PROVE f[t] = Step(t, f)
    <3>1. t # {} => Max(t) \in 1..n /\ f[t \ {Max(t)}] \in Int
      BY <1>3, LastElement DEF Unfolds
    <3> QED
      BY <1>2, <1>3, <3>1 DEF Unfolds
  <2> QED
    BY <1>3, <2>1 DEF Unfolds
<1>7. g = [t \in SUBSET (1..n) |-> Step(t, g)]
  BY <1>1, <1>5, <1>6
<1>8. g[1..n] = p[n]
  <2>1. MapsSubsets(g, 1..n) /\ g[{}] = 0
    BY <1>7 DEF MapsSubsets
  <2>2. AgreeAtLast(f, g, n)
    <3> SUFFICES ASSUME NEW t \in SUBSET (1..n), t # {},
                        f[t \ {Max(t)}] = g[t \ {Max(t)}]
                 PROVE  f[t] = g[t]
      BY DEF AgreeAtLast
    <3>1. f[t] = f[t \ {Max(t)}] + s[Max(t)] /\ g[t] = g[t \ {Max(t)}] + s[Max(t)]
      BY <1>6, <1>7
    <3> QED
      BY <3>1
  <2> QED
    BY <1>3, <2>1, <2>2, FoldSolved
<1> QED
  BY <1>1, <1>4, <1>5, <1>8

-----------------------------------------------------------------------------
(* Sums over sets.                                                          *)

\* f[t] is the sum of h over t, in any order.
Additive(f, S, h) ==
    /\ f \in [SUBSET S -> Int]
    /\ f[{}] = 0
    /\ \A t \in SUBSET S : \A x \in t : f[t] = h[x] + f[t \ {x}]

\* h is a function to the integers on S, and maybe elsewhere.
Summable(h, S) == \A x \in S : h[x] \in Int

\* The sum over a finite set does not depend on the order.
LEMMA SumExists ==
    ASSUME NEW S, IsFiniteSet(S), NEW h, Summable(h, S)
    PROVE  \E f : Additive(f, S, h)
<1>1. PICK c : Chooses(c, S)
  BY SomeChoice
<1>2. PICK G : \A x \in S, v \in Int : G[<<x, v>>] = h[x] + v
  <2> DEFINE H == [z \in S \X Int |-> h[z[1]] + z[2]]
  <2>1. ASSUME NEW x \in S, NEW v \in Int PROVE H[<<x, v>>] = h[x] + v
    <3>1. <<x, v>> \in S \X Int /\ <<x, v>>[1] = x /\ <<x, v>>[2] = v
      OBVIOUS
    <3> QED
      BY <3>1
  <2> HIDE DEF H
  <2> QED
    BY <2>1
<1>3. PICK f : Recurs(f, S, Int, 0, c, G)
  <2>1. ASSUME NEW x \in S, NEW v \in Int PROVE G[<<x, v>>] \in Int
    BY <1>2 DEF Summable
  <2>2. StepOn(G, S, Int)
    BY <2>1 DEF StepOn
  <2>3. 0 \in Int
    OBVIOUS
  <2> QED
    BY <1>1, <2>2, <2>3, SubsetRecursion
<1>4. f \in [SUBSET S -> Int] /\ f[{}] = 0
  BY <1>3 DEF Recurs
<1>5. ASSUME NEW t \in SUBSET S, t # {} PROVE c[t] \in t /\ f[t] = h[c[t]] + f[t \ {c[t]}]
  <2>1. c[t] \in t /\ f[t] = G[<<c[t], f[t \ {c[t]}]>>]
    BY <1>1, <1>3, <1>5 DEF Chooses, Recurs
  <2>2. c[t] \in S /\ f[t \ {c[t]}] \in Int
    BY <1>4, <2>1
  <2> QED
    BY <1>2, <2>1, <2>2
<1> DEFINE Free(t) == \A x \in t : f[t] = h[x] + f[t \ {x}]
           M == {n \in Nat : \A t \in SUBSET S : Cardinality(t) = n => Free(t)}
<1>6. \A t \in SUBSET S : IsFiniteSet(t) /\ Cardinality(t) \in Nat
  BY FS_Subset, FS_CardinalityType
<1>7. 0 \in M
  <2>1. \A t \in SUBSET S : Cardinality(t) = 0 => t = {}
    BY <1>6, FS_EmptySet
  <2> QED
    BY <2>1
<1>8. ASSUME NEW n \in Nat, n \in M PROVE n + 1 \in M
  <2> SUFFICES ASSUME NEW t \in SUBSET S, Cardinality(t) = n + 1, NEW x \in t
               PROVE  f[t] = h[x] + f[t \ {x}]
    OBVIOUS
  <2>1. PICK y \in t : f[t] = h[y] + f[t \ {y}]
    BY <1>5
  <2>2. CASE x = y
    BY <2>1, <2>2
  <2>3. CASE x # y
    <3>1. PICK u \in SUBSET S : u = t \ {x}
      OBVIOUS
    <3>2. PICK v \in SUBSET S : v = t \ {y}
      OBVIOUS
    <3>3. Cardinality(u) = n /\ Cardinality(v) = n
      <4>1. Cardinality(t \ {x}) = Cardinality(t) - 1 /\ Cardinality(t \ {y}) = Cardinality(t) - 1
        BY <1>6, FS_RemoveElement
      <4> QED
        BY <3>1, <3>2, <4>1
    <3>4. Free(u) /\ Free(v)
      BY <1>8, <3>3
    <3>5. y \in u /\ x \in v
      BY <2>3, <3>1, <3>2
    <3>6. f[u] = h[y] + f[u \ {y}] /\ f[v] = h[x] + f[v \ {x}]
      BY <3>4, <3>5
    <3>7. u \ {y} = v \ {x} /\ u \ {y} \in SUBSET S
      BY <3>1, <3>2
    <3>8. PICK z \in Int : z = f[u \ {y}]
      BY <1>4, <3>7
    <3>9. h[x] \in Int /\ h[y] \in Int
      BY DEF Summable
    <3>10. PICK a \in Int, b \in Int : a = h[x] /\ b = h[y]
      BY <3>9
    <3>11. f[u] = b + z /\ f[v] = a + z
      BY <3>6, <3>7, <3>8, <3>10
    <3>12. f[t] = b + f[v]
      BY <2>1, <3>2, <3>10
    <3>13. f[t] = a + f[u]
      BY <3>11, <3>12
    <3> QED
      BY <3>1, <3>10, <3>13
  <2> QED
    BY <2>2, <2>3
<1> HIDE DEF M
<1>9. Nat \subseteq M
  BY <1>7, <1>8, NatSetInduction
<1>10. \A t \in SUBSET S : Free(t)
  BY <1>6, <1>9 DEF M
<1> QED
  BY <1>4, <1>10 DEF Additive

\* g adds the chosen element's value to that of the rest.
AddsChosen(g, S, h, c) ==
    \A t \in SUBSET S : t # {} => g[t] = h[c[t]] + g[t \ {c[t]}]

\* What MapThenSumSet recurs on is the sum.
LEMMA SumIsAdditive ==
    ASSUME NEW S, IsFiniteSet(S), NEW h, NEW f, Additive(f, S, h),
           NEW c, Chooses(c, S),
           NEW g, MapsSubsets(g, S), g[{}] = 0, AddsChosen(g, S, h, c)
    PROVE  g = f
<1>1. MapsSubsets(f, S) /\ f[{}] = g[{}]
  BY DEF Additive, MapsSubsets
<1>2. Agree(f, g, S, c)
  BY DEF Agree, Additive, Chooses, AddsChosen
<1> QED
  BY <1>1, <1>2, OneSolution

-----------------------------------------------------------------------------
(* Sorting.                                                                 *)

\* The smaller numbers of a finite set are finitely many.
LEMMA BelowType ==
    ASSUME NEW S \in SUBSET Int, IsFiniteSet(S), NEW x
    PROVE  IsFiniteSet({y \in S : y < x}) /\ Below(S, x) \in Nat
<1>1. {y \in S : y < x} \subseteq S
  OBVIOUS
<1>2. IsFiniteSet({y \in S : y < x})
  BY <1>1, FS_Subset
<1> QED
  BY <1>2, FS_CardinalityType DEF Below

\* A greater number has more numbers below it.
LEMMA BelowGrows ==
    ASSUME NEW S \in SUBSET Int, IsFiniteSet(S), NEW x \in S, NEW z \in Int, x < z
    PROVE  Below(S, x) < Below(S, z)
<1> DEFINE X == {y \in S : y < x}
           Z == {y \in S : y < z}
<1>1. IsFiniteSet(X) /\ IsFiniteSet(Z) /\ Cardinality(X) \in Nat /\ Cardinality(Z) \in Nat
  BY BelowType DEF Below
<1>2. x \notin X /\ X \cup {x} \subseteq Z
  <2>1. x \in Int /\ \A y \in S : y \in Int
    OBVIOUS
  <2>2. ~(x < x) /\ \A y \in S : y < x => y < z
    BY <2>1
  <2>3. x \notin X
    BY <2>2
  <2>4. x \in Z /\ \A y \in X : y \in Z
    BY <2>2
  <2> QED
    BY <2>3, <2>4
<1>3. Cardinality(X \cup {x}) = Cardinality(X) + 1 /\ IsFiniteSet(X \cup {x})
  BY <1>1, <1>2, FS_AddElement
<1>4. Cardinality(X \cup {x}) <= Cardinality(Z)
  BY <1>1, <1>2, FS_Subset
<1>5. Cardinality(X) < Cardinality(Z)
  BY <1>1, <1>3, <1>4
<1> QED
  BY <1>5 DEF Below

\* The ranks of the numbers of a finite set are 0, 1, 2 and so on.
LEMMA Ranks ==
    ASSUME NEW S \in SUBSET Int, IsFiniteSet(S)
    PROVE  /\ Cardinality(S) \in Nat
           /\ \A x \in S : Below(S, x) \in 0..(Cardinality(S) - 1)
           /\ \A x, z \in S : Below(S, x) = Below(S, z) => x = z
           /\ \A k \in 1..Cardinality(S) : \E x \in S : Below(S, x) = k - 1
<1>1. PICK n \in Nat : n = Cardinality(S)
  BY FS_CardinalityType
<1>2. PICK R : R = 0..(n - 1) /\ IsFiniteSet(R) /\ Cardinality(R) = n
  <2>1. 0 \in Int /\ n - 1 \in Int
    OBVIOUS
  <2>2. IsFiniteSet(0..(n - 1))
    BY <2>1, FS_Interval
  <2>3. Cardinality(0..(n - 1)) = IF 0 > n - 1 THEN 0 ELSE n - 1 - 0 + 1
    BY <2>1, FS_Interval
  <2> QED
    BY <2>2, <2>3
<1>3. ASSUME NEW x \in S PROVE Below(S, x) \in R
  <2>1. {y \in S : y < x} \subseteq S \ {x} /\ IsFiniteSet(S \ {x})
    BY FS_Subset
  <2>2. Cardinality(S \ {x}) = n - 1
    BY <1>1, FS_RemoveElement
  <2>3. Below(S, x) <= n - 1
    BY <2>1, <2>2, FS_Subset DEF Below
  <2>4. Below(S, x) \in Nat
    BY BelowType
  <2> QED
    BY <1>2, <2>3, <2>4
<1>4. ASSUME NEW x \in S, NEW z \in S, Below(S, x) = Below(S, z) PROVE x = z
  <2>1. x \in Int /\ z \in Int /\ Below(S, x) \in Nat
    BY BelowType
  <2>2. ~(x < z)
    <3> SUFFICES ASSUME x < z PROVE FALSE
      OBVIOUS
    <3>1. Below(S, x) < Below(S, z)
      BY <2>1, BelowGrows
    <3> QED
      BY <1>4, <2>1, <3>1
  <2>3. ~(z < x)
    <3> SUFFICES ASSUME z < x PROVE FALSE
      OBVIOUS
    <3>1. Below(S, z) < Below(S, x)
      BY <2>1, BelowGrows
    <3> QED
      BY <1>4, <2>1, <3>1
  <2> QED
    BY <2>1, <2>2, <2>3
<1>5. PICK f : f = [x \in S |-> Below(S, x)]
  OBVIOUS
<1>6. f \in Injection(S, R)
  <2>1. f \in [S -> R]
    BY <1>3, <1>5
  <2>2. \A x, z \in S : f[x] = f[z] => x = z
    BY <1>4, <1>5
  <2> QED
    BY <2>1, <2>2, Fun_IsInj
<1>7. f \in Surjection(S, R)
  BY <1>1, <1>2, <1>6, FS_Injection
<1>8. \A r \in R : \E x \in S : Below(S, x) = r
  BY <1>5, <1>7 DEF Surjection
<1>9. \A k \in 1..n : k - 1 \in R
  BY <1>2
<1> QED
  BY <1>1, <1>2, <1>3, <1>4, <1>8, <1>9

\* Numbers of the same rank are equal.
LEMMA SameRank ==
    ASSUME NEW S \in SUBSET Int, IsFiniteSet(S), NEW x \in S, NEW z \in S,
           Below(S, x) = Below(S, z)
    PROVE  x = z
  BY Ranks

\* q is an ascending sequence of exactly the numbers of S.
Ascends(q, S) ==
    /\ q \in Seq(S) /\ Len(q) = Cardinality(S)
    /\ \A k, m \in 1..Len(q) : k < m => q[k] < q[m]
    /\ \A x \in S : \E k \in 1..Len(q) : q[k] = x

\* Ascending puts a finite set of numbers in order.
LEMMA AscendingAscends ==
    ASSUME NEW S \in SUBSET Int, IsFiniteSet(S)
    PROVE  /\ Ascends(Ascending(S), S)
           /\ \A k \in 1..Cardinality(S) : Below(S, Ascending(S)[k]) = k - 1
<1>1. PICK n \in Nat : n = Cardinality(S)
  BY Ranks
<1>2. PICK q : /\ q = Ascending(S) /\ q \in [1..n -> S]
               /\ \A k \in 1..n : Below(S, q[k]) = k - 1
  <2>1. \A k \in 1..n : \E x \in S : Below(S, x) = k - 1
    BY <1>1, Ranks
  <2>2. Ascending(S) = [k \in 1..n |-> CHOOSE x \in S : Below(S, x) = k - 1]
    BY <1>1 DEF Ascending
  <2>3. \A k \in 1..n : /\ (CHOOSE x \in S : Below(S, x) = k - 1) \in S
                        /\ Below(S, CHOOSE x \in S : Below(S, x) = k - 1) = k - 1
    BY <2>1
  <2> QED
    BY <2>2, <2>3
<1>3. q \in Seq(S) /\ Len(q) = n
  BY <1>2
<1>4. ASSUME NEW k \in 1..n, NEW m \in 1..n, k < m PROVE q[k] < q[m]
  <2>1. PICK x \in S, z \in S : x = q[k] /\ z = q[m]
    BY <1>2
  <2>2. Below(S, x) = k - 1 /\ Below(S, z) = m - 1 /\ x \in Int /\ z \in Int
    BY <1>2, <2>1
  <2>3. ~(z < x)
    <3> SUFFICES ASSUME z < x PROVE FALSE
      OBVIOUS
    <3>1. Below(S, z) < Below(S, x)
      BY <2>2, BelowGrows
    <3> QED
      BY <1>4, <2>2, <3>1
  <2>4. z # x
    BY <1>4, <2>2
  <2> QED
    BY <2>1, <2>2, <2>3, <2>4
<1>5. ASSUME NEW x \in S PROVE \E k \in 1..n : q[k] = x
  <2>1. Below(S, x) \in 0..(n - 1)
    BY <1>1, Ranks
  <2>2. PICK k \in 1..n : Below(S, x) = k - 1
    <3>1. Below(S, x) + 1 \in 1..n
      BY <2>1
    <3> QED
      BY <2>1, <3>1
  <2>3. PICK z \in S : z = q[k] /\ Below(S, z) = Below(S, x)
    BY <1>2, <2>2
  <2>4. q[k] = x
    BY <2>3, SameRank
  <2> QED
    BY <2>4
<1> QED
  BY <1>1, <1>2, <1>3, <1>4, <1>5 DEF Ascends

\* There is only one ascending sequence of the numbers of a set.
LEMMA OneAscending ==
    ASSUME NEW S \in SUBSET Int, IsFiniteSet(S), NEW q, Ascends(q, S)
    PROVE  q = Ascending(S)
<1>1. PICK n \in Nat : /\ n = Cardinality(S) /\ q \in [1..n -> S] /\ Len(q) = n
                       /\ \A k \in 1..n : q[k] \in S /\ q[k] \in Int
  <2>1. q \in Seq(S) /\ Len(q) = Cardinality(S)
    BY DEF Ascends
  <2>2. Len(q) \in Nat /\ q \in [1..Len(q) -> S]
    BY <2>1
  <2> QED
    BY <2>1, <2>2
<1>2. /\ \A k, m \in 1..n : k < m => q[k] < q[m]
      /\ \A x \in S : \E k \in 1..n : q[k] = x
  BY <1>1 DEF Ascends
<1>3. ASSUME NEW k \in 1..n PROVE Below(S, q[k]) = k - 1
  <2>1. PICK J, B : J = 1..(k - 1) /\ B = {y \in S : y < q[k]}
    OBVIOUS
  <2>2. PICK f : f = [j \in J |-> q[j]]
    OBVIOUS
  <2>3. \A j \in J : j \in 1..n /\ j < k
    BY <2>1
  <2>4. f \in Bijection(J, B)
    <3>1. \A j \in J : q[j] \in B
      BY <1>1, <1>2, <2>1, <2>3
    <3>2. f \in [J -> B]
      BY <2>2, <3>1
    <3>3. ASSUME NEW i \in J, NEW j \in J, f[i] = f[j] PROVE i = j
      <4>1. i \in 1..n /\ j \in 1..n /\ q[i] = q[j] /\ q[i] \in Int
        BY <1>1, <2>2, <2>3, <3>3
      <4>2. ~(i < j) /\ ~(j < i)
        BY <1>1, <1>2, <4>1
      <4> QED
        BY <4>1, <4>2
    <3>4. ASSUME NEW y \in B PROVE \E j \in J : f[j] = y
      <4>1. PICK j \in 1..n : q[j] = y
        BY <1>2, <2>1
      <4>2. ~(k < j) /\ j # k
        <5>1. y < q[k] /\ y \in Int /\ q[k] \in Int
          BY <1>1, <2>1
        <5>2. k < j => q[k] < q[j]
          BY <1>2
        <5> QED
          BY <4>1, <5>1, <5>2
      <4>3. j \in J
        BY <2>1, <4>2
      <4> QED
        BY <2>2, <4>1, <4>3
    <3> QED
      BY <3>2, <3>3, <3>4, Fun_IsBij
  <2>5. IsFiniteSet(J) /\ Cardinality(J) = k - 1
    <3>1. 1 \in Int /\ k - 1 \in Int
      OBVIOUS
    <3>2. IsFiniteSet(1..(k - 1))
      BY <3>1, FS_Interval
    <3>3. Cardinality(1..(k - 1)) = IF 1 > k - 1 THEN 0 ELSE k - 1 - 1 + 1
      BY <3>1, FS_Interval
    <3> QED
      BY <2>1, <3>2, <3>3
  <2>6. Cardinality(B) = k - 1
    BY <2>4, <2>5, FS_Bijection DEF ExistsBijection
  <2> QED
    BY <2>1, <2>6 DEF Below
<1>4. PICK a : /\ a = Ascending(S) /\ a \in [1..n -> S]
               /\ \A k \in 1..n : Below(S, a[k]) = k - 1
  <2>1. Ascends(Ascending(S), S) /\ \A k \in 1..n : Below(S, Ascending(S)[k]) = k - 1
    BY <1>1, AscendingAscends
  <2> QED
    BY <1>1, <2>1 DEF Ascends
<1>5. \A k \in 1..n : q[k] = a[k]
  <2> SUFFICES ASSUME NEW k \in 1..n PROVE q[k] = a[k]
    OBVIOUS
  <2>1. PICK x \in S, z \in S : x = q[k] /\ z = a[k] /\ Below(S, x) = Below(S, z)
    BY <1>1, <1>3, <1>4
  <2> QED
    BY <2>1, SameRank
<1> QED
  BY <1>1, <1>4, <1>5

\* A sequence without repetitions, sorted, is the set of its numbers, sorted.
LEMMA SortedIsAscending ==
    ASSUME NEW s \in Seq(Int), \A k, m \in DOMAIN s : s[k] = s[m] => k = m
    PROVE  Sorted(s) = Ascending(ToSet(s))
<1>1. PICK n \in Nat : n = Len(s) /\ DOMAIN s = 1..n /\ \A k \in 1..n : s[k] \in Int
  OBVIOUS
<1>2. PICK S \in SUBSET Int : S = ToSet(s) /\ S = {s[k] : k \in 1..n}
  <2>1. ToSet(s) = {s[k] : k \in 1..n} /\ {s[k] : k \in 1..n} \in SUBSET Int
    BY <1>1 DEF ToSet
  <2> QED
    BY <2>1
<1>3. IsFiniteSet(S) /\ Cardinality(S) = n
  <2>1. s \in Bijection(1..n, S)
    <3>1. s \in [1..n -> S]
      BY <1>1, <1>2
    <3>2. \A k, m \in 1..n : s[k] = s[m] => k = m
      BY <1>1
    <3>3. \A x \in S : \E k \in 1..n : s[k] = x
      BY <1>2
    <3> QED
      BY <3>1, <3>2, <3>3, Fun_IsBij
  <2>2. 1 \in Int /\ n \in Int
    OBVIOUS
  <2>3. IsFiniteSet(1..n)
    BY <2>2, FS_Interval
  <2>4. Cardinality(1..n) = IF 1 > n THEN 0 ELSE n - 1 + 1
    BY <2>2, FS_Interval
  <2>5. Cardinality(S) = Cardinality(1..n) /\ IsFiniteSet(S)
    BY <2>1, <2>3, FS_Bijection DEF ExistsBijection
  <2> QED
    BY <2>4, <2>5
<1>4. ASSUME NEW k \in 1..n PROVE Before(s, k) = Below(S, s[k])
  <2>1. PICK J, B : J = {j \in 1..n : s[j] < s[k]} /\ B = {y \in S : y < s[k]}
    OBVIOUS
  <2>2. Before(s, k) = Cardinality(J)
    <3>1. {j \in DOMAIN s : s[j] < s[k] \/ (s[j] = s[k] /\ j < k)} = J
      <4>1. \A j \in 1..n : ~(s[j] = s[k] /\ j < k)
        BY <1>1
      <4> QED
        BY <1>1, <2>1, <4>1
    <3> QED
      BY <3>1 DEF Before
  <2>3. PICK f : f = [j \in J |-> s[j]]
    OBVIOUS
  <2>4. f \in Bijection(J, B)
    <3>1. f \in [J -> B]
      BY <1>2, <2>1, <2>3
    <3>2. \A i, j \in J : f[i] = f[j] => i = j
      BY <1>1, <2>1, <2>3
    <3>3. \A y \in B : \E j \in J : f[j] = y
      BY <1>2, <2>1, <2>3
    <3> QED
      BY <3>1, <3>2, <3>3, Fun_IsBij
  <2>5. IsFiniteSet(J)
    <3>1. 1 \in Int /\ n \in Int
      OBVIOUS
    <3>2. IsFiniteSet(1..n)
      BY <3>1, FS_Interval
    <3>3. J \subseteq 1..n
      BY <2>1
    <3> QED
      BY <3>2, <3>3, FS_Subset
  <2>6. Cardinality(B) = Cardinality(J)
    BY <2>4, <2>5, FS_Bijection DEF ExistsBijection
  <2> QED
    BY <2>1, <2>2, <2>6 DEF Below
<1>5. PICK a : /\ a = Ascending(S) /\ a \in [1..n -> S]
               /\ \A m \in 1..n : Below(S, a[m]) = m - 1
  <2>1. Ascends(Ascending(S), S) /\ \A m \in 1..n : Below(S, Ascending(S)[m]) = m - 1
    BY <1>3, AscendingAscends
  <2> QED
    BY <1>3, <2>1 DEF Ascends
<1>6. ASSUME NEW m \in 1..n
      PROVE  s[CHOOSE k \in 1..n : Before(s, k) = m - 1] = a[m]
  <2>1. PICK j \in 1..n : s[j] = a[m]
    BY <1>2, <1>5
  <2>2. Before(s, j) = m - 1
    BY <1>4, <1>5, <2>1
  <2>3. PICK k \in 1..n : /\ k = CHOOSE i \in 1..n : Before(s, i) = m - 1
                          /\ Before(s, k) = m - 1
    BY <2>2
  <2>4. PICK x \in S, z \in S : x = s[k] /\ z = a[m] /\ Below(S, x) = Below(S, z)
    BY <1>2, <1>4, <1>5, <2>3
  <2>5. s[k] = a[m]
    BY <1>3, <2>4, SameRank
  <2> QED
    BY <2>3, <2>5
<1>7. Sorted(s) = [m \in 1..n |-> s[CHOOSE k \in 1..n : Before(s, k) = m - 1]]
  BY <1>1 DEF Sorted
<1>8. Sorted(s) = [m \in 1..n |-> a[m]]
  BY <1>6, <1>7
<1>9. a = [m \in 1..n |-> a[m]]
  BY <1>5
<1> QED
  BY <1>2, <1>5, <1>8, <1>9

-----------------------------------------------------------------------------
(* Sums that change by one step.                                            *)

\* The sum of a sequence.
Total(s) == FoldLeft(+, 0, s)

\* The empty sequence adds up to nothing.
LEMMA TotalEmpty == Total(<<>>) = 0
<1>0. <<>> \in Seq(Int)
  OBVIOUS
<1>1. PICK e \in Seq(Int) : e = <<>>
  BY <1>0
<1>2. PICK p \in SumsOf(e) : Total(e) = p[Len(e)]
  BY FoldLeftAdds DEF Total
<1>3. p[0] = 0 /\ Len(e) = 0
  BY <1>1 DEF SumsOf
<1> QED
  BY <1>1, <1>2, <1>3

\* A number at the end is added.
LEMMA TotalAppend ==
    ASSUME NEW s \in Seq(Int), NEW x \in Int
    PROVE  Total(s) \in Int /\ Total(Append(s, x)) = Total(s) + x
<1>1. PICK n \in Nat : n = Len(s) /\ \A k \in 1..n : s[k] \in Int
  OBVIOUS
<1>2. PICK w \in Seq(Int) : /\ w = Append(s, x) /\ Len(w) = n + 1 /\ w[n + 1] = x
                            /\ \A k \in 1..n : w[k] = s[k]
  <2>1. Append(s, x) \in Seq(Int) /\ Len(Append(s, x)) = n + 1
    BY <1>1
  <2>2. Append(s, x)[n + 1] = x
    BY <1>1
  <2>3. ASSUME NEW k \in 1..n PROVE Append(s, x)[k] = s[k]
    BY <1>1
  <2> QED
    BY <2>1, <2>2, <2>3
<1>3. PICK p \in SumsOf(s) : Total(s) = p[n]
  BY <1>1, FoldLeftAdds DEF Total
<1>4. PICK q \in SumsOf(w) : Total(w) = q[n + 1]
  BY <1>2, FoldLeftAdds DEF Total
<1>5. PICK r : r = [k \in 0..n |-> q[k]]
  OBVIOUS
<1>6. r \in SumsOf(s)
  <2>1. \A k \in 0..n : k \in 0..(n + 1) /\ q[k] \in Int /\ r[k] = q[k]
    BY <1>2, <1>5 DEF SumsOf
  <2>2. \A k \in 1..n : k \in 1..(n + 1) /\ k \in 0..n /\ k - 1 \in 0..n
    OBVIOUS
  <2>3. \A k \in 1..n : r[k] = r[k - 1] + s[k]
    BY <1>2, <2>1, <2>2 DEF SumsOf
  <2>4. r \in [0..n -> Int] /\ r[0] = 0
    BY <1>5, <2>1 DEF SumsOf
  <2> QED
    BY <1>1, <2>3, <2>4 DEF SumsOf
<1>7. r = p
  BY <1>3, <1>6, OnePrefix
<1>8. q[n + 1] = q[n] + x /\ q[n] = p[n] /\ p[n] \in Int
  <2>1. n + 1 \in 1..(n + 1) /\ (n + 1) - 1 = n /\ n \in 0..n
    OBVIOUS
  <2>2. q[n + 1] = q[n] + x
    BY <1>2, <2>1 DEF SumsOf
  <2> QED
    BY <1>1, <1>3, <1>5, <1>7, <2>1, <2>2 DEF SumsOf
<1> QED
  BY <1>2, <1>3, <1>4, <1>8

\* A number taken from the front is no longer added.
LEMMA TotalTail ==
    ASSUME NEW s \in Seq(Int), s # <<>>
    PROVE  Total(s) \in Int /\ Total(Tail(s)) = Total(s) - Head(s)
<1>1. PICK n \in Nat : n + 1 = Len(s) /\ \A k \in 1..(n + 1) : s[k] \in Int
  <2>1. PICK l \in Nat : l = Len(s) /\ l # 0
    OBVIOUS
  <2>2. l - 1 \in Nat /\ (l - 1) + 1 = l /\ \A k \in 1..l : s[k] \in Int
    BY <2>1
  <2> QED
    BY <2>1, <2>2
<1>2. PICK w \in Seq(Int) : /\ w = Tail(s) /\ Len(w) = n
                            /\ \A k \in 1..n : w[k] = s[k + 1]
  <2>1. Tail(s) \in Seq(Int) /\ Len(Tail(s)) = n
    BY <1>1
  <2>2. ASSUME NEW k \in 1..n PROVE Tail(s)[k] = s[k + 1]
    BY <1>1
  <2> QED
    BY <2>1, <2>2
<1>3. PICK p \in SumsOf(s) : Total(s) = p[n + 1]
  BY <1>1, FoldLeftAdds DEF Total
<1>4. PICK q \in SumsOf(w) : Total(w) = q[n]
  BY <1>2, FoldLeftAdds DEF Total
<1>5. PICK r : r = [k \in 0..n |-> p[k + 1] - p[1]]
  OBVIOUS
<1>6. /\ \A k \in 0..(n + 1) : p[k] \in Int
      /\ p[0] = 0 /\ \A k \in 1..(n + 1) : p[k] = p[k - 1] + s[k]
  BY <1>1 DEF SumsOf
<1>7. r \in SumsOf(w)
  <2>1. \A k \in 0..n : k + 1 \in 0..(n + 1) /\ r[k] = p[k + 1] - p[1]
    BY <1>5
  <2>2. 1 \in 0..(n + 1)
    OBVIOUS
  <2>3. ASSUME NEW k \in 0..n PROVE r[k] \in Int
    <3>1. p[k + 1] \in Int /\ p[1] \in Int
      BY <1>6, <2>1, <2>2
    <3> QED
      BY <2>1, <3>1
  <2>4. r \in [0..n -> Int] /\ r[0] = 0
    BY <1>5, <1>6, <2>1, <2>2, <2>3
  <2>5. ASSUME NEW k \in 1..n PROVE r[k] = r[k - 1] + w[k]
    <3>1. /\ k \in 0..n /\ k - 1 \in 0..n /\ (k - 1) + 1 = k
          /\ k + 1 \in 1..(n + 1) /\ (k + 1) - 1 = k /\ k \in 0..(n + 1)
      OBVIOUS
    <3>2. p[k + 1] = p[k] + s[k + 1]
      BY <1>6, <3>1
    <3>3. r[k] = p[k + 1] - p[1] /\ r[k - 1] = p[k] - p[1]
      BY <2>1, <3>1
    <3>4. w[k] = s[k + 1] /\ s[k + 1] \in Int /\ p[k] \in Int /\ p[1] \in Int
      BY <1>1, <1>2, <1>6, <2>2, <3>1
    <3> QED
      BY <3>2, <3>3, <3>4
  <2> QED
    BY <1>2, <2>4, <2>5 DEF SumsOf
<1>8. r = q
  BY <1>4, <1>7, OnePrefix
<1>9. p[1] = s[1] /\ Head(s) = s[1] /\ p[n + 1] \in Int /\ p[1] \in Int
  <2>1. 1 \in 1..(n + 1) /\ 1 \in 0..(n + 1) /\ n + 1 \in 0..(n + 1) /\ 1 - 1 = 0
    OBVIOUS
  <2> QED
    BY <1>1, <1>6, <2>1
<1>10. q[n] = p[n + 1] - p[1]
  BY <1>5, <1>8
<1> QED
  BY <1>2, <1>3, <1>4, <1>9, <1>10

\* The sum of h over S.
SumOf(h, S) == MapThenSumSet(LAMBDA x : h[x], S)

\* It is the sum, in any order.
LEMMA SumOfIs ==
    ASSUME NEW S, IsFiniteSet(S), NEW h, Summable(h, S), NEW f, Additive(f, S, h)
    PROVE  SumOf(h, S) = f[S]
<1>1. PICK c : c = [t \in SUBSET S |-> CHOOSE x \in t : TRUE]
  OBVIOUS
<1>2. Chooses(c, S)
  BY <1>1 DEF Chooses
<1>3. PICK g : /\ SumOf(h, S) = g[S]
               /\ g = CHOOSE e : e = [t \in SUBSET S |->
                          IF t = {} THEN 0
                          ELSE h[CHOOSE x \in t : TRUE] + e[t \ {CHOOSE x \in t : TRUE}]]
  BY DEF SumOf, MapThenSumSet, MapThenFoldSet
<1> DEFINE Step(t, e) == IF t = {} THEN 0
                         ELSE h[CHOOSE x \in t : TRUE] + e[t \ {CHOOSE x \in t : TRUE}]
<1>4. f = [t \in SUBSET S |-> Step(t, f)]
  <2>1. ASSUME NEW t \in SUBSET S PROVE f[t] = Step(t, f)
    <3>1. t # {} => (CHOOSE x \in t : TRUE) \in t
      OBVIOUS
    <3> QED
      BY <3>1 DEF Additive
  <2> HIDE DEF Step
  <2> QED
    BY <2>1 DEF Additive
<1>5. g = [t \in SUBSET S |-> Step(t, g)]
  <2>1. g = CHOOSE e : e = [t \in SUBSET S |-> Step(t, e)]
    BY <1>3
  <2> HIDE DEF Step
  <2> QED
    BY <1>4, <2>1
<1>6. MapsSubsets(g, S) /\ g[{}] = 0 /\ AddsChosen(g, S, h, c)
  <2>1. g[{}] = 0 /\ \A t \in SUBSET S : g[t] = Step(t, g)
    BY <1>5
  <2>2. ASSUME NEW t \in SUBSET S, t # {}
        PROVE  g[t] = h[c[t]] + g[t \ {c[t]}]
    BY <1>1, <2>1, <2>2
  <2>3. MapsSubsets(g, S)
    BY <1>5 DEF MapsSubsets
  <2> QED
    BY <2>1, <2>2, <2>3 DEF AddsChosen
<1>7. g = f
  BY <1>2, <1>6, SumIsAdditive
<1> QED
  BY <1>3, <1>7

\* It is a number.
LEMMA SumOfType ==
    ASSUME NEW S, IsFiniteSet(S), NEW h, Summable(h, S)
    PROVE  SumOf(h, S) \in Int
<1>1. PICK f : Additive(f, S, h)
  BY SumExists
<1>2. f[S] \in Int
  BY <1>1 DEF Additive
<1> QED
  BY <1>1, <1>2, SumOfIs

\* h and k have the same values on t.
Agreeing(h, k, t) == \A x \in t : h[x] = k[x]

\* Functions with the same values have the same sum.
LEMMA SumsAgree ==
    ASSUME NEW S, IsFiniteSet(S), NEW h, NEW k, NEW f, NEW g,
           Additive(f, S, h), Additive(g, S, k), NEW t \in SUBSET S, Agreeing(h, k, t)
    PROVE  f[t] = g[t]
<1>1. PICK c : Chooses(c, S)
  BY SomeChoice
<1> DEFINE T == {u \in SUBSET S : u \subseteq t => f[u] = g[u]}
<1>2. {} \in T
  BY DEF Additive
<1>3. Grows(T, S, c)
  <2> SUFFICES ASSUME NEW u \in SUBSET S, u # {}, u \ {c[u]} \in T, u \subseteq t
               PROVE  f[u] = g[u]
    BY DEF Grows
  <2>1. PICK x \in u : x = c[u]
    BY <1>1 DEF Chooses
  <2>2. f[u] = h[x] + f[u \ {x}] /\ g[u] = k[x] + g[u \ {x}]
    BY DEF Additive
  <2>3. f[u \ {x}] = g[u \ {x}] /\ h[x] = k[x]
    BY <2>1 DEF Agreeing
  <2> QED
    BY <2>2, <2>3
<1> HIDE DEF T
<1>4. t \in T
  BY <1>1, <1>2, <1>3, SubsetInduction
<1> QED
  BY <1>4 DEF T

\* When the value of one element changes, the sum changes as much.
LEMMA SumOfOne ==
    ASSUME NEW S, IsFiniteSet(S), NEW h, NEW k, Summable(h, S), Summable(k, S),
           NEW x \in S, Agreeing(h, k, S \ {x})
    PROVE  SumOf(h, S) \in Int /\ SumOf(k, S) = SumOf(h, S) - h[x] + k[x]
<1>1. PICK f : Additive(f, S, h)
  BY SumExists
<1>2. PICK g : Additive(g, S, k)
  BY SumExists
<1>3. SumOf(h, S) = f[S] /\ SumOf(k, S) = g[S]
  BY <1>1, <1>2, SumOfIs
<1>4. PICK t \in SUBSET S : t = S \ {x}
  OBVIOUS
<1>5. f[t] = g[t]
  BY <1>1, <1>2, <1>4, SumsAgree
<1>6. /\ f[S] = h[x] + f[t] /\ g[S] = k[x] + g[t]
      /\ f[S] \in Int /\ f[t] \in Int /\ h[x] \in Int /\ k[x] \in Int
  BY <1>1, <1>2, <1>4 DEF Additive, Summable
<1> QED
  BY <1>3, <1>5, <1>6

\* The sum of zeroes.
LEMMA SumOfZeroes ==
    ASSUME NEW S, IsFiniteSet(S), NEW h, \A x \in S : h[x] = 0
    PROVE  SumOf(h, S) = 0
<1>1. PICK f : f = [t \in SUBSET S |-> 0]
  OBVIOUS
<1>2. Additive(f, S, h)
  <2>1. f \in [SUBSET S -> Int] /\ f[{}] = 0
    BY <1>1
  <2>2. ASSUME NEW t \in SUBSET S, NEW x \in t PROVE f[t] = h[x] + f[t \ {x}]
    BY <1>1
  <2> QED
    BY <2>1, <2>2 DEF Additive
<1>3. Summable(h, S)
  BY DEF Summable
<1> QED
  BY <1>1, <1>2, <1>3, SumOfIs

-----------------------------------------------------------------------------
(* Sequences without repetitions.                                           *)

Distinct(s) == \A k, m \in DOMAIN s : s[k] = s[m] => k = m

\* One number is at one place or at none.
LEMMA PlacesOf ==
    ASSUME NEW S, NEW s \in Seq(S), Distinct(s), NEW i
    PROVE  Cardinality({k \in DOMAIN s : s[k] = i}) =
               IF \E k \in DOMAIN s : s[k] = i THEN 1 ELSE 0
<1>1. CASE \E k \in DOMAIN s : s[k] = i
  <2>1. PICK k \in DOMAIN s : s[k] = i
    BY <1>1
  <2>2. {m \in DOMAIN s : s[m] = i} = {k}
    BY <2>1 DEF Distinct
  <2> QED
    BY <1>1, <2>2, FS_Singleton
<1>2. CASE ~\E k \in DOMAIN s : s[k] = i
  <2>1. {m \in DOMAIN s : s[m] = i} = {}
    BY <1>2
  <2> QED
    BY <1>2, <2>1, FS_EmptySet
<1> QED
  BY <1>1, <1>2

\* Adding d to the numbers of a set keeps their order.
LEMMA ShiftAscending ==
    ASSUME NEW S \in SUBSET Int, IsFiniteSet(S), NEW d \in Int
    PROVE  [k \in DOMAIN Ascending(S) |-> d + Ascending(S)[k]] = Ascending({d + x : x \in S})
<1>0. PICK n \in Nat : n = Cardinality(S)
  BY FS_CardinalityType
<1>1. PICK a : n = Cardinality(S) /\ a = Ascending(S) /\ Ascends(a, S)
  BY <1>0, AscendingAscends
<1>2. /\ DOMAIN a = 1..n /\ \A k \in 1..n : a[k] \in S /\ a[k] \in Int
      /\ \A k, m \in 1..n : k < m => a[k] < a[m]
      /\ \A x \in S : \E k \in 1..n : a[k] = x
  <2>1. a \in Seq(S) /\ Len(a) = n
    BY <1>1 DEF Ascends
  <2>2. DOMAIN a = 1..n /\ \A k \in 1..n : a[k] \in S
    BY <2>1
  <2> QED
    BY <1>1, <2>1, <2>2 DEF Ascends
<1>3. PICK Z \in SUBSET Int : Z = {d + x : x \in S}
  <2>1. \A x \in S : d + x \in Int
    OBVIOUS
  <2>2. {d + x : x \in S} \in SUBSET Int
    BY <2>1
  <2> QED
    BY <2>2
<1>4. PICK q : q = [k \in 1..n |-> d + a[k]]
  OBVIOUS
<1>5. IsFiniteSet(Z) /\ Cardinality(Z) = n
  <2>1. PICK f : f = [x \in S |-> d + x]
    OBVIOUS
  <2>2. f \in Bijection(S, Z)
    <3>1. f \in [S -> Z]
      BY <1>3, <2>1
    <3>2. \A x, y \in S : f[x] = f[y] => x = y
      BY <2>1
    <3>3. \A z \in Z : \E x \in S : f[x] = z
      BY <1>3, <2>1
    <3> QED
      BY <3>1, <3>2, <3>3, Fun_IsBij
  <2> QED
    BY <1>1, <2>2, FS_Bijection DEF ExistsBijection
<1>6. Ascends(q, Z)
  <2>1. q \in [1..n -> Z]
    BY <1>2, <1>3, <1>4
  <2>2. q \in Seq(Z) /\ Len(q) = n
    BY <2>1
  <2>3. \A k, m \in 1..n : k < m => q[k] < q[m]
    <3> SUFFICES ASSUME NEW k \in 1..n, NEW m \in 1..n, k < m PROVE q[k] < q[m]
      OBVIOUS
    <3>1. a[k] < a[m] /\ a[k] \in Int /\ a[m] \in Int
      BY <1>2
    <3> QED
      BY <1>4, <3>1
  <2>4. ASSUME NEW z \in Z PROVE \E k \in 1..n : q[k] = z
    <3>1. PICK x \in S : z = d + x
      BY <1>3
    <3>2. PICK k \in 1..n : a[k] = x
      BY <1>2
    <3> QED
      BY <1>4, <3>1, <3>2
  <2> QED
    BY <1>5, <2>2, <2>3, <2>4 DEF Ascends
<1>7. q = Ascending(Z)
  BY <1>5, <1>6, OneAscending
<1> QED
  BY <1>1, <1>2, <1>3, <1>4, <1>7

-----------------------------------------------------------------------------
(* The ends of sequences.                                                   *)

\* The last element and what stands before it.
LEMMA FrontLast ==
    ASSUME NEW S, NEW t \in Seq(S), t # <<>>
    PROVE  /\ Front(t) \in Seq(S) /\ Last(t) \in S /\ t = Append(Front(t), Last(t))
           /\ Len(t) \in Nat \ {0} /\ Len(Front(t)) = Len(t) - 1
           /\ \A k \in 1..(Len(t) - 1) : Front(t)[k] = t[k]
<1>1. PICK n \in Nat \ {0} : n = Len(t) /\ DOMAIN t = 1..n /\ \A k \in 1..n : t[k] \in S
  OBVIOUS
<1>2. PICK u \in Seq(S) : /\ u = SubSeq(t, 1, n - 1) /\ Len(u) = n - 1
                          /\ \A k \in 1..(n - 1) : u[k] = t[k]
  <2>1. \A k \in 1..(n - 1) : k \in 1..n
    OBVIOUS
  <2>2. SubSeq(t, 1, n - 1) \in Seq(S) /\ Len(SubSeq(t, 1, n - 1)) = n - 1
    BY <1>1
  <2>3. \A k \in 1..(n - 1) : SubSeq(t, 1, n - 1)[k] = t[k]
    BY <1>1
  <2> QED
    BY <2>2, <2>3
<1>3. Front(t) = u /\ Last(t) = t[n] /\ t[n] \in S
  BY <1>1, <1>2 DEF Front, Last
<1>4. t = Append(u, t[n])
  <2>1. Append(u, t[n]) \in Seq(S) /\ Len(Append(u, t[n])) = n
    BY <1>2, <1>3
  <2>2. ASSUME NEW k \in 1..n PROVE Append(u, t[n])[k] = t[k]
    <3>1. CASE k = n
      BY <1>2, <3>1
    <3>2. CASE k # n
      BY <1>2, <3>2
    <3> QED
      BY <3>1, <3>2
  <2> QED
    BY <1>1, <2>1, <2>2, SeqEqual
<1> QED
  BY <1>1, <1>2, <1>3, <1>4

\* An appended element is the last one.
LEMMA LastOfAppend ==
    ASSUME NEW S, NEW t \in Seq(S), NEW c \in S
    PROVE  /\ Append(t, c) \in Seq(S) /\ Append(t, c) # <<>>
           /\ Front(Append(t, c)) = t /\ Last(Append(t, c)) = c
           /\ Len(Append(t, c)) = Len(t) + 1
           /\ \A k \in 1..Len(t) : Append(t, c)[k] = t[k]
<1>1. PICK n \in Nat : n = Len(t) /\ DOMAIN t = 1..n
  OBVIOUS
<1>2. PICK u \in Seq(S) : /\ u = Append(t, c) /\ Len(u) = n + 1 /\ u[n + 1] = c
                          /\ \A k \in 1..n : u[k] = t[k]
  <2>1. Append(t, c) \in Seq(S) /\ Len(Append(t, c)) = n + 1 /\ Append(t, c)[n + 1] = c
    BY <1>1
  <2>2. \A k \in 1..n : Append(t, c)[k] = t[k]
    BY <1>1
  <2> QED
    BY <2>1, <2>2
<1>3. u # <<>>
  BY <1>2
<1>4. Last(u) = c
  BY <1>2 DEF Last
<1>5. Front(u) = t
  <2>1. /\ Front(u) \in Seq(S) /\ Len(Front(u)) = n
        /\ \A k \in 1..n : Front(u)[k] = u[k]
    <3>1. Len(u) - 1 = n
      BY <1>2
    <3> QED
      BY <1>3, <3>1, FrontLast
  <2> QED
    BY <1>1, <1>2, <2>1, SeqEqual
<1> QED
  BY <1>1, <1>2, <1>3, <1>4, <1>5

\* Sequences are reached one element at a time: a set with the empty sequence
\* and with every one that it has without the last element.
LEMMA SeqSetInduction ==
    ASSUME NEW S, NEW T, <<>> \in T,
           \A t \in Seq(S), c \in S : t \in T => Append(t, c) \in T
    PROVE  Seq(S) \subseteq T
<1> DEFINE M == {n \in Nat : \A t \in Seq(S) : Len(t) = n => t \in T}
<1>1. 0 \in M
  <2>1. \A t \in Seq(S) : Len(t) = 0 => t = <<>>
    BY EmptySeq
  <2> QED
    BY <2>1
<1>2. ASSUME NEW n \in Nat, n \in M PROVE n + 1 \in M
  <2> SUFFICES ASSUME NEW t \in Seq(S), Len(t) = n + 1 PROVE t \in T
    OBVIOUS
  <2>1. t # <<>>
    OBVIOUS
  <2>2. PICK u \in Seq(S) : u = Front(t) /\ Len(u) = n
    BY <2>1, FrontLast
  <2>3. PICK c \in S : t = Append(u, c)
    BY <2>1, <2>2, FrontLast
  <2> QED
    BY <1>2, <2>2, <2>3
<1> HIDE DEF M
<1>3. Nat \subseteq M
  BY <1>1, <1>2, NatSetInduction
<1>4. \A t \in Seq(S) : Len(t) \in Nat
  OBVIOUS
<1> QED
  BY <1>3, <1>4 DEF M

-----------------------------------------------------------------------------
(* The folds of LineText.                                                   *)

\* p has the values of a fold with the step G after each of the n elements of s.
Runs(p, G, base, s, n) ==
    p[0] = base /\ \A k \in 1..n : p[k] = G[<<p[k - 1], s[k]>>]

\* u is s, which has n elements, with one element more.
Longer(u, s, n, c) == u[n + 1] = c /\ \A k \in 1..n : u[k] = s[k]

\* An appended element is one more.
LEMMA AppendLonger ==
    ASSUME NEW S, NEW s \in Seq(S), NEW c \in S
    PROVE  \E u \in Seq(S), n \in Nat :
               u = Append(s, c) /\ n = Len(s) /\ Len(u) = n + 1 /\ Longer(u, s, n, c)
<1>1. PICK n \in Nat : n = Len(s)
  OBVIOUS
<1>2. PICK u \in Seq(S) : u = Append(s, c) /\ Len(u) = n + 1 /\ u[n + 1] = c
                          /\ \A k \in 1..n : u[k] = s[k]
  <2>1. Append(s, c)[n + 1] = c
    BY <1>1
  <2> QED
    BY <1>1, <2>1, LastOfAppend
<1> QED
  BY <1>1, <1>2 DEF Longer

\* With one element more there is one step more.
LEMMA RunsOn ==
    ASSUME NEW n \in Nat, NEW s, NEW u, NEW c, NEW G, NEW base, NEW p, NEW q,
           Longer(u, s, n, c), Runs(p, G, base, s, n), Runs(q, G, base, u, n + 1)
    PROVE  q[n + 1] = G[<<p[n], c>>]
<1> DEFINE T == {k \in Nat : k <= n => p[k] = q[k]}
<1>1. 0 \in T
  BY DEF Runs
<1>2. ASSUME NEW k \in Nat, k \in T PROVE k + 1 \in T
  <2> SUFFICES ASSUME k + 1 <= n PROVE p[k + 1] = q[k + 1]
    OBVIOUS
  <2>1. k + 1 \in 1..n /\ k + 1 \in 1..(n + 1) /\ (k + 1) - 1 = k /\ p[k] = q[k]
    BY <1>2
  <2>2. p[k + 1] = G[<<p[k], s[k + 1]>>] /\ q[k + 1] = G[<<q[k], u[k + 1]>>]
    BY <2>1 DEF Runs
  <2> QED
    BY <2>1, <2>2 DEF Longer
<1> HIDE DEF T
<1>3. n \in T
  BY <1>1, <1>2, NatSetInduction
<1>4. p[n] = q[n]
  BY <1>3 DEF T
<1>5. n + 1 \in 1..(n + 1) /\ (n + 1) - 1 = n
  OBVIOUS
<1>6. q[n + 1] = G[<<q[n], u[n + 1]>>]
  BY <1>5 DEF Runs
<1> QED
  BY <1>4, <1>6 DEF Longer

\* The normalisation of a text is a text.
LEMMA NormalizedType ==
    ASSUME NEW t \in Seq(Chars), NEW c \in Chars
    PROVE  Normalized(t, c) \in Seq(Chars)
<1>1. CASE c = LF /\ t # <<>> /\ Last(t) = CR
  <2>1. Front(t) \in Seq(Chars)
    BY <1>1, FrontLast
  <2> QED
    BY <1>1, <2>1, LastOfAppend DEF Normalized
<1>2. CASE ~(c = LF /\ t # <<>> /\ Last(t) = CR)
  BY <1>2, LastOfAppend DEF Normalized
<1> QED
  BY <1>1, <1>2

\* Normalize goes through the text with the steps Normalized.
LEMMA NormalizeRuns ==
    ASSUME NEW s \in Seq(Chars), NEW G,
           \A v \in Seq(Chars), c \in Chars : G[<<v, c>>] = Normalized(v, c)
    PROVE  \E p : /\ Runs(p, G, <<>>, s, Len(s)) /\ Normalize(s) = p[Len(s)]
                  /\ p[Len(s)] \in Seq(Chars)
<1> DEFINE Step(t, e) == IF t = {} THEN <<>> ELSE Normalized(e[t \ {Max(t)}], s[Max(t)])
<1>1. PICK n \in Nat : n = Len(s) /\ DOMAIN s = 1..n /\ \A k \in 1..n : s[k] \in Chars
  OBVIOUS
<1>2. PICK H : \A k \in 1..n, v \in Seq(Chars) : H[<<k, v>>] = Normalized(v, s[k])
  <2> DEFINE K == [x \in (1..n) \X Seq(Chars) |-> Normalized(x[2], s[x[1]])]
  <2>1. ASSUME NEW k \in 1..n, NEW v \in Seq(Chars) PROVE K[<<k, v>>] = Normalized(v, s[k])
    <3>1. <<k, v>> \in (1..n) \X Seq(Chars) /\ <<k, v>>[1] = k /\ <<k, v>>[2] = v
      OBVIOUS
    <3> QED
      BY <3>1
  <2> HIDE DEF K
  <2> QED
    BY <2>1
<1>3. PICK f, p : Unfolds(f, p, n, Seq(Chars), <<>>, H)
  <2>1. ASSUME NEW k \in 1..n, NEW v \in Seq(Chars) PROVE H[<<k, v>>] \in Seq(Chars)
    BY <1>1, <1>2, NormalizedType
  <2>2. StepOn(H, 1..n, Seq(Chars))
    BY <2>1 DEF StepOn
  <2>3. <<>> \in Seq(Chars)
    OBVIOUS
  <2> QED
    BY <2>2, <2>3, IndexRecursion
<1>4. PICK g : /\ Normalize(s) = g[DOMAIN s]
               /\ g = CHOOSE h : h = [t \in SUBSET (DOMAIN s) |->
                         IF t = {} THEN <<>> ELSE Normalized(h[t \ {Max(t)}], s[Max(t)])]
  BY DEF Normalize, FoldLeft, MapThenFoldSet
<1>5. f = [t \in SUBSET (1..n) |-> Step(t, f)]
  <2>1. ASSUME NEW t \in SUBSET (1..n) PROVE f[t] = Step(t, f)
    <3>1. t # {} => Max(t) \in 1..n /\ f[t \ {Max(t)}] \in Seq(Chars)
      BY <1>3, LastElement DEF Unfolds
    <3> QED
      BY <1>2, <1>3, <3>1 DEF Unfolds
  <2> HIDE DEF Step
  <2> QED
    BY <1>3, <2>1 DEF Unfolds
<1>6. g = [t \in SUBSET (1..n) |-> Step(t, g)]
  <2>1. g = CHOOSE h : h = [t \in SUBSET (1..n) |-> Step(t, h)]
    BY <1>1, <1>4
  <2> HIDE DEF Step
  <2> QED
    BY <1>5, <2>1
<1>7. g[1..n] = p[n]
  <2>1. MapsSubsets(g, 1..n) /\ g[{}] = <<>>
    BY <1>6 DEF MapsSubsets
  <2>2. AgreeAtLast(f, g, n)
    <3> SUFFICES ASSUME NEW t \in SUBSET (1..n), t # {},
                        f[t \ {Max(t)}] = g[t \ {Max(t)}]
                 PROVE  f[t] = g[t]
      BY DEF AgreeAtLast
    <3>1. /\ f[t] = Normalized(f[t \ {Max(t)}], s[Max(t)])
          /\ g[t] = Normalized(g[t \ {Max(t)}], s[Max(t)])
      BY <1>5, <1>6
    <3> QED
      BY <3>1
  <2> QED
    BY <1>3, <2>1, <2>2, FoldSolved
<1>8. Runs(p, G, <<>>, s, Len(s)) /\ p[n] \in Seq(Chars)
  <2>1. p[0] = <<>> /\ \A k \in 0..n : p[k] \in Seq(Chars)
    BY <1>3 DEF Unfolds
  <2>2. ASSUME NEW k \in 1..n PROVE p[k] = G[<<p[k - 1], s[k]>>]
    <3>1. p[k] = H[<<k, p[k - 1]>>] /\ k - 1 \in 0..n
      BY <1>3 DEF Unfolds
    <3> QED
      BY <1>1, <1>2, <2>1, <3>1
  <2> QED
    BY <1>1, <2>1, <2>2 DEF Runs
<1> QED
  BY <1>1, <1>4, <1>7, <1>8

\* Normalize, one character after the other.
LEMMA NormalizeSteps ==
    /\ Normalize(<<>>) = <<>>
    /\ \A s \in Seq(Chars) : Normalize(s) \in Seq(Chars)
    /\ \A s \in Seq(Chars), c \in Chars :
           Normalize(Append(s, c)) = Normalized(Normalize(s), c)
<1>1. PICK G : \A v \in Seq(Chars), c \in Chars : G[<<v, c>>] = Normalized(v, c)
  <2> DEFINE K == [x \in Seq(Chars) \X Chars |-> Normalized(x[1], x[2])]
  <2>1. ASSUME NEW c \in Chars, NEW v \in Seq(Chars) PROVE K[<<v, c>>] = Normalized(v, c)
    <3>1. <<v, c>> \in Seq(Chars) \X Chars /\ <<v, c>>[1] = v /\ <<v, c>>[2] = c
      OBVIOUS
    <3> QED
      BY <3>1
  <2> HIDE DEF K
  <2> QED
    BY <2>1
<1>2. \A s \in Seq(Chars) : \E p : /\ Runs(p, G, <<>>, s, Len(s)) /\ Normalize(s) = p[Len(s)]
                                   /\ p[Len(s)] \in Seq(Chars)
  BY <1>1, NormalizeRuns
<1>3. Normalize(<<>>) = <<>>
  <2>1. <<>> \in Seq(Chars) /\ Len(<<>>) = 0
    OBVIOUS
  <2>2. PICK p : Runs(p, G, <<>>, <<>>, Len(<<>>)) /\ Normalize(<<>>) = p[Len(<<>>)]
    BY <1>2, <2>1
  <2> QED
    BY <2>1, <2>2 DEF Runs
<1>4. ASSUME NEW s \in Seq(Chars), NEW c \in Chars
      PROVE  Normalize(Append(s, c)) = Normalized(Normalize(s), c)
  <2>1. PICK u \in Seq(Chars), n \in Nat :
            u = Append(s, c) /\ n = Len(s) /\ Len(u) = n + 1 /\ Longer(u, s, n, c)
    BY AppendLonger
  <2>2. PICK p : Runs(p, G, <<>>, s, n) /\ Normalize(s) = p[n] /\ p[n] \in Seq(Chars)
    BY <1>2, <2>1
  <2>3. PICK q : Runs(q, G, <<>>, u, n + 1) /\ Normalize(u) = q[n + 1]
    BY <1>2, <2>1
  <2>4. q[n + 1] = G[<<p[n], c>>]
    BY <2>1, <2>2, <2>3, RunsOn
  <2> QED
    BY <1>1, <2>1, <2>2, <2>3, <2>4
<1> QED
  BY <1>2, <1>3, <1>4
\* The lines of a text: there is always one.
ManyLines == Seq(Seq(Chars)) \ {<<>>}

\* The empty text is a text, and one line.
LEMMA EmptyText == <<>> \in Seq(Chars) /\ <<<<>>>> \in ManyLines
<1>1. <<>> \in Seq(Chars)
  OBVIOUS
<1>2. PICK e \in Seq(Chars) : e = <<>>
  BY <1>1
<1>3. <<e>> \in Seq(Seq(Chars)) /\ <<e>> # <<>>
  OBVIOUS
<1> QED
  BY <1>1, <1>2, <1>3 DEF ManyLines

\* The lines of a text stay lines of a text with every character.
LEMMA ScannedType ==
    ASSUME NEW ls \in ManyLines, NEW c \in Chars
    PROVE  Scanned(ls, c) \in ManyLines
<1>1. ls \in Seq(Seq(Chars)) /\ ls # <<>>
  BY DEF ManyLines
<1>2. CASE c = LF
  BY <1>1, <1>2, EmptyText, LastOfAppend DEF Scanned, ManyLines
<1>3. CASE c # LF
  <2>1. PICK f \in Seq(Seq(Chars)), l \in Seq(Chars) : f = Front(ls) /\ l = Last(ls)
    BY <1>1, FrontLast
  <2>2. PICK m \in Seq(Chars) : m = Append(l, c)
    BY LastOfAppend
  <2>3. Append(f, m) \in Seq(Seq(Chars)) /\ Append(f, m) # <<>>
    BY LastOfAppend
  <2> QED
    BY <1>3, <2>1, <2>2, <2>3 DEF Scanned, ManyLines
<1> QED
  BY <1>2, <1>3

\* Likewise Cut, with the steps Scanned.
LEMMA CutRuns ==
    ASSUME NEW s \in Seq(Chars), NEW G,
           \A v \in ManyLines, c \in Chars : G[<<v, c>>] = Scanned(v, c)
    PROVE  \E p : /\ Runs(p, G, <<<<>>>>, s, Len(s)) /\ Cut(s) = p[Len(s)]
                  /\ p[Len(s)] \in ManyLines
<1> DEFINE Step(t, e) == IF t = {} THEN <<<<>>>> ELSE Scanned(e[t \ {Max(t)}], s[Max(t)])
<1>1. PICK n \in Nat : n = Len(s) /\ DOMAIN s = 1..n /\ \A k \in 1..n : s[k] \in Chars
  OBVIOUS
<1>2. PICK H : \A k \in 1..n, v \in ManyLines : H[<<k, v>>] = Scanned(v, s[k])
  <2> DEFINE K == [x \in (1..n) \X ManyLines |-> Scanned(x[2], s[x[1]])]
  <2>1. ASSUME NEW k \in 1..n, NEW v \in ManyLines PROVE K[<<k, v>>] = Scanned(v, s[k])
    <3>1. <<k, v>> \in (1..n) \X ManyLines /\ <<k, v>>[1] = k /\ <<k, v>>[2] = v
      OBVIOUS
    <3> QED
      BY <3>1
  <2> HIDE DEF K
  <2> QED
    BY <2>1
<1>3. PICK f, p : Unfolds(f, p, n, ManyLines, <<<<>>>>, H)
  <2>1. ASSUME NEW k \in 1..n, NEW v \in ManyLines PROVE H[<<k, v>>] \in ManyLines
    BY <1>1, <1>2, ScannedType
  <2>2. StepOn(H, 1..n, ManyLines)
    BY <2>1 DEF StepOn
  <2>3. <<<<>>>> \in ManyLines
    BY EmptyText
  <2> QED
    BY <2>2, <2>3, IndexRecursion
<1>4. PICK g : /\ Cut(s) = g[DOMAIN s]
               /\ g = CHOOSE h : h = [t \in SUBSET (DOMAIN s) |->
                         IF t = {} THEN <<<<>>>> ELSE Scanned(h[t \ {Max(t)}], s[Max(t)])]
  BY DEF Cut, FoldLeft, MapThenFoldSet
<1>5. f = [t \in SUBSET (1..n) |-> Step(t, f)]
  <2>1. ASSUME NEW t \in SUBSET (1..n) PROVE f[t] = Step(t, f)
    <3>1. t # {} => Max(t) \in 1..n /\ f[t \ {Max(t)}] \in ManyLines
      BY <1>3, LastElement DEF Unfolds
    <3> QED
      BY <1>2, <1>3, <3>1 DEF Unfolds
  <2> HIDE DEF Step
  <2> QED
    BY <1>3, <2>1 DEF Unfolds
<1>6. g = [t \in SUBSET (1..n) |-> Step(t, g)]
  <2>1. g = CHOOSE h : h = [t \in SUBSET (1..n) |-> Step(t, h)]
    BY <1>1, <1>4
  <2> HIDE DEF Step
  <2> QED
    BY <1>5, <2>1
<1>7. g[1..n] = p[n]
  <2>1. MapsSubsets(g, 1..n) /\ g[{}] = <<<<>>>>
    BY <1>6 DEF MapsSubsets
  <2>2. AgreeAtLast(f, g, n)
    <3> SUFFICES ASSUME NEW t \in SUBSET (1..n), t # {},
                        f[t \ {Max(t)}] = g[t \ {Max(t)}]
                 PROVE  f[t] = g[t]
      BY DEF AgreeAtLast
    <3>1. /\ f[t] = Scanned(f[t \ {Max(t)}], s[Max(t)])
          /\ g[t] = Scanned(g[t \ {Max(t)}], s[Max(t)])
      BY <1>5, <1>6
    <3> QED
      BY <3>1
  <2> QED
    BY <1>3, <2>1, <2>2, FoldSolved
<1>8. Runs(p, G, <<<<>>>>, s, Len(s)) /\ p[n] \in ManyLines
  <2>1. p[0] = <<<<>>>> /\ \A k \in 0..n : p[k] \in ManyLines
    BY <1>3 DEF Unfolds
  <2>2. ASSUME NEW k \in 1..n PROVE p[k] = G[<<p[k - 1], s[k]>>]
    <3>1. p[k] = H[<<k, p[k - 1]>>] /\ k - 1 \in 0..n
      BY <1>3 DEF Unfolds
    <3> QED
      BY <1>1, <1>2, <2>1, <3>1
  <2> QED
    BY <1>1, <2>1, <2>2 DEF Runs
<1> QED
  BY <1>1, <1>4, <1>7, <1>8

\* Cut, one character after the other.
LEMMA CutSteps ==
    /\ Cut(<<>>) = <<<<>>>>
    /\ \A s \in Seq(Chars) : Cut(s) \in ManyLines
    /\ \A s \in Seq(Chars), c \in Chars : Cut(Append(s, c)) = Scanned(Cut(s), c)
<1>1. PICK G : \A v \in ManyLines, c \in Chars : G[<<v, c>>] = Scanned(v, c)
  <2> DEFINE K == [x \in ManyLines \X Chars |-> Scanned(x[1], x[2])]
  <2>1. ASSUME NEW c \in Chars, NEW v \in ManyLines PROVE K[<<v, c>>] = Scanned(v, c)
    <3>1. <<v, c>> \in ManyLines \X Chars /\ <<v, c>>[1] = v /\ <<v, c>>[2] = c
      OBVIOUS
    <3> QED
      BY <3>1
  <2> HIDE DEF K
  <2> QED
    BY <2>1
<1>2. \A s \in Seq(Chars) : \E p : /\ Runs(p, G, <<<<>>>>, s, Len(s)) /\ Cut(s) = p[Len(s)]
                                   /\ p[Len(s)] \in ManyLines
  BY <1>1, CutRuns
<1>3. Cut(<<>>) = <<<<>>>>
  <2>1. <<>> \in Seq(Chars) /\ Len(<<>>) = 0
    OBVIOUS
  <2>2. PICK p : Runs(p, G, <<<<>>>>, <<>>, Len(<<>>)) /\ Cut(<<>>) = p[Len(<<>>)]
    BY <1>2, <2>1
  <2> QED
    BY <2>1, <2>2 DEF Runs
<1>4. ASSUME NEW s \in Seq(Chars), NEW c \in Chars
      PROVE  Cut(Append(s, c)) = Scanned(Cut(s), c)
  <2>1. PICK u \in Seq(Chars), n \in Nat :
            u = Append(s, c) /\ n = Len(s) /\ Len(u) = n + 1 /\ Longer(u, s, n, c)
    BY AppendLonger
  <2>2. PICK p : Runs(p, G, <<<<>>>>, s, n) /\ Cut(s) = p[n] /\ p[n] \in ManyLines
    BY <1>2, <2>1
  <2>3. PICK q : Runs(q, G, <<<<>>>>, u, n + 1) /\ Cut(u) = q[n + 1]
    BY <1>2, <2>1
  <2>4. q[n + 1] = G[<<p[n], c>>]
    BY <2>1, <2>2, <2>3, RunsOn
  <2> QED
    BY <1>1, <2>1, <2>2, <2>3, <2>4
<1> QED
  BY <1>2, <1>3, <1>4

\* A text and a line more are a text.
LEMMA JoinedType ==
    ASSUME NEW t \in Seq(Chars), NEW l \in Seq(Chars)
    PROVE  Joined(t, l) \in Seq(Chars)
<1>1. LF \in Chars
  BY DEF Chars
<1>2. PICK e \in Seq(Chars) : e = <<LF>>
  <2>1. <<LF>> \in Seq(Chars)
    BY <1>1
  <2> QED
    BY <2>1
<1>3. PICK u \in Seq(Chars) : u = t \o e
  BY ConcatProperties
<1>4. u \o l \in Seq(Chars)
  BY ConcatProperties
<1> QED
  BY <1>2, <1>3, <1>4 DEF Joined

\* Likewise what Join folds, with the steps Joined.
LEMMA JoinRuns ==
    ASSUME NEW b \in Seq(Chars), NEW s \in Seq(Seq(Chars)), NEW G,
           \A v \in Seq(Chars), c \in Seq(Chars) : G[<<v, c>>] = Joined(v, c)
    PROVE  \E p : /\ Runs(p, G, b, s, Len(s)) /\ FoldLeft(Joined, b, s) = p[Len(s)]
                  /\ p[Len(s)] \in Seq(Chars)
<1> DEFINE Step(t, e) == IF t = {} THEN b ELSE Joined(e[t \ {Max(t)}], s[Max(t)])
<1>1. PICK n \in Nat : n = Len(s) /\ DOMAIN s = 1..n /\ \A k \in 1..n : s[k] \in Seq(Chars)
  OBVIOUS
<1>2. PICK H : \A k \in 1..n, v \in Seq(Chars) : H[<<k, v>>] = Joined(v, s[k])
  <2> DEFINE K == [x \in (1..n) \X Seq(Chars) |-> Joined(x[2], s[x[1]])]
  <2>1. ASSUME NEW k \in 1..n, NEW v \in Seq(Chars) PROVE K[<<k, v>>] = Joined(v, s[k])
    <3>1. <<k, v>> \in (1..n) \X Seq(Chars) /\ <<k, v>>[1] = k /\ <<k, v>>[2] = v
      OBVIOUS
    <3> QED
      BY <3>1
  <2> HIDE DEF K
  <2> QED
    BY <2>1
<1>3. PICK f, p : Unfolds(f, p, n, Seq(Chars), b, H)
  <2>1. ASSUME NEW k \in 1..n, NEW v \in Seq(Chars) PROVE H[<<k, v>>] \in Seq(Chars)
    BY <1>1, <1>2, JoinedType
  <2>2. StepOn(H, 1..n, Seq(Chars))
    BY <2>1 DEF StepOn
  <2> QED
    BY <2>2, IndexRecursion
<1>4. PICK g : /\ FoldLeft(Joined, b, s) = g[DOMAIN s]
               /\ g = CHOOSE h : h = [t \in SUBSET (DOMAIN s) |->
                         IF t = {} THEN b ELSE Joined(h[t \ {Max(t)}], s[Max(t)])]
  BY DEF FoldLeft, MapThenFoldSet
<1>5. f = [t \in SUBSET (1..n) |-> Step(t, f)]
  <2>1. ASSUME NEW t \in SUBSET (1..n) PROVE f[t] = Step(t, f)
    <3>1. t # {} => Max(t) \in 1..n /\ f[t \ {Max(t)}] \in Seq(Chars)
      BY <1>3, LastElement DEF Unfolds
    <3> QED
      BY <1>2, <1>3, <3>1 DEF Unfolds
  <2> HIDE DEF Step
  <2> QED
    BY <1>3, <2>1 DEF Unfolds
<1>6. g = [t \in SUBSET (1..n) |-> Step(t, g)]
  <2>1. g = CHOOSE h : h = [t \in SUBSET (1..n) |-> Step(t, h)]
    BY <1>1, <1>4
  <2> HIDE DEF Step
  <2> QED
    BY <1>5, <2>1
<1>7. g[1..n] = p[n]
  <2>1. MapsSubsets(g, 1..n) /\ g[{}] = b
    BY <1>6 DEF MapsSubsets
  <2>2. AgreeAtLast(f, g, n)
    <3> SUFFICES ASSUME NEW t \in SUBSET (1..n), t # {},
                        f[t \ {Max(t)}] = g[t \ {Max(t)}]
                 PROVE  f[t] = g[t]
      BY DEF AgreeAtLast
    <3>1. /\ f[t] = Joined(f[t \ {Max(t)}], s[Max(t)])
          /\ g[t] = Joined(g[t \ {Max(t)}], s[Max(t)])
      BY <1>5, <1>6
    <3> QED
      BY <3>1
  <2> QED
    BY <1>3, <2>1, <2>2, FoldSolved
<1>8. Runs(p, G, b, s, Len(s)) /\ p[n] \in Seq(Chars)
  <2>1. p[0] = b /\ \A k \in 0..n : p[k] \in Seq(Chars)
    BY <1>3 DEF Unfolds
  <2>2. ASSUME NEW k \in 1..n PROVE p[k] = G[<<p[k - 1], s[k]>>]
    <3>1. p[k] = H[<<k, p[k - 1]>>] /\ k - 1 \in 0..n
      BY <1>3 DEF Unfolds
    <3> QED
      BY <1>1, <1>2, <2>1, <3>1
  <2> QED
    BY <1>1, <2>1, <2>2 DEF Runs
<1> QED
  BY <1>1, <1>4, <1>7, <1>8

\* Join, one line after the other.
LEMMA JoinSteps ==
    /\ Join(<<>>) = <<>>
    /\ \A l \in Seq(Chars) : Join(<<l>>) = l
    /\ \A ls \in ManyLines : Join(ls) \in Seq(Chars)
    /\ \A ls \in ManyLines, l \in Seq(Chars) : Join(Append(ls, l)) = Joined(Join(ls), l)
<1>1. PICK G : \A v \in Seq(Chars), l \in Seq(Chars) : G[<<v, l>>] = Joined(v, l)
  <2> DEFINE K == [x \in Seq(Chars) \X Seq(Chars) |-> Joined(x[1], x[2])]
  <2>1. ASSUME NEW l \in Seq(Chars), NEW v \in Seq(Chars) PROVE K[<<v, l>>] = Joined(v, l)
    <3>1. <<v, l>> \in Seq(Chars) \X Seq(Chars) /\ <<v, l>>[1] = v /\ <<v, l>>[2] = l
      OBVIOUS
    <3> QED
      BY <3>1
  <2> HIDE DEF K
  <2> QED
    BY <2>1
<1>2. ASSUME NEW ls \in Seq(Seq(Chars)), ls # <<>>
      PROVE  /\ Head(ls) \in Seq(Chars) /\ Tail(ls) \in Seq(Seq(Chars))
             /\ \E p : /\ Runs(p, G, Head(ls), Tail(ls), Len(Tail(ls))) /\ Join(ls) = p[Len(Tail(ls))]
                      /\ p[Len(Tail(ls))] \in Seq(Chars)
  <2>1. PICK b \in Seq(Chars), r \in Seq(Seq(Chars)) : b = Head(ls) /\ r = Tail(ls)
    BY <1>2, HeadTailProperties
  <2>2. PICK p : Runs(p, G, b, r, Len(r)) /\ FoldLeft(Joined, b, r) = p[Len(r)] /\ p[Len(r)] \in Seq(Chars)
    BY <1>1, JoinRuns
  <2>3. Join(ls) = FoldLeft(Joined, b, r)
    BY <1>2, <2>1 DEF Join
  <2> QED
    BY <2>1, <2>2, <2>3
<1>3. ASSUME NEW l \in Seq(Chars) PROVE Join(<<l>>) = l
  <2>1. PICK w \in Seq(Seq(Chars)) : w = <<l>> /\ w # <<>> /\ Head(w) = l /\ Len(Tail(w)) = 0
    <3>1. <<l>> \in Seq(Seq(Chars)) /\ <<l>> # <<>> /\ Len(<<l>>) = 1 /\ Head(<<l>>) = l
      OBVIOUS
    <3>2. Len(Tail(<<l>>)) = 0
      BY <3>1, HeadTailProperties
    <3> QED
      BY <3>1, <3>2
  <2>2. PICK p : Runs(p, G, Head(w), Tail(w), Len(Tail(w))) /\ Join(w) = p[Len(Tail(w))]
    BY <1>2, <2>1
  <2> QED
    BY <2>1, <2>2 DEF Runs
<1>4. ASSUME NEW ls \in Seq(Seq(Chars)), ls # <<>>, NEW l \in Seq(Chars)
      PROVE  Join(Append(ls, l)) = Joined(Join(ls), l)
  <2>1. PICK w \in Seq(Seq(Chars)) : w = Append(ls, l) /\ w # <<>>
    BY LastOfAppend
  <2>2. PICK b \in Seq(Chars), r \in Seq(Seq(Chars)) : b = Head(ls) /\ r = Tail(ls)
    BY <1>4, HeadTailProperties
  <2>3. Head(w) = b
    BY <1>4, <2>1, <2>2
  <2>4. Tail(w) = Append(r, l)
    BY <1>4, <2>1, <2>2, HeadTailAppend
  <2>5. PICK v \in Seq(Seq(Chars)), n \in Nat :
            v = Append(r, l) /\ n = Len(r) /\ Len(v) = n + 1 /\ Longer(v, r, n, l)
    BY <2>2, AppendLonger
  <2>6. PICK p : Runs(p, G, b, r, n) /\ Join(ls) = p[n] /\ p[n] \in Seq(Chars)
    BY <1>2, <1>4, <2>2, <2>5
  <2>7. PICK q : Runs(q, G, b, v, n + 1) /\ Join(w) = q[n + 1]
    BY <1>2, <2>1, <2>3, <2>4, <2>5
  <2>8. q[n + 1] = G[<<p[n], l>>]
    BY <2>5, <2>6, <2>7, RunsOn
  <2> QED
    BY <1>1, <2>1, <2>6, <2>7, <2>8
<1>5. Join(<<>>) = <<>>
  BY DEF Join
<1> QED
  BY <1>2, <1>3, <1>4, <1>5 DEF ManyLines

-----------------------------------------------------------------------------
(* Lines and texts.                                                         *)

\* An appended element is appended to a concatenation.
LEMMA ConcatOne ==
    ASSUME NEW S, NEW t \in Seq(S), NEW l \in Seq(S), NEW c \in S
    PROVE  t \o Append(l, c) = Append(t \o l, c) /\ t \o <<c>> = Append(t, c)
<1>1. PICK e \in Seq(S) : e = <<c>>
  <2>1. <<c>> \in Seq(S)
    OBVIOUS
  <2> QED
    BY <2>1
<1>2. t \o l \in Seq(S)
  BY ConcatProperties
<1>3. /\ Append(l, c) = l \o e /\ Append(t \o l, c) = (t \o l) \o e
      /\ Append(t, c) = t \o e
  BY <1>1, <1>2, AppendIsConcat
<1>4. (t \o l) \o e = t \o (l \o e)
  BY ConcatAssociative
<1> QED
  BY <1>1, <1>3, <1>4

\* A text joined to a line is the text with a line feed, and the line.
LEMMA JoinedIs ==
    ASSUME NEW t \in Seq(Chars), NEW l \in Seq(Chars)
    PROVE  /\ LF \in Chars /\ Append(t, LF) \in Seq(Chars)
           /\ Joined(t, l) = Append(t, LF) \o l
           /\ Joined(t, l) \in Seq(Chars) /\ Len(Joined(t, l)) = Len(t) + 1 + Len(l)
<1>1. LF \in Chars
  BY DEF Chars
<1>2. PICK u \in Seq(Chars) : u = Append(t, LF) /\ Len(u) = Len(t) + 1
  BY <1>1, LastOfAppend
<1>3. Joined(t, l) = u \o l
  <2>1. t \o <<LF>> = u
    BY <1>1, <1>2, ConcatOne
  <2>2. PICK e : e = <<LF>>
    OBVIOUS
  <2>3. Joined(t, l) = (t \o e) \o l
    BY <2>2 DEF Joined
  <2> QED
    BY <2>1, <2>2, <2>3
<1>4. u \o l \in Seq(Chars) /\ Len(u \o l) = Len(u) + Len(l)
  BY ConcatProperties
<1> QED
  BY <1>1, <1>2, <1>3, <1>4

\* A character more in the last line is one more in the joined text.
LEMMA JoinLast ==
    ASSUME NEW ls \in ManyLines, NEW c \in Chars
    PROVE  Join(Append(Front(ls), Append(Last(ls), c))) = Append(Join(ls), c)
<1>1. PICK f \in Seq(Seq(Chars)), l \in Seq(Chars) :
          f = Front(ls) /\ l = Last(ls) /\ ls = Append(f, l)
  <2>1. ls \in Seq(Seq(Chars)) /\ ls # <<>>
    BY DEF ManyLines
  <2> QED
    BY <2>1, FrontLast
<1>2. PICK m \in Seq(Chars) : m = Append(l, c)
  BY LastOfAppend
<1>3. CASE f = <<>>
  <2>1. Append(f, l) = <<l>> /\ Append(f, m) = <<m>>
    BY <1>3
  <2>2. Join(<<l>>) = l /\ Join(<<m>>) = m
    BY JoinSteps
  <2> QED
    BY <1>1, <1>2, <2>1, <2>2
<1>4. CASE f # <<>>
  <2>1. f \in ManyLines
    BY <1>4 DEF ManyLines
  <2>2. PICK j \in Seq(Chars) : j = Join(f) /\ Join(Append(f, l)) = Joined(j, l)
                                /\ Join(Append(f, m)) = Joined(j, m)
    BY <2>1, JoinSteps
  <2>3. PICK u \in Seq(Chars) : Joined(j, l) = u \o l /\ Joined(j, m) = u \o m
    BY JoinedIs
  <2>4. u \o m = Append(u \o l, c)
    BY <1>2, ConcatOne
  <2> QED
    BY <1>1, <1>2, <2>2, <2>3, <2>4
<1> QED
  BY <1>3, <1>4

\* strings.Join puts together what strings.Split took apart.
LEMMA JoinOfCut == \A t \in Seq(Chars) : Join(Cut(t)) = t
<1> DEFINE T == {t \in Seq(Chars) : Join(Cut(t)) = t}
<1>1. <<>> \in T
  <2>1. Join(<<<<>>>>) = <<>>
    BY EmptyText, JoinSteps
  <2> QED
    BY <2>1, EmptyText, CutSteps
<1>2. ASSUME NEW t \in Seq(Chars), NEW c \in Chars, t \in T PROVE Append(t, c) \in T
  <2>1. PICK ls \in ManyLines : ls = Cut(t) /\ Join(ls) = t
    BY <1>2, CutSteps
  <2>2. Cut(Append(t, c)) = Scanned(ls, c) /\ Append(t, c) \in Seq(Chars)
    BY <2>1, CutSteps, LastOfAppend
  <2>3. CASE c = LF
    <3>1. PICK e \in Seq(Chars) : e = <<>>
      BY EmptyText
    <3>2. Scanned(ls, c) = Append(ls, e)
      BY <2>3, <3>1 DEF Scanned
    <3>3. Join(Append(ls, e)) = Joined(t, e)
      BY <2>1, JoinSteps
    <3>4. PICK u \in Seq(Chars) : u = Append(t, LF) /\ Joined(t, e) = u \o e
      BY JoinedIs
    <3>5. u \o e = u
      BY <3>1, ConcatEmptySeq
    <3> QED
      BY <2>2, <2>3, <3>2, <3>3, <3>4, <3>5
  <2>4. CASE c # LF
    <3>1. Join(Append(Front(ls), Append(Last(ls), c))) = Append(t, c)
      BY <2>1, JoinLast
    <3>2. Scanned(ls, c) = Append(Front(ls), Append(Last(ls), c))
      BY <2>4 DEF Scanned
    <3> QED
      BY <2>2, <3>1, <3>2
  <2> QED
    BY <2>3, <2>4
<1> HIDE DEF T
<1>3. Seq(Chars) \subseteq T
  BY <1>1, <1>2, SeqSetInduction
<1> QED
  BY <1>3 DEF T

\* No line feed is in the line.
Plain(l) == \A k \in 1..Len(l) : l[k] # LF

AllPlain(ls) == \A j \in 1..Len(ls) : Plain(ls[j])

\* The lines of a text have no line feed.
LEMMA LinesPlain == \A t \in Seq(Chars) : AllPlain(Cut(t))
<1> DEFINE T == {t \in Seq(Chars) : AllPlain(Cut(t))}
<1>1. <<>> \in T
  <2>1. AllPlain(<<<<>>>>)
    BY DEF AllPlain, Plain
  <2> QED
    BY <2>1, EmptyText, CutSteps
<1>2. ASSUME NEW t \in Seq(Chars), NEW c \in Chars, t \in T PROVE Append(t, c) \in T
  <2>1. PICK ls \in ManyLines : ls = Cut(t) /\ AllPlain(ls)
    BY <1>2, CutSteps
  <2>2. Cut(Append(t, c)) = Scanned(ls, c) /\ Append(t, c) \in Seq(Chars)
    BY <2>1, CutSteps, LastOfAppend
  <2>3. ls \in Seq(Seq(Chars)) /\ ls # <<>>
    BY DEF ManyLines
  <2>4. CASE c = LF
    <3>1. PICK e \in Seq(Chars) : e = <<>> /\ Plain(e)
      <4>1. Plain(<<>>)
        BY DEF Plain
      <4> QED
        BY <4>1, EmptyText
    <3>2. PICK us \in Seq(Seq(Chars)), n \in Nat :
              us = Append(ls, e) /\ n = Len(ls) /\ Len(us) = n + 1 /\ Longer(us, ls, n, e)
      BY <2>3, AppendLonger
    <3>3. AllPlain(us)
      BY <2>1, <3>1, <3>2 DEF AllPlain, Longer
    <3> QED
      BY <2>2, <2>4, <3>1, <3>2, <3>3 DEF Scanned
  <2>5. CASE c # LF
    <3>1. PICK f \in Seq(Seq(Chars)), l \in Seq(Chars) :
              f = Front(ls) /\ l = Last(ls) /\ ls = Append(f, l)
      BY <2>3, FrontLast
    <3>2. PICK i \in Nat : i = Len(f) /\ Len(ls) = i + 1 /\ Longer(ls, f, i, l)
      <4>1. PICK us \in Seq(Seq(Chars)), i \in Nat :
                us = Append(f, l) /\ i = Len(f) /\ Len(us) = i + 1 /\ Longer(us, f, i, l)
        BY AppendLonger
      <4> QED
        BY <3>1, <4>1
    <3>3. AllPlain(f) /\ Plain(l)
      <4>1. i + 1 \in 1..(i + 1) /\ \A k \in 1..i : k \in 1..(i + 1)
        OBVIOUS
      <4> QED
        BY <2>1, <3>2, <4>1 DEF AllPlain, Longer
    <3>4. PICK m \in Seq(Chars) : m = Append(l, c) /\ Plain(m)
      <4>1. PICK m \in Seq(Chars), n \in Nat :
                m = Append(l, c) /\ n = Len(l) /\ Len(m) = n + 1 /\ Longer(m, l, n, c)
        BY AppendLonger
      <4>2. Plain(m)
        BY <2>5, <3>3, <4>1 DEF Plain, Longer
      <4> QED
        BY <4>1, <4>2
    <3>5. PICK us \in Seq(Seq(Chars)), n \in Nat :
              us = Append(f, m) /\ n = Len(f) /\ Len(us) = n + 1 /\ Longer(us, f, n, m)
      BY AppendLonger
    <3>6. AllPlain(us)
      BY <3>3, <3>4, <3>5 DEF AllPlain, Longer
    <3> QED
      BY <2>2, <2>5, <3>1, <3>4, <3>5, <3>6 DEF Scanned
  <2> QED
    BY <2>4, <2>5
<1> HIDE DEF T
<1>3. Seq(Chars) \subseteq T
  BY <1>1, <1>2, SeqSetInduction
<1> QED
  BY <1>3 DEF T

\* Characters that are no line feed prolong the last line.
LEMMA CutPlain ==
    ASSUME NEW t \in Seq(Chars), NEW l \in Seq(Chars), Plain(l)
    PROVE  Cut(t \o l) = Append(Front(Cut(t)), Last(Cut(t)) \o l)
<1>1. PICK ls \in ManyLines : ls = Cut(t)
  BY CutSteps
<1>2. PICK f \in Seq(Seq(Chars)), e \in Seq(Chars) :
          f = Front(ls) /\ e = Last(ls) /\ ls = Append(f, e)
  <2>1. ls \in Seq(Seq(Chars)) /\ ls # <<>>
    BY DEF ManyLines
  <2> QED
    BY <2>1, FrontLast
<1> DEFINE T == {m \in Seq(Chars) : Plain(m) => Cut(t \o m) = Append(f, e \o m)}
<1>3. <<>> \in T
  <2>1. t \o <<>> = t /\ e \o <<>> = e
    BY ConcatEmptySeq
  <2> QED
    BY <1>1, <1>2, <2>1, EmptyText
<1>4. ASSUME NEW m \in Seq(Chars), NEW c \in Chars, m \in T PROVE Append(m, c) \in T
  <2>1. PICK u \in Seq(Chars), n \in Nat :
            u = Append(m, c) /\ n = Len(m) /\ Len(u) = n + 1 /\ Longer(u, m, n, c)
    BY AppendLonger
  <2> SUFFICES ASSUME Plain(u) PROVE Cut(t \o u) = Append(f, e \o u)
    BY <2>1
  <2>2. Plain(m) /\ c # LF
    <3>1. \A k \in 1..n : k \in 1..(n + 1)
      OBVIOUS
    <3>2. n + 1 \in 1..(n + 1)
      OBVIOUS
    <3> QED
      BY <2>1, <3>1, <3>2 DEF Plain, Longer
  <2>3. PICK w \in Seq(Chars) : w = t \o m /\ Cut(w) = Append(f, e \o m)
    BY <1>4, <2>2, ConcatProperties
  <2>4. t \o u = Append(w, c)
    BY <2>1, <2>3, ConcatOne
  <2>5. PICK x \in Seq(Chars) : x = e \o m
    BY ConcatProperties
  <2>6. Cut(Append(w, c)) = Scanned(Append(f, x), c)
    BY <2>3, <2>5, CutSteps
  <2>7. Scanned(Append(f, x), c) = Append(f, Append(x, c))
    BY <2>2, LastOfAppend DEF Scanned
  <2>8. Append(x, c) = e \o u
    <3>1. e \o Append(m, c) = Append(e \o m, c)
      BY ConcatOne
    <3> QED
      BY <2>1, <2>5, <3>1
  <2> QED
    BY <2>4, <2>6, <2>7, <2>8
<1> HIDE DEF T
<1>5. Seq(Chars) \subseteq T
  BY <1>3, <1>4, SeqSetInduction
<1> QED
  BY <1>1, <1>2, <1>5 DEF T

\* A joined line is one more.
LEMMA CutJoined ==
    ASSUME NEW t \in Seq(Chars), NEW l \in Seq(Chars), Plain(l)
    PROVE  Cut(Joined(t, l)) = Append(Cut(t), l)
<1>1. PICK u \in Seq(Chars) : u = Append(t, LF) /\ Joined(t, l) = u \o l
  BY JoinedIs
<1>2. PICK ls \in Seq(Seq(Chars)), e \in Seq(Chars) : ls = Cut(t) /\ e = <<>>
  BY CutSteps, EmptyText DEF ManyLines
<1>3. Cut(u) = Append(ls, e)
  <2>1. Cut(u) = Scanned(ls, LF)
    BY <1>1, <1>2, JoinedIs, CutSteps
  <2> QED
    BY <1>2, <2>1 DEF Scanned
<1>4. Front(Cut(u)) = ls /\ Last(Cut(u)) = e
  BY <1>3, LastOfAppend
<1>5. e \o l = l
  BY <1>2, ConcatEmptySeq
<1>6. Cut(u \o l) = Append(ls, e \o l)
  BY <1>4, CutPlain
<1> QED
  BY <1>1, <1>2, <1>5, <1>6

\* Characters that are no line feed are not normalised.
LEMMA NormalizePlain ==
    ASSUME NEW t \in Seq(Chars), NEW l \in Seq(Chars), Plain(l)
    PROVE  Normalize(t \o l) = Normalize(t) \o l
<1>1. PICK v \in Seq(Chars) : v = Normalize(t)
  BY NormalizeSteps
<1> DEFINE T == {m \in Seq(Chars) : Plain(m) => Normalize(t \o m) = v \o m}
<1>2. <<>> \in T
  <2>1. t \o <<>> = t /\ v \o <<>> = v
    BY ConcatEmptySeq
  <2> QED
    BY <1>1, <2>1, EmptyText
<1>3. ASSUME NEW m \in Seq(Chars), NEW c \in Chars, m \in T PROVE Append(m, c) \in T
  <2>1. PICK u \in Seq(Chars), n \in Nat :
            u = Append(m, c) /\ n = Len(m) /\ Len(u) = n + 1 /\ Longer(u, m, n, c)
    BY AppendLonger
  <2> SUFFICES ASSUME Plain(u) PROVE Normalize(t \o u) = v \o u
    BY <2>1
  <2>2. Plain(m) /\ c # LF
    <3>1. n + 1 \in 1..(n + 1) /\ \A k \in 1..n : k \in 1..(n + 1)
      OBVIOUS
    <3> QED
      BY <2>1, <3>1 DEF Plain, Longer
  <2>3. PICK w \in Seq(Chars), x \in Seq(Chars) :
            w = t \o m /\ x = v \o m /\ Normalize(w) = x
    BY <1>3, <2>2, ConcatProperties
  <2>4. t \o u = Append(w, c) /\ v \o u = Append(x, c)
    <3>1. t \o Append(m, c) = Append(t \o m, c) /\ v \o Append(m, c) = Append(v \o m, c)
      BY ConcatOne
    <3> QED
      BY <2>1, <2>3, <3>1
  <2>5. Normalize(Append(w, c)) = Normalized(x, c)
    BY <2>3, NormalizeSteps
  <2>6. Normalized(x, c) = Append(x, c)
    BY <2>2 DEF Normalized
  <2> QED
    BY <2>4, <2>5, <2>6
<1> HIDE DEF T
<1>4. Seq(Chars) \subseteq T
  BY <1>2, <1>3, SeqSetInduction
<1> QED
  BY <1>1, <1>4 DEF T

\* A text whose line is not ended, when a line feed comes.
Stripped(t) == IF t # <<>> /\ Last(t) = CR THEN Front(t) ELSE t

\* A line more is normalised to a line more, and may cost the line before it a
\* carriage return.
LEMMA NormalizeJoined ==
    ASSUME NEW t \in Seq(Chars), NEW l \in Seq(Chars), Plain(l)
    PROVE  /\ Stripped(Normalize(t)) \in Seq(Chars)
           /\ Normalize(Joined(t, l)) = Joined(Stripped(Normalize(t)), l)
<1>1. PICK v \in Seq(Chars) : v = Normalize(t)
  BY NormalizeSteps
<1>2. PICK w \in Seq(Chars) : w = Stripped(v)
  BY FrontLast DEF Stripped
<1>3. PICK u \in Seq(Chars) : u = Append(t, LF) /\ Joined(t, l) = u \o l
  BY JoinedIs
<1>4. Normalize(u) = Append(w, LF)
  <2>1. Normalize(u) = Normalized(v, LF)
    BY <1>1, <1>3, JoinedIs, NormalizeSteps
  <2> QED
    BY <1>2, <2>1 DEF Normalized, Stripped
<1>5. Normalize(u \o l) = Append(w, LF) \o l
  BY <1>4, NormalizePlain
<1>6. Joined(w, l) = Append(w, LF) \o l
  BY JoinedIs
<1> QED
  BY <1>1, <1>2, <1>3, <1>5, <1>6

\* seen are the lines ls, but for a carriage return at the end of a line that is
\* not the last.
Sees(seen, ls, n) ==
    /\ seen[n] = ls[n]
    /\ \A j \in 1..n : seen[j] = ls[j] \/ ls[j] = Append(seen[j], CR)

\* A text of one line is cut to that line.
LEMMA CutOfLine ==
    ASSUME NEW l \in Seq(Chars), Plain(l)
    PROVE  Cut(l) = <<l>> /\ Normalize(l) = l
<1>1. PICK e \in Seq(Chars) : e = <<>> /\ e \o l = l
  BY EmptyText, ConcatEmptySeq
<1>2. Cut(e) = <<e>> /\ Normalize(e) = e
  BY <1>1, CutSteps, NormalizeSteps
<1>3. <<e>> = Append(<<>>, e) /\ <<>> \in Seq(Seq(Chars)) /\ <<l>> = Append(<<>>, l)
  OBVIOUS
<1>4. Front(<<e>>) = <<>> /\ Last(<<e>>) = e
  <2>1. PICK z \in Seq(Seq(Chars)) : z = <<>>
    BY <1>3
  <2>2. Front(Append(z, e)) = z /\ Last(Append(z, e)) = e
    BY LastOfAppend
  <2>3. <<e>> = Append(z, e)
    BY <2>1
  <2> QED
    BY <2>1, <2>2, <2>3
<1>5. Cut(e \o l) = Append(Front(Cut(e)), Last(Cut(e)) \o l) /\ Normalize(e \o l) = Normalize(e) \o l
  BY CutPlain, NormalizePlain
<1> QED
  BY <1>1, <1>2, <1>3, <1>4, <1>5

\* What a server makes of the lines that are joined for it.
LEMMA SeenLines ==
    \A ls \in ManyLines : AllPlain(ls) =>
        \E seen \in Seq(Seq(Chars)), n \in Nat :
            /\ seen = Cut(Normalize(Join(ls))) /\ n = Len(ls) /\ Len(seen) = n
            /\ Sees(seen, ls, n)
<1> DEFINE Right(ls) == \E seen \in Seq(Seq(Chars)), n \in Nat :
                            /\ seen = Cut(Normalize(Join(ls))) /\ n = Len(ls) /\ Len(seen) = n
                            /\ Sees(seen, ls, n)
           T == {ls \in Seq(Seq(Chars)) : ls # <<>> /\ AllPlain(ls) => Right(ls)}
<1>1. <<>> \in T
  OBVIOUS
<1>2. ASSUME NEW ls \in Seq(Seq(Chars)), NEW l \in Seq(Chars), ls \in T
      PROVE  Append(ls, l) \in T
  <2>1. PICK us \in Seq(Seq(Chars)), n \in Nat :
            us = Append(ls, l) /\ n = Len(ls) /\ Len(us) = n + 1 /\ Longer(us, ls, n, l)
    BY AppendLonger
  <2> HIDE DEF Right
  <2> SUFFICES ASSUME AllPlain(us) PROVE Right(us)
    BY <2>1
  <2>2. AllPlain(ls) /\ Plain(l)
    <3>1. n + 1 \in 1..(n + 1) /\ \A k \in 1..n : k \in 1..(n + 1)
      OBVIOUS
    <3> QED
      BY <2>1, <3>1 DEF AllPlain, Longer
  <2>3. CASE ls = <<>>
    <3>1. us = <<l>> /\ Len(us) = 1
      BY <2>1, <2>3
    <3>2. Cut(Normalize(Join(us))) = us
      BY <2>2, <3>1, JoinSteps, CutOfLine
    <3>3. Sees(us, us, 1)
      BY DEF Sees
    <3> QED
      BY <3>1, <3>2, <3>3 DEF Right
  <2>4. CASE ls # <<>>
    <3>1. PICK seen \in Seq(Seq(Chars)) :
              seen = Cut(Normalize(Join(ls))) /\ Len(seen) = n /\ Sees(seen, ls, n)
      BY <1>2, <2>1, <2>2, <2>4 DEF Right
    <3>2. PICK t \in Seq(Chars), v \in Seq(Chars), w \in Seq(Chars) :
              /\ t = Join(ls) /\ v = Normalize(t) /\ w = Stripped(v)
              /\ Join(us) = Joined(t, l) /\ Normalize(Joined(t, l)) = Joined(w, l)
      <4>1. ls \in ManyLines
        BY <2>4 DEF ManyLines
      <4> QED
        BY <2>1, <2>2, <4>1, JoinSteps, NormalizeSteps, NormalizeJoined
    <3>3. PICK cs \in Seq(Seq(Chars)) : cs = Cut(w) /\ cs # <<>>
      BY CutSteps DEF ManyLines
    <3>4. /\ Len(cs) = n
          /\ \A j \in 1..n : cs[j] = ls[j] \/ ls[j] = Append(cs[j], CR)
      <4>1. CASE v # <<>> /\ Last(v) = CR
        <5>1. CR \in Chars /\ v = Append(w, CR) /\ CR # LF
          <6>1. w = Front(v)
            BY <3>2, <4>1 DEF Stripped
          <6> QED
            BY <4>1, <6>1, FrontLast DEF CR, LF, Chars
        <5>2. Cut(v) = Scanned(cs, CR)
          BY <3>3, <5>1, CutSteps
        <5>3. PICK f \in Seq(Seq(Chars)), c \in Seq(Chars) :
                  f = Front(cs) /\ c = Last(cs) /\ cs = Append(f, c)
          BY <3>3, FrontLast
        <5>4. PICK d \in Seq(Chars) : d = Append(c, CR) /\ seen = Append(f, d)
          BY <3>1, <3>2, <5>1, <5>2, <5>3, LastOfAppend DEF Scanned
        <5>5. PICK i \in Nat : /\ i = Len(f) /\ Len(cs) = i + 1 /\ Len(seen) = i + 1
                               /\ cs[i + 1] = c /\ seen[i + 1] = d
                               /\ \A k \in 1..i : cs[k] = f[k] /\ seen[k] = f[k]
          <6>1. PICK cc \in Seq(Seq(Chars)), i \in Nat :
                    cc = Append(f, c) /\ i = Len(f) /\ Len(cc) = i + 1 /\ Longer(cc, f, i, c)
            BY AppendLonger
          <6>2. PICK ss \in Seq(Seq(Chars)), j \in Nat :
                    ss = Append(f, d) /\ j = Len(f) /\ Len(ss) = j + 1 /\ Longer(ss, f, j, d)
            BY AppendLonger
          <6> QED
            BY <5>3, <5>4, <6>1, <6>2 DEF Longer
        <5>6. n = i + 1
          BY <3>1, <5>5
        <5>7. ASSUME NEW j \in 1..n PROVE cs[j] = ls[j] \/ ls[j] = Append(cs[j], CR)
          <6>1. CASE j = n
            BY <3>1, <5>4, <5>5, <5>6, <6>1 DEF Sees
          <6>2. CASE j # n
            <7>1. j \in 1..i
              BY <5>6, <6>2
            <7> QED
              BY <3>1, <5>5, <7>1 DEF Sees
          <6> QED
            BY <6>1, <6>2
        <5> QED
          BY <5>5, <5>6, <5>7
      <4>2. CASE ~(v # <<>> /\ Last(v) = CR)
        <5>1. cs = seen
          BY <3>1, <3>2, <3>3, <4>2 DEF Stripped
        <5> QED
          BY <3>1, <5>1 DEF Sees
      <4> QED
        BY <4>1, <4>2
    <3>5. PICK xs \in Seq(Seq(Chars)) :
              xs = Append(cs, l) /\ Len(xs) = n + 1 /\ Longer(xs, cs, n, l)
      <4>1. PICK xs \in Seq(Seq(Chars)), i \in Nat :
                xs = Append(cs, l) /\ i = Len(cs) /\ Len(xs) = i + 1 /\ Longer(xs, cs, i, l)
        BY AppendLonger
      <4> QED
        BY <3>4, <4>1
    <3>6. Cut(Joined(w, l)) = xs
      BY <2>2, <3>3, <3>5, CutJoined
    <3>7. Sees(xs, us, n + 1)
      <4>1. \A j \in 1..(n + 1) : j \in 1..n \/ j = n + 1
        OBVIOUS
      <4> QED
        BY <2>1, <3>4, <3>5, <4>1 DEF Sees, Longer
    <3>8. Cut(Normalize(Join(us))) = xs /\ n + 1 \in Nat
      BY <3>2, <3>6
    <3> QED
      BY <2>1, <3>5, <3>7, <3>8 DEF Right
  <2> QED
    BY <2>3, <2>4
<1> HIDE DEF Right, T
<1>3. Seq(Seq(Chars)) \subseteq T
  BY <1>1, <1>2, SeqSetInduction
<1>4. \A ls \in ManyLines : AllPlain(ls) => Right(ls)
  BY <1>3 DEF T, ManyLines
<1> QED
  BY <1>4 DEF Right

\* A line is no longer than the text, and there are at most as many lines as
\* characters, and one more after a final line feed.
FitsIn(ls, n) ==
    /\ Len(ls) <= n + 1 /\ Len(Last(ls)) <= n
    /\ Last(ls) # <<>> => Len(ls) <= n
    /\ \A j \in 1..Len(ls) : Len(ls[j]) <= n

\* The size of the lines of a text.
LEMMA CutSmall == \A t \in Seq(Chars) : FitsIn(Cut(t), Len(t))
<1> DEFINE T == {t \in Seq(Chars) : FitsIn(Cut(t), Len(t))}
<1>1. <<>> \in T
  <2>1. PICK e \in Seq(Chars) : e = <<>> /\ Len(e) = 0
    BY EmptyText
  <2>2. PICK ls \in Seq(Seq(Chars)) : ls = <<e>> /\ Len(ls) = 1 /\ ls[1] = e /\ Last(ls) = e
    <3>1. PICK z \in Seq(Seq(Chars)) : z = <<>>
      BY EmptySeq
    <3>2. Last(Append(z, e)) = e
      BY LastOfAppend
    <3>3. <<e>> = Append(z, e) /\ <<e>> \in Seq(Seq(Chars)) /\ Len(<<e>>) = 1 /\ <<e>>[1] = e
      BY <3>1
    <3> QED
      BY <3>2, <3>3
  <2>3. FitsIn(ls, 0)
    BY <2>1, <2>2 DEF FitsIn
  <2> QED
    BY <2>1, <2>2, <2>3, CutSteps
<1>2. ASSUME NEW t \in Seq(Chars), NEW c \in Chars, t \in T PROVE Append(t, c) \in T
  <2>1. PICK ls \in Seq(Seq(Chars)), n \in Nat :
            ls = Cut(t) /\ ls # <<>> /\ n = Len(t) /\ FitsIn(ls, n)
    BY <1>2, CutSteps DEF ManyLines
  <2>2. /\ Cut(Append(t, c)) = Scanned(ls, c) /\ Append(t, c) \in Seq(Chars)
        /\ Len(Append(t, c)) = n + 1
    BY <2>1, CutSteps, LastOfAppend
  <2>3. CASE c = LF
    <3>1. PICK e \in Seq(Chars) : e = <<>> /\ Len(e) = 0
      BY EmptyText
    <3>2. PICK us \in Seq(Seq(Chars)), m \in Nat :
              us = Append(ls, e) /\ m = Len(ls) /\ Len(us) = m + 1 /\ Longer(us, ls, m, e)
      BY AppendLonger
    <3>3. Last(us) = e
      BY <3>2, LastOfAppend
    <3>4. ASSUME NEW j \in 1..(m + 1) PROVE Len(us[j]) <= n + 1
      <4>1. CASE j = m + 1
        BY <3>1, <3>2, <4>1 DEF Longer
      <4>2. CASE j # m + 1
        <5>1. j \in 1..m
          BY <4>2
        <5>2. us[j] = ls[j] /\ Len(ls[j]) <= n
          BY <2>1, <3>2, <5>1 DEF Longer, FitsIn
        <5>3. ls[j] \in Seq(Chars)
          BY <3>2, <5>1
        <5> QED
          BY <5>2, <5>3
      <4> QED
        BY <4>1, <4>2
    <3>5. m + 1 <= (n + 1) + 1
      BY <2>1, <3>2 DEF FitsIn
    <3>6. FitsIn(us, n + 1)
      BY <3>1, <3>2, <3>3, <3>4, <3>5 DEF FitsIn
    <3> QED
      BY <2>2, <2>3, <3>1, <3>2, <3>6 DEF Scanned
  <2>4. CASE c # LF
    <3>1. PICK f \in Seq(Seq(Chars)), l \in Seq(Chars) :
              f = Front(ls) /\ l = Last(ls) /\ ls = Append(f, l)
      BY <2>1, FrontLast
    <3>2. PICK i \in Nat : i = Len(f) /\ Len(ls) = i + 1 /\ Longer(ls, f, i, l)
      <4>1. PICK us \in Seq(Seq(Chars)), i \in Nat :
                us = Append(f, l) /\ i = Len(f) /\ Len(us) = i + 1 /\ Longer(us, f, i, l)
        BY AppendLonger
      <4> QED
        BY <3>1, <4>1
    <3>3. PICK m \in Seq(Chars) : m = Append(l, c) /\ Len(m) = Len(l) + 1
      BY LastOfAppend
    <3>4. PICK us \in Seq(Seq(Chars)) :
              us = Append(f, m) /\ Len(us) = i + 1 /\ Longer(us, f, i, m)
      <4>1. PICK us \in Seq(Seq(Chars)), k \in Nat :
                us = Append(f, m) /\ k = Len(f) /\ Len(us) = k + 1 /\ Longer(us, f, k, m)
        BY AppendLonger
      <4> QED
        BY <3>2, <4>1
    <3>5. Last(us) = m
      BY <3>4, LastOfAppend
    <3>6. Len(l) <= n /\ Len(l) \in Nat
      BY <2>1, <3>1 DEF FitsIn
    <3>7. ASSUME NEW j \in 1..(i + 1) PROVE Len(us[j]) <= n + 1
      <4>1. CASE j = i + 1
        BY <3>3, <3>4, <3>6, <4>1 DEF Longer
      <4>2. CASE j # i + 1
        <5>1. j \in 1..i /\ j \in 1..(i + 1)
          BY <4>2
        <5>2. us[j] = f[j] /\ ls[j] = f[j] /\ Len(ls[j]) <= n
          BY <2>1, <3>2, <3>4, <5>1 DEF Longer, FitsIn
        <5>3. f[j] \in Seq(Chars)
          BY <3>2, <5>1
        <5> QED
          BY <5>2, <5>3
      <4> QED
        BY <4>1, <4>2
    <3>8. i + 1 <= n + 1
      BY <2>1, <3>2 DEF FitsIn
    <3>9. FitsIn(us, n + 1)
      <4>1. Len(Last(us)) <= n + 1
        BY <3>3, <3>5, <3>6
      <4>2. Len(us) <= n + 1 /\ Len(us) <= (n + 1) + 1
        BY <3>4, <3>8
      <4>3. \A j \in 1..Len(us) : Len(us[j]) <= n + 1
        BY <3>4, <3>7
      <4> QED
        BY <4>1, <4>2, <4>3 DEF FitsIn
    <3> QED
      BY <2>2, <2>4, <3>1, <3>3, <3>4, <3>9 DEF Scanned
  <2> QED
    BY <2>3, <2>4
<1> HIDE DEF T
<1>3. Seq(Chars) \subseteq T
  BY <1>1, <1>2, SeqSetInduction
<1> QED
  BY <1>3 DEF T

\* The normalisation makes no text longer.
LEMMA NormalizeShorter == \A t \in Seq(Chars) : Len(Normalize(t)) <= Len(t)
<1> DEFINE T == {t \in Seq(Chars) : Len(Normalize(t)) <= Len(t)}
<1>1. <<>> \in T
  <2>1. PICK e \in Seq(Chars) : e = <<>> /\ Len(e) = 0 /\ Normalize(e) = e
    BY EmptyText, NormalizeSteps
  <2> QED
    BY <2>1
<1>2. ASSUME NEW t \in Seq(Chars), NEW c \in Chars, t \in T PROVE Append(t, c) \in T
  <2>1. PICK v \in Seq(Chars) : v = Normalize(t) /\ Len(v) <= Len(t)
    BY <1>2, NormalizeSteps
  <2>2. /\ Normalize(Append(t, c)) = Normalized(v, c) /\ Append(t, c) \in Seq(Chars)
        /\ Len(Append(t, c)) = Len(t) + 1
    BY <2>1, NormalizeSteps, LastOfAppend
  <2>3. Len(Normalized(v, c)) <= Len(v) + 1
    <3>1. CASE c = LF /\ v # <<>> /\ Last(v) = CR
      <4>1. PICK f \in Seq(Chars) : f = Front(v) /\ Len(f) = Len(v) - 1
        BY <3>1, FrontLast
      <4>2. Len(Append(f, c)) = Len(f) + 1
        BY LastOfAppend
      <4> QED
        BY <3>1, <4>1, <4>2 DEF Normalized
    <3>2. CASE ~(c = LF /\ v # <<>> /\ Last(v) = CR)
      BY <3>2, LastOfAppend DEF Normalized
    <3> QED
      BY <3>1, <3>2
  <2>4. Len(Normalized(v, c)) <= Len(t) + 1
    <3>1. Len(Normalized(v, c)) \in Nat
      BY NormalizedType
    <3> QED
      BY <2>1, <2>3, <3>1
  <2> QED
    BY <2>2, <2>4
<1> HIDE DEF T
<1>3. Seq(Chars) \subseteq T
  BY <1>1, <1>2, SeqSetInduction
<1> QED
  BY <1>3 DEF T

-----------------------------------------------------------------------------
\* Texts are joined in any order of the joins.
LEMMA JoinedTwice ==
    ASSUME NEW t \in Seq(Chars), NEW b \in Seq(Chars), NEW l \in Seq(Chars)
    PROVE  Joined(Joined(t, b), l) = Joined(t, Joined(b, l))
<1>1. PICK e \in Seq(Chars) : e = <<LF>>
  <2>1. LF \in Chars
    BY DEF Chars
  <2>2. <<LF>> \in Seq(Chars)
    BY <2>1
  <2> QED
    BY <2>2
<1>2. PICK te \in Seq(Chars), be \in Seq(Chars) : te = t \o e /\ be = b \o e
  BY ConcatProperties
<1>3. te \o b \in Seq(Chars) /\ be \o l \in Seq(Chars)
  BY ConcatProperties
<1>4. (te \o b) \o e = te \o be
  BY <1>2, ConcatAssociative
<1>5. (te \o be) \o l = te \o (be \o l)
  BY ConcatAssociative
<1> QED
  BY <1>1, <1>2, <1>3, <1>4, <1>5 DEF Joined

\* Two texts of lines are joined as their lines are.
LEMMA JoinConcat ==
    ASSUME NEW ms \in ManyLines
    PROVE  \A ns \in ManyLines : Join(ms \o ns) = Joined(Join(ms), Join(ns))
<1>1. PICK t \in Seq(Chars) : t = Join(ms)
  BY JoinSteps
<1>2. ms \in Seq(Seq(Chars)) /\ ms # <<>>
  BY DEF ManyLines
<1> DEFINE T == {ns \in Seq(Seq(Chars)) : ns # <<>> => Join(ms \o ns) = Joined(t, Join(ns))}
<1>3. <<>> \in T
  OBVIOUS
<1>4. ASSUME NEW ns \in Seq(Seq(Chars)), NEW l \in Seq(Chars), ns \in T
      PROVE  Append(ns, l) \in T
  <2>1. PICK us \in Seq(Seq(Chars)) : us = Append(ns, l) /\ us # <<>>
    BY LastOfAppend
  <2>2. CASE ns = <<>>
    <3>1. us = <<l>> /\ ms \o <<l>> = Append(ms, l)
      BY <1>2, <2>1, <2>2, ConcatOne
    <3>2. Join(Append(ms, l)) = Joined(t, l) /\ Join(<<l>>) = l
      BY <1>1, JoinSteps
    <3> QED
      BY <2>1, <3>1, <3>2
  <2>3. CASE ns # <<>>
    <3>1. PICK b \in Seq(Chars) : b = Join(ns) /\ ns \in ManyLines
      BY <2>3, JoinSteps DEF ManyLines
    <3>2. Join(us) = Joined(b, l)
      BY <2>1, <3>1, JoinSteps
    <3>3. PICK ws \in ManyLines : ws = ms \o ns /\ Join(ws) = Joined(t, b)
      <4>1. ms \o ns \in Seq(Seq(Chars)) /\ ms \o ns # <<>>
        BY <1>2, ConcatProperties, ConcatEqualIffEmpty
      <4> QED
        BY <1>4, <2>3, <3>1, <4>1 DEF ManyLines
    <3>4. ms \o us = Append(ws, l)
      BY <1>2, <2>1, <3>3, ConcatOne
    <3>5. Join(Append(ws, l)) = Joined(Joined(t, b), l)
      BY <3>3, JoinSteps
    <3>6. Joined(Joined(t, b), l) = Joined(t, Joined(b, l))
      BY JoinedTwice
    <3> QED
      BY <2>1, <3>2, <3>4, <3>5, <3>6
  <2> QED
    BY <2>2, <2>3
<1> HIDE DEF T
<1>5. Seq(Seq(Chars)) \subseteq T
  BY <1>3, <1>4, SeqSetInduction
<1> QED
  BY <1>1, <1>5 DEF T, ManyLines

\* A part of the lines gives no longer text than all of them.
LEMMA JoinPart ==
    ASSUME NEW as \in Seq(Seq(Chars)), NEW bs \in Seq(Seq(Chars)), NEW cs \in Seq(Seq(Chars))
    PROVE  /\ Join(bs) \in Seq(Chars)
           /\ Len(Join(bs)) <= Len(Join((as \o bs) \o cs))
<1>1. \A ls \in Seq(Seq(Chars)) : Join(ls) \in Seq(Chars)
  BY JoinSteps, EmptyText DEF ManyLines
<1>2. ASSUME NEW ms \in Seq(Seq(Chars)), NEW ns \in Seq(Seq(Chars))
      PROVE  /\ ms \o ns \in Seq(Seq(Chars))
             /\ Len(Join(ms)) <= Len(Join(ms \o ns)) /\ Len(Join(ns)) <= Len(Join(ms \o ns))
  <2>1. ms \o ns \in Seq(Seq(Chars))
    BY ConcatProperties
  <2>2. PICK a \in Seq(Chars), b \in Seq(Chars) : a = Join(ms) /\ b = Join(ns)
    BY <1>1
  <2>3. CASE ms = <<>>
    <3>1. ms \o ns = ns /\ a = <<>>
      BY <2>2, <2>3, ConcatEmptySeq, JoinSteps
    <3>2. Len(a) = 0
      BY <3>1
    <3> QED
      BY <2>1, <2>2, <3>1, <3>2
  <2>4. CASE ns = <<>>
    <3>1. ms \o ns = ms /\ b = <<>>
      BY <2>2, <2>4, ConcatEmptySeq, JoinSteps
    <3>2. Len(b) = 0
      BY <3>1
    <3> QED
      BY <2>1, <2>2, <3>1, <3>2
  <2>5. CASE ms # <<>> /\ ns # <<>>
    <3>1. Join(ms \o ns) = Joined(a, b)
      BY <2>2, <2>5, JoinConcat DEF ManyLines
    <3>2. Len(Joined(a, b)) = Len(a) + 1 + Len(b)
      BY JoinedIs
    <3> QED
      BY <2>1, <2>2, <3>1, <3>2
  <2> QED
    BY <2>3, <2>4, <2>5
<1>3. PICK ms \in Seq(Seq(Chars)) : ms = as \o bs /\ Len(Join(bs)) <= Len(Join(ms))
  BY <1>2
<1>4. ms \o cs \in Seq(Seq(Chars)) /\ Len(Join(ms)) <= Len(Join(ms \o cs))
  BY <1>2
<1>5. PICK x \in Nat, y \in Nat, z \in Nat :
          x = Len(Join(bs)) /\ y = Len(Join(ms)) /\ z = Len(Join(ms \o cs))
  <2>1. Join(bs) \in Seq(Chars) /\ Join(ms) \in Seq(Chars) /\ Join(ms \o cs) \in Seq(Chars)
    BY <1>1, <1>4
  <2> QED
    BY <2>1
<1>6. x <= y
  BY <1>3, <1>5
<1>7. y <= z
  BY <1>4, <1>5
<1>8. x <= z
  BY <1>6, <1>7
<1>9. Join((as \o bs) \o cs) = Join(ms \o cs)
  BY <1>3
<1> QED
  BY <1>1, <1>5, <1>8, <1>9

\* Only no line at all and one empty line are joined to the empty text.
LEMMA JoinNotEmpty ==
    ASSUME NEW ls \in Seq(Seq(Chars)), Join(ls) = <<>>, ls # <<>>
    PROVE  ls = <<<<>>>>
<1>1. PICK f \in Seq(Seq(Chars)), l \in Seq(Chars) : ls = Append(f, l)
  BY FrontLast
<1>2. CASE f = <<>>
  <2>1. ls = <<l>> /\ Join(<<l>>) = l
    BY <1>1, <1>2, JoinSteps
  <2> QED
    BY <2>1
<1>3. CASE f # <<>>
  <2>1. PICK t \in Seq(Chars) : Join(ls) = Joined(t, l)
    BY <1>1, <1>3, JoinSteps DEF ManyLines
  <2>2. Len(Joined(t, l)) = Len(t) + 1 + Len(l)
    BY JoinedIs
  <2>3. Joined(t, l) # <<>>
    BY <2>2
  <2> QED
    BY <2>1, <2>3
<1> QED
  BY <1>2, <1>3

-----------------------------------------------------------------------------
(* The final line end.                                                      *)

\* What Trim takes, at most, is one line feed, and GrepLines cuts what it leaves.
LEMMA TrimIs ==
    ASSUME NEW t \in Seq(Chars)
    PROVE  /\ Trim(t) \in Seq(Chars) /\ Len(Trim(t)) <= Len(t)
           /\ t \in {Trim(t), Trim(t) \o <<LF>>}
<1>1. CASE t # <<>> /\ Last(t) = LF
  <2>1. PICK u \in Seq(Chars) : u = Front(t) /\ t = Append(u, LF) /\ Len(u) = Len(t) - 1
    BY <1>1, FrontLast
  <2>2. LF \in Chars
    BY DEF Chars
  <2>3. Append(u, LF) = u \o <<LF>>
    BY <2>2, ConcatOne
  <2>4. Trim(t) = u
    BY <1>1, <2>1 DEF Trim
  <2>5. t = u \o <<LF>>
    BY <2>1, <2>3
  <2> QED
    BY <2>1, <2>4, <2>5
<1>2. CASE ~(t # <<>> /\ Last(t) = LF)
  BY <1>2 DEF Trim
<1> QED
  BY <1>1, <1>2
=============================================================================
