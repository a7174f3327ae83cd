--------------------------- MODULE CollectionProofs ---------------------------
(* What the proofs about the models rest on: least and greatest elements of   *)
(* sets of naturals, what a filtered sequence is, sums over finite sets, and   *)
(* folds of sequences from the left.                                          *)
EXTENDS Filters, Functions, FiniteSetTheorems, FunctionTheorems, SequenceTheorems, TLAPS

(* A set of naturals that is not empty has a least element.                   *)
LEMMA LeastElement ==
    ASSUME NEW T \in SUBSET Nat, T # {}
    PROVE  \E m \in T : \A k \in T : m <= k
<1>1. PICK m \in T : \A k \in T : ~(<<k, m>> \in OpToRel(<, Nat))
  BY NatLessThanWellFounded, WFMin
<1>2. \A k \in T : ~(k < m)
  BY <1>1 DEF OpToRel
<1> QED BY <1>2

(* One that is bounded has a greatest.                                       *)
LEMMA GreatestElement ==
    ASSUME NEW T \in SUBSET Nat, T # {}, NEW n \in Nat, \A k \in T : k <= n
    PROVE  \E m \in T : \A k \in T : k <= m
<1> DEFINE U == {n - k : k \in T}
<1>1. U \in SUBSET Nat /\ U # {}
  <2>1. \A k \in T : n - k \in Nat
    OBVIOUS
  <2> QED BY <2>1
<1>2. PICK u \in U : \A k \in U : u <= k
  BY <1>1, LeastElement
<1>3. PICK m \in T : u = n - m
  BY <1>2
<1>4. \A k \in T : n - m <= n - k
  BY <1>2, <1>3
<1> QED BY <1>3, <1>4

(* A sequence of numbers has a first among its greatest.                      *)
LEMMA FirstGreatest ==
    ASSUME NEW n \in Nat \ {0}, NEW f \in [1..n -> Nat]
    PROVE  \E i \in 1..n : \A k \in 1..n : f[k] < f[i] \/ (f[k] = f[i] /\ i <= k)
<1> DEFINE Tops(m) == {i \in 1..m : \A k \in 1..m : f[k] <= f[i]}
           T == {m \in 1..n : Tops(m) = {}}
<1>1. \A k \in 1..n : f[k] \in Nat
  OBVIOUS
<1>2. T = {}
  <2> SUFFICES ASSUME T # {} PROVE FALSE
    OBVIOUS
  <2>0. T \in SUBSET Nat /\ T # {}
    OBVIOUS
  <2>1. PICK m \in T : \A k \in T : m <= k
    <3> HIDE DEF T
    <3> QED BY <2>0, LeastElement
  <2>2. CASE m = 1
    <3>1. 1 \in Tops(m)
      BY <1>1, <2>2
    <3> QED BY <2>1, <3>1
  <2>3. CASE m # 1
    <3>1. m - 1 \in 1..n /\ m \in 1..n
      BY <2>1, <2>3
    <3>2. m - 1 \notin T
      <4>1. m \in Int /\ ~(m <= m - 1)
        BY <3>1
      <4> HIDE DEF T
      <4> QED BY <2>1, <4>1
    <3>3. PICK i \in 1..m - 1 : \A k \in 1..m - 1 : f[k] <= f[i]
      BY <3>1, <3>2
    <3>4. CASE f[m] <= f[i]
      <4>1. i \in Tops(m)
        BY <3>1, <3>3, <3>4
      <4> QED BY <2>1, <4>1
    <3>5. CASE ~(f[m] <= f[i])
      <4>1. \A k \in 1..m - 1 : f[k] <= f[m]
        BY <1>1, <3>1, <3>3, <3>5
      <4>2. m \in Tops(m)
        BY <1>1, <3>1, <4>1
      <4> QED BY <2>1, <4>2
    <3> QED BY <3>4, <3>5
  <2> QED BY <2>2, <2>3
<1>3. Tops(n) # {} /\ Tops(n) \in SUBSET Nat
  BY <1>2, SMTT(20)
<1>4. PICK i \in Tops(n) : \A k \in Tops(n) : i <= k
  BY <1>3, LeastElement
<1>5. ASSUME NEW k \in 1..n
      PROVE  f[k] < f[i] \/ (f[k] = f[i] /\ i <= k)
  <2>1. f[k] <= f[i] /\ \A j \in 1..n : f[j] <= f[i]
    BY <1>4
  <2>2. CASE f[k] = f[i]
    <3>1. k \in Tops(n)
      BY <2>1, <2>2
    <3> QED BY <1>4, <2>2, <3>1
  <2>3. CASE f[k] # f[i]
    BY <1>1, <1>4, <2>1, <2>3
  <2> QED BY <2>2, <2>3
<1> QED BY <1>4, <1>5

(* Of a finite set of naturals, every place in its order is taken by exactly   *)
(* one element.                                                             *)
LEMMA RankOfElements ==
    ASSUME NEW K \in SUBSET Nat, IsFiniteSet(K)
    PROVE  /\ Cardinality(K) \in Nat
           /\ \A i \in K : Cardinality(Before(K, i)) \in 0..Cardinality(K) - 1
           /\ \A i, j \in K : i < j => Cardinality(Before(K, i)) < Cardinality(Before(K, j))
           /\ \A k \in 1..Cardinality(K) : \E i \in K : Cardinality(Before(K, i)) = k - 1
<1> DEFINE n == Cardinality(K)
           rank == [i \in K |-> Cardinality(Before(K, i)) + 1]
<1>1. n \in Nat
  BY FS_CardinalityType
<1>2. \A i \in K : IsFiniteSet(Before(K, i)) /\ Cardinality(Before(K, i)) \in Nat
  BY FS_Subset, FS_CardinalityType DEF Before
<1>3. ASSUME NEW i \in K
      PROVE  Cardinality(Before(K, i)) < n
  <2>1. Before(K, i) \in SUBSET K /\ i \notin Before(K, i)
    BY DEF Before
  <2>2. Cardinality(Before(K, i)) <= n /\ (n = Cardinality(Before(K, i)) => K = Before(K, i))
    BY <2>1, FS_Subset
  <2> QED BY <1>1, <1>2, <2>1, <2>2
<1>4. ASSUME NEW i \in K, NEW j \in K, i < j
      PROVE  Cardinality(Before(K, i)) < Cardinality(Before(K, j))
  <2>0. \A x \in K : x \in Nat
    OBVIOUS
  <2>a. \A x \in K : x < i => x < j
    BY <1>4, <2>0
  <2>b. ~(i < i)
    BY <2>0
  <2>1. /\ Before(K, i) \in SUBSET Before(K, j)
        /\ i \in Before(K, j) /\ i \notin Before(K, i)
    BY <1>4, <2>a, <2>b, Zenon DEF Before
  <2>2. /\ Cardinality(Before(K, i)) <= Cardinality(Before(K, j))
        /\ Cardinality(Before(K, j)) = Cardinality(Before(K, i)) => Before(K, j) = Before(K, i)
    BY <1>2, <2>1, FS_Subset
  <2> QED BY <1>2, <2>1, <2>2
<1>5. rank \in [K -> 1..n]
  BY <1>1, <1>2, <1>3
<1>6. \A i, j \in K : rank[i] = rank[j] => i = j
  <2> SUFFICES ASSUME NEW i \in K, NEW j \in K, i # j
               PROVE  rank[i] # rank[j]
    OBVIOUS
  <2>1. i < j \/ j < i
    OBVIOUS
  <2> QED BY <1>2, <1>4, <2>1
<1>7. rank \in Injection(K, 1..n)
  BY <1>5, <1>6, Fun_IsInj
<1>8. IsFiniteSet(1..n) /\ Cardinality(1..n) = n
  BY <1>1, FS_Interval
<1>9. rank \in Surjection(K, 1..n)
  BY <1>7, <1>8, FS_Injection
<1>10. \A k \in 1..n : \E i \in K : rank[i] = k
  <2> HIDE DEF rank
  <2> QED BY <1>9 DEF Surjection
<1>11. \A k \in 1..n : \E i \in K : Cardinality(Before(K, i)) = k - 1
  <2> SUFFICES ASSUME NEW k \in 1..n PROVE \E i \in K : Cardinality(Before(K, i)) = k - 1
    OBVIOUS
  <2>1. PICK i \in K : rank[i] = k
    BY <1>10
  <2>2. Cardinality(Before(K, i)) + 1 = k
    BY <2>1
  <2> QED BY <1>2, <2>2
<1>12. \A i \in K : Cardinality(Before(K, i)) \in 0..n - 1
  BY <1>1, <1>2, <1>3
<1> QED BY <1>1, <1>4, <1>11, <1>12

(* A filtered sequence is the elements at the kept indexes, in their order.    *)
THEOREM FilteredEnumerates ==
    ASSUME NEW X, NEW s \in Seq(X), NEW S
    PROVE  /\ Cardinality(KeptIn(s, S)) \in 0..Len(s)
           /\ DOMAIN Filtered(s, S) = 1..Cardinality(KeptIn(s, S))
           /\ \E f \in [1..Cardinality(KeptIn(s, S)) -> KeptIn(s, S)] :
                /\ \A k \in DOMAIN Filtered(s, S) : Filtered(s, S)[k] = s[f[k]]
                /\ \A k, l \in DOMAIN Filtered(s, S) : k < l => f[k] < f[l]
                /\ \A i \in KeptIn(s, S) : \E k \in DOMAIN Filtered(s, S) : f[k] = i
<1> DEFINE K == KeptIn(s, S)
           n == Cardinality(K)
           f == [k \in 1..n |-> CHOOSE i \in K : Cardinality(Before(K, i)) = k - 1]
<1>1. DOMAIN s = 1..Len(s) /\ Len(s) \in Nat
  OBVIOUS
<1>2. IsFiniteSet(1..Len(s)) /\ Cardinality(1..Len(s)) = Len(s)
  BY <1>1, FS_Interval
<1>3. K \in SUBSET (1..Len(s)) /\ K \in SUBSET Nat
  BY <1>1 DEF KeptIn
<1>4. IsFiniteSet(K) /\ n <= Len(s)
  BY <1>2, <1>3, FS_Subset
<1>5. /\ n \in Nat
      /\ \A i \in K : Cardinality(Before(K, i)) \in 0..n - 1
      /\ \A i, j \in K : i < j => Cardinality(Before(K, i)) < Cardinality(Before(K, j))
      /\ \A k \in 1..n : \E i \in K : Cardinality(Before(K, i)) = k - 1
  BY <1>3, <1>4, RankOfElements
<1>6. Filtered(s, S) = [k \in 1..n |-> s[CHOOSE i \in K : Cardinality(Before(K, i)) = k - 1]]
  BY DEF Filtered
<1> HIDE DEF K
<1>7. \A k \in 1..n : f[k] \in K /\ Cardinality(Before(K, f[k])) = k - 1
  BY <1>5
<1>8. f \in [1..n -> K]
  BY <1>7
<1>9. DOMAIN Filtered(s, S) = 1..n /\ \A k \in 1..n : Filtered(s, S)[k] = s[f[k]]
  BY <1>6
<1> HIDE DEF f, n
<1>10. \A k, l \in 1..n : k < l => f[k] < f[l]
  <2> SUFFICES ASSUME NEW k \in 1..n, NEW l \in 1..n, k < l, ~(f[k] < f[l])
               PROVE  FALSE
    OBVIOUS
  <2>1. f[k] \in K /\ f[l] \in K /\ f[k] \in Nat /\ f[l] \in Nat /\ k \in Int /\ l \in Int
    <3>1. f[k] \in K /\ f[l] \in K
      BY <1>7
    <3>2. f[k] \in Nat /\ f[l] \in Nat
      <4>1. K \subseteq Nat
        BY <1>3
      <4> QED BY <3>1, <4>1, Zenon
    <3>3. k \in Int /\ l \in Int
      BY <1>5
    <3> QED BY <3>1, <3>2, <3>3
  <2>2. CASE f[k] = f[l]
    BY <1>7, <2>1, <2>2
  <2>3. CASE f[l] < f[k]
    <3>1. Cardinality(Before(K, f[l])) < Cardinality(Before(K, f[k]))
      BY <1>5, <2>1, <2>3
    <3>2. l - 1 < k - 1
      BY <1>7, <3>1
    <3> QED BY <2>1, <3>2
  <2> QED BY <2>1, <2>2, <2>3
<1>11. \A i \in K : \E k \in 1..n : f[k] = i
  <2> SUFFICES ASSUME NEW i \in K PROVE \E k \in 1..n : f[k] = i
    OBVIOUS
  <2>1. PICK c \in 0..n - 1 : c = Cardinality(Before(K, i))
    BY <1>5
  <2>2. c + 1 \in 1..n
    BY <1>5
  <2>3. f[c + 1] \in K /\ Cardinality(Before(K, f[c + 1])) = Cardinality(Before(K, i))
    BY <1>7, <2>1, <2>2
  <2>4. f[c + 1] = i
    <3>1. f[c + 1] \in Nat /\ i \in Nat
      BY <1>3, <2>3
    <3>2. ~(f[c + 1] < i) /\ ~(i < f[c + 1])
      BY <1>5, <2>3
    <3> QED BY <3>1, <3>2
  <2> QED BY <2>2, <2>4
<1>12. n \in 0..Len(s)
  BY <1>1, <1>4, <1>5 DEF n
<1>13. \A k \in DOMAIN Filtered(s, S) : k \in 1..n
  BY <1>9
<1> QED BY <1>8, <1>9, <1>10, <1>11, <1>12, <1>13 DEF K, n

(* So it is a sequence of some of the elements and no longer, has exactly      *)
(* those that are kept, and none twice if s has none twice.                   *)
LEMMA FilteredProperties ==
    ASSUME NEW X, NEW s \in Seq(X), NEW S
    PROVE  /\ Filtered(s, S) \in Seq(X) /\ Len(Filtered(s, S)) <= Len(s)
           /\ \A k \in DOMAIN Filtered(s, S) : \E i \in DOMAIN s : Filtered(s, S)[k] = s[i] /\ s[i] \in S
           /\ \A i \in DOMAIN s : s[i] \in S => \E k \in DOMAIN Filtered(s, S) : Filtered(s, S)[k] = s[i]
           /\ IsInjective(s) => IsInjective(Filtered(s, S))
<1> DEFINE K == KeptIn(s, S)
           n == Cardinality(K)
           t == Filtered(s, S)
<1>1. n \in Nat /\ n <= Len(s) /\ DOMAIN t = 1..n
  BY FilteredEnumerates
<1>2. PICK f \in [1..n -> K] : /\ \A k \in 1..n : t[k] = s[f[k]]
                               /\ \A k, l \in 1..n : k < l => f[k] < f[l]
                               /\ \A i \in K : \E k \in 1..n : f[k] = i
  BY <1>1, FilteredEnumerates
<1>3. \A i \in K : i \in DOMAIN s /\ s[i] \in X /\ s[i] \in S
  BY ElementOfSeq DEF KeptIn
<1>4. \A k \in 1..n : f[k] \in DOMAIN s /\ t[k] \in X /\ t[k] \in S
  BY <1>2, <1>3
<1>5. t = [k \in 1..n |-> t[k]]
  BY DEF Filtered
<1> HIDE DEF t, n
<1>6. t \in Seq(X) /\ Len(t) = n
  BY <1>1, <1>4, <1>5, SMTT(20)
<1>7. \A k \in DOMAIN t : \E i \in DOMAIN s : t[k] = s[i] /\ s[i] \in S
  BY <1>1, <1>2, <1>3, <1>4
<1>8. \A i \in DOMAIN s : s[i] \in S => \E k \in DOMAIN t : t[k] = s[i]
  BY <1>1, <1>2 DEF KeptIn
<1>9. ASSUME IsInjective(s) PROVE IsInjective(t)
  <2> SUFFICES ASSUME NEW k \in 1..n, NEW l \in 1..n, t[k] = t[l], k < l
               PROVE  FALSE
    BY <1>1 DEF IsInjective
  <2>1. s[f[k]] = s[f[l]] /\ f[k] \in DOMAIN s /\ f[l] \in DOMAIN s /\ f[k] < f[l]
    BY <1>2, <1>4
  <2>2. f[k] = f[l] /\ f[k] \in Nat
    BY <1>9, <2>1 DEF IsInjective
  <2> QED BY <2>1, <2>2
<1> QED BY <1>1, <1>6, <1>7, <1>8, <1>9 DEF t

-----------------------------------------------------------------------------
(* Sums. SumFunctionOnSet folds a set along AnyOf; FoldOf says what such a fold   *)
(* is, and the lemmas up to SumSplit show that there is one and that the order   *)
(* of the elements does not matter.                                          *)
AnyOf(s) == CHOOSE x \in s : TRUE
FoldOf(v, S, g) == g = [s \in SUBSET S |-> IF s = {} THEN 0 ELSE v[AnyOf(s)] + g[s \ {AnyOf(s)}]]
Summable(v, S) == IsFiniteSet(S) /\ \A x \in S : v[x] \in Int

\* The community module's definition, spelled out.
LEMMA SumIsFold ==
    ASSUME NEW v, NEW S
    PROVE  SumFunctionOnSet(v, S) = (CHOOSE g : FoldOf(v, S, g))[S]
BY DEF SumFunctionOnSet, FoldFunctionOnSet, MapThenFoldSet, FoldOf, AnyOf

\* Every element of a set that is not empty can be taken out.
LEMMA AnyOfLess ==
    ASSUME NEW s, s # {}, IsFiniteSet(s)
    PROVE  /\ AnyOf(s) \in s
           /\ IsFiniteSet(s \ {AnyOf(s)})
           /\ Cardinality(s \ {AnyOf(s)}) = Cardinality(s) - 1
           /\ Cardinality(s) \in Nat \ {0}
<1>1. AnyOf(s) \in s
  BY DEF AnyOf
<1>2. Cardinality(s) \in Nat /\ Cardinality(s) # 0
  BY FS_CardinalityType, FS_EmptySet
<1> QED BY <1>1, <1>2, FS_RemoveElement

\* There is a fold, level by level of the subsets' cardinality.
LEMMA FoldExists ==
    ASSUME NEW v, NEW S, Summable(v, S)
    PROVE  \E g : FoldOf(v, S, g) /\ \A s \in SUBSET S : g[s] \in Int
<1> DEFINE Small(n) == {s \in SUBSET S : Cardinality(s) <= n}
           Upto(n, g) == g \in [Small(n) -> Int] /\ \A s \in Small(n) : g[s] = IF s = {} THEN 0 ELSE v[AnyOf(s)] + g[s \ {AnyOf(s)}]
           T == {n \in Nat : \A g : ~Upto(n, g)}
<1>0. \A s \in SUBSET S : IsFiniteSet(s) /\ Cardinality(s) \in Nat
  BY FS_Subset, FS_CardinalityType DEF Summable
<1>1. T = {}
  <2> SUFFICES ASSUME T # {} PROVE FALSE
    OBVIOUS
  <2>1. PICK m \in T : \A k \in T : m <= k
    <3>1. T \in SUBSET Nat /\ T # {}
      OBVIOUS
    <3> HIDE DEF T
    <3> QED BY <3>1, LeastElement
  <2>2. m # 0
    <3> SUFFICES ASSUME m = 0 PROVE FALSE
      OBVIOUS
    <3> DEFINE g == [s \in Small(0) |-> 0]
    <3>1. \A s \in Small(0) : s = {}
      BY <1>0, FS_EmptySet
    <3>2. Upto(0, g)
      BY <3>1
    <3> HIDE DEF Upto
    <3> QED BY <2>1, <3>2
  <2>3. m - 1 \in Nat /\ m - 1 \notin T
    <3>1. m - 1 \in Nat /\ ~(m <= m - 1)
      BY <2>1, <2>2
    <3> HIDE DEF T
    <3> QED BY <2>1, <3>1
  <2>4. PICK p : Upto(m - 1, p)
    BY <2>3
  <2> DEFINE g == [s \in Small(m) |-> IF s = {} THEN 0 ELSE v[AnyOf(s)] + p[s \ {AnyOf(s)}]]
  <2>5. ASSUME NEW s \in Small(m), s # {}
        PROVE  s \ {AnyOf(s)} \in Small(m - 1) /\ s \ {AnyOf(s)} \in Small(m) /\ v[AnyOf(s)] \in Int
    <3>1. AnyOf(s) \in s /\ Cardinality(s \ {AnyOf(s)}) = Cardinality(s) - 1 /\ Cardinality(s) \in Nat
      BY <1>0, <2>5, AnyOfLess
    <3>2. Cardinality(s \ {AnyOf(s)}) <= m - 1 /\ Cardinality(s \ {AnyOf(s)}) <= m
      BY <2>1, <3>1
    <3> QED BY <3>1, <3>2 DEF Summable
  <2>6. ASSUME NEW s \in Small(m) PROVE g[s] \in Int
    <3>1. CASE s = {}
      BY <3>1
    <3>2. CASE s # {}
      <4>1. v[AnyOf(s)] \in Int
        BY <2>5, <3>2
      <4>2. p[s \ {AnyOf(s)}] \in Int
        BY <2>4, <2>5, <3>2
      <4>3. g[s] = v[AnyOf(s)] + p[s \ {AnyOf(s)}]
        BY <3>2
      <4> HIDE DEF g
      <4> QED BY <4>1, <4>2, <4>3
    <3> QED BY <3>1, <3>2
  <2>7. \A s \in Small(m - 1) : g[s] = p[s]
    <3>1. Small(m - 1) \subseteq Small(m)
      BY <1>0, <2>1
    <3> QED BY <2>4, <3>1
  <2>8. \A s \in Small(m) : g[s] = IF s = {} THEN 0 ELSE v[AnyOf(s)] + g[s \ {AnyOf(s)}]
    <3> SUFFICES ASSUME NEW s \in Small(m), s # {} PROVE g[s] = v[AnyOf(s)] + g[s \ {AnyOf(s)}]
      OBVIOUS
    <3>1. g[s] = v[AnyOf(s)] + p[s \ {AnyOf(s)}]
      OBVIOUS
    <3>2. g[s \ {AnyOf(s)}] = p[s \ {AnyOf(s)}]
      BY <2>5, <2>7
    <3> QED BY <3>1, <3>2
  <2>9. g \in [Small(m) -> Int]
    BY <2>6
  <2>10. Upto(m, g)
    <3> HIDE DEF g, Small
    <3> QED BY <2>8, <2>9
  <2> HIDE DEF Upto, g
  <2> QED BY <2>1, <2>10
<1>2. PICK g : Upto(Cardinality(S), g)
  BY <1>0, <1>1
<1>3. Small(Cardinality(S)) = SUBSET S
  BY FS_Subset DEF Summable
<1>4. g = [s \in SUBSET S |-> IF s = {} THEN 0 ELSE v[AnyOf(s)] + g[s \ {AnyOf(s)}]]
  BY <1>2, <1>3
<1> QED BY <1>2, <1>3, <1>4 DEF FoldOf

\* Two folds agree where both are defined.
LEMMA FoldUnique ==
    ASSUME NEW v, NEW S, NEW R, NEW g, NEW h, FoldOf(v, S, g), FoldOf(v, R, h),
           NEW s \in SUBSET (S \cap R), IsFiniteSet(s)
    PROVE  g[s] = h[s]
<1> DEFINE Bad(n) == {r \in SUBSET s : Cardinality(r) = n /\ g[r] # h[r]}
           T == {n \in Nat : Bad(n) # {}}
<1>0. \A r \in SUBSET s : IsFiniteSet(r) /\ Cardinality(r) \in Nat
  BY FS_Subset, FS_CardinalityType
<1>1. SUFFICES ASSUME g[s] # h[s] PROVE FALSE
  OBVIOUS
<1>2. T \in SUBSET Nat /\ Cardinality(s) \in T
  BY <1>0, <1>1
<1>3. PICK m \in T : \A k \in T : m <= k
  <2> HIDE DEF T
  <2> QED BY <1>2, LeastElement
<1>4. PICK r \in SUBSET s : Cardinality(r) = m /\ g[r] # h[r]
  BY <1>3
<1>5. r \in SUBSET S /\ r \in SUBSET R
  BY <1>4
<1>6. r # {}
  BY <1>4, <1>5 DEF FoldOf
<1>7. /\ AnyOf(r) \in r /\ Cardinality(r \ {AnyOf(r)}) = Cardinality(r) - 1
      /\ Cardinality(r) \in Nat \ {0}
  BY <1>0, <1>6, AnyOfLess
<1>8. g[r \ {AnyOf(r)}] = h[r \ {AnyOf(r)}]
  <2>1. Cardinality(r \ {AnyOf(r)}) \notin T
    <3>1. Cardinality(r \ {AnyOf(r)}) = m - 1 /\ ~(m <= m - 1)
      BY <1>4, <1>7
    <3> HIDE DEF T
    <3> QED BY <1>3, <3>1
  <2> QED BY <1>0, <2>1
<1>9. g[r] = v[AnyOf(r)] + g[r \ {AnyOf(r)}] /\ h[r] = v[AnyOf(r)] + h[r \ {AnyOf(r)}]
  <2>1. g[r] = IF r = {} THEN 0 ELSE v[AnyOf(r)] + g[r \ {AnyOf(r)}]
    BY <1>5 DEF FoldOf
  <2>2. h[r] = IF r = {} THEN 0 ELSE v[AnyOf(r)] + h[r \ {AnyOf(r)}]
    BY <1>5 DEF FoldOf
  <2> QED BY <1>6, <2>1, <2>2
<1> QED BY <1>4, <1>8, <1>9

\* What the definition computes: nothing for the empty set, and otherwise one
\* element and the sum of the rest.
LEMMA SumUnfolds ==
    ASSUME NEW v, NEW S, Summable(v, S)
    PROVE  /\ SumFunctionOnSet(v, S) \in Int
           /\ S = {} => SumFunctionOnSet(v, S) = 0
           /\ S # {} => SumFunctionOnSet(v, S) = v[AnyOf(S)] + SumFunctionOnSet(v, S \ {AnyOf(S)})
<1>1. PICK g : g = CHOOSE h : FoldOf(v, S, h)
  OBVIOUS
<1>2. FoldOf(v, S, g)
  BY <1>1, FoldExists
<1>3. PICK h : FoldOf(v, S, h) /\ \A s \in SUBSET S : h[s] \in Int
  BY FoldExists
<1>4. g[S] = h[S]
  BY <1>2, <1>3, FoldUnique DEF Summable
<1>5. SumFunctionOnSet(v, S) = g[S]
  BY <1>1, SumIsFold
<1>6. g[S] = IF S = {} THEN 0 ELSE v[AnyOf(S)] + g[S \ {AnyOf(S)}]
  BY <1>2 DEF FoldOf
<1>7. ASSUME S # {} PROVE SumFunctionOnSet(v, S \ {AnyOf(S)}) = g[S \ {AnyOf(S)}]
  <2> DEFINE R == S \ {AnyOf(S)}
  <2>1. Summable(v, R) /\ IsFiniteSet(R)
    BY <1>7, AnyOfLess DEF Summable
  <2>2. PICK k : k = CHOOSE h2 : FoldOf(v, R, h2)
    OBVIOUS
  <2>3. FoldOf(v, R, k)
    BY <2>1, <2>2, FoldExists
  <2>4. k[R] = g[R]
    BY <1>2, <2>1, <2>3, FoldUnique
  <2> QED BY <2>2, <2>4, SumIsFold
<1> QED BY <1>3, <1>4, <1>5, <1>6, <1>7

\* Parts of what can be summed can be summed.
LEMMA SummableParts ==
    ASSUME NEW v, NEW S, Summable(v, S), NEW R \in SUBSET S
    PROVE  Summable(v, R) /\ Cardinality(R) \in Nat
BY FS_Subset, FS_CardinalityType DEF Summable

\* Any element may be taken out of a sum, not only the one the fold takes.
LEMMA SumSplit ==
    ASSUME NEW v, NEW S, Summable(v, S), NEW x \in S
    PROVE  SumFunctionOnSet(v, S) = v[x] + SumFunctionOnSet(v, S \ {x})
<1> DEFINE Sum(R) == SumFunctionOnSet(v, R)
           Bad(n) == {R \in SUBSET S : Cardinality(R) = n /\ \E y \in R : Sum(R) # v[y] + Sum(R \ {y})}
           T == {n \in Nat : Bad(n) # {}}
<1>0. ASSUME NEW R \in SUBSET S
      PROVE  IsFiniteSet(R) /\ Cardinality(R) \in Nat /\ Summable(v, R) /\ Sum(R) \in Int
  BY SummableParts, SumUnfolds DEF Summable
<1>1. SUFFICES ASSUME Sum(S) # v[x] + Sum(S \ {x}) PROVE FALSE
  OBVIOUS
<1>2. T \in SUBSET Nat /\ Cardinality(S) \in T
  <2>1. S \in Bad(Cardinality(S)) /\ Cardinality(S) \in Nat
    BY <1>0, <1>1
  <2> QED BY <2>1
<1>3. PICK m \in T : \A k \in T : m <= k
  <2> HIDE DEF T
  <2> QED BY <1>2, LeastElement
<1>4. PICK R \in Bad(m) : TRUE
  BY <1>3
<1>5. PICK y \in R : Sum(R) # v[y] + Sum(R \ {y})
  BY <1>4
<1> DEFINE c == AnyOf(R)
<1>6. /\ R \in SUBSET S /\ c \in R /\ Cardinality(R) = m /\ m \in Nat \ {0}
      /\ Cardinality(R \ {c}) = m - 1 /\ Cardinality(R \ {y}) = m - 1
  <2>1. R \in SUBSET S /\ Cardinality(R) = m /\ IsFiniteSet(R)
    BY <1>0, <1>4
  <2>2. c \in R /\ Cardinality(R \ {c}) = m - 1 /\ m \in Nat \ {0}
    BY <1>5, <2>1, AnyOfLess
  <2>3. Cardinality(R \ {y}) = m - 1
    BY <1>5, <2>1, FS_RemoveElement
  <2> QED BY <2>1, <2>2, <2>3
<1>7. Sum(R) = v[c] + Sum(R \ {c})
  BY <1>0, <1>5, <1>6, SumUnfolds
<1>8. y # c
  BY <1>5, <1>7
<1>9. ASSUME NEW z \in R, NEW w \in R \ {z}, Cardinality(R \ {z}) = m - 1
      PROVE  Sum(R \ {z}) = v[w] + Sum((R \ {z}) \ {w})
  <2>1. m - 1 \notin T /\ m - 1 \in Nat
    <3>1. m - 1 \in Nat /\ ~(m <= m - 1)
      BY <1>6
    <3> HIDE DEF T
    <3> QED BY <1>3, <3>1
  <2>2. R \ {z} \notin Bad(m - 1)
    BY <2>1
  <2>3. R \ {z} \in SUBSET S
    BY <1>6
  <2> QED BY <1>9, <2>2, <2>3
<1> HIDE DEF c
<1>10. Sum(R \ {c}) = v[y] + Sum((R \ {c}) \ {y})
  BY <1>5, <1>6, <1>8, <1>9
<1>11. Sum(R \ {y}) = v[c] + Sum((R \ {y}) \ {c})
  BY <1>5, <1>6, <1>8, <1>9
<1>12. Sum((R \ {c}) \ {y}) = Sum((R \ {y}) \ {c})
  <2>1. (R \ {c}) \ {y} = (R \ {y}) \ {c}
    OBVIOUS
  <2> QED BY <2>1
<1>13. v[c] \in Int /\ v[y] \in Int /\ Sum((R \ {y}) \ {c}) \in Int
  <2>1. (R \ {y}) \ {c} \in SUBSET S /\ c \in S /\ y \in S
    BY <1>5, <1>6
  <2> QED BY <1>0, <2>1 DEF Summable
<1> HIDE DEF Sum
<1>14. Sum(R) = v[y] + Sum(R \ {y})
  <2> DEFINE p == v[c]
             q == v[y]
             r == Sum((R \ {y}) \ {c})
  <2>1. p \in Int /\ q \in Int /\ r \in Int
    BY <1>13
  <2>2. Sum(R \ {c}) = q + r /\ Sum(R \ {y}) = p + r /\ Sum(R) = p + Sum(R \ {c})
    BY <1>7, <1>10, <1>11, <1>12
  <2> HIDE DEF p, q, r
  <2>3. Sum(R) = q + (p + r)
    BY <2>1, <2>2
  <2> QED BY <2>2, <2>3 DEF q
<1> QED BY <1>5, <1>14

\* A sum is one element's share and the sum of the rest; it is an integer; the sum
\* of nothing is zero.
LEMMA SumFacts ==
    ASSUME NEW v, NEW S, Summable(v, S)
    PROVE  /\ SumFunctionOnSet(v, S) \in Int
           /\ SumFunctionOnSet(v, {}) = 0
           /\ \A x \in S : /\ SumFunctionOnSet(v, S \ {x}) \in Int
                           /\ SumFunctionOnSet(v, S) = v[x] + SumFunctionOnSet(v, S \ {x})
<1>1. SumFunctionOnSet(v, S) \in Int
  BY SumUnfolds
<1>2. SumFunctionOnSet(v, {}) = 0
  BY SummableParts, SumUnfolds
<1>3. ASSUME NEW x \in S
      PROVE  /\ SumFunctionOnSet(v, S \ {x}) \in Int
             /\ SumFunctionOnSet(v, S) = v[x] + SumFunctionOnSet(v, S \ {x})
  <2>1. Summable(v, S \ {x})
    BY SummableParts
  <2>2. SumFunctionOnSet(v, S \ {x}) \in Int
    BY <2>1, SumUnfolds
  <2> QED BY <2>2, SumSplit
<1> QED BY <1>1, <1>2, <1>3

\* The sum depends only on the values of the elements.
LEMMA SumSame ==
    ASSUME NEW v, NEW w, NEW S, Summable(v, S), \A x \in S : w[x] = v[x]
    PROVE  Summable(w, S) /\ SumFunctionOnSet(w, S) = SumFunctionOnSet(v, S)
<1> DEFINE Bad(n) == {R \in SUBSET S : Cardinality(R) = n /\ SumFunctionOnSet(w, R) # SumFunctionOnSet(v, R)}
           T == {n \in Nat : Bad(n) # {}}
<1>0. Summable(w, S)
  BY DEF Summable
<1>1. SUFFICES ASSUME SumFunctionOnSet(w, S) # SumFunctionOnSet(v, S) PROVE FALSE
  BY <1>0
<1>2. T \in SUBSET Nat /\ Cardinality(S) \in T
  <2>1. S \in Bad(Cardinality(S)) /\ Cardinality(S) \in Nat
    BY <1>1, SummableParts
  <2> QED BY <2>1
<1>3. PICK m \in T : \A k \in T : m <= k
  <2> HIDE DEF T
  <2> QED BY <1>2, LeastElement
<1>4. PICK R \in Bad(m) : TRUE
  BY <1>3
<1>5. Summable(v, R) /\ Summable(w, R) /\ R \in SUBSET S /\ IsFiniteSet(R) /\ Cardinality(R) = m
  BY <1>0, <1>4, SummableParts DEF Summable
<1>6. R # {}
  BY <1>4, <1>5, SumUnfolds
<1>7. PICK x : x \in R
  BY <1>6
<1>8. Cardinality(R \ {x}) = m - 1 /\ m \in Nat \ {0}
  <2>1. Cardinality(R \ {x}) = m - 1
    BY <1>5, <1>7, FS_RemoveElement
  <2>2. m \in Nat /\ m # 0
    BY <1>5, <1>6, FS_CardinalityType, FS_EmptySet
  <2> QED BY <2>1, <2>2
<1>9. SumFunctionOnSet(w, R \ {x}) = SumFunctionOnSet(v, R \ {x})
  <2>1. m - 1 \notin T /\ m - 1 \in Nat
    <3>1. m - 1 \in Nat /\ ~(m <= m - 1)
      BY <1>8
    <3> HIDE DEF T
    <3> QED BY <1>3, <3>1
  <2>2. R \ {x} \notin Bad(m - 1)
    BY <2>1
  <2> QED BY <1>5, <1>8, <2>2
<1>10. SumFunctionOnSet(w, R) = SumFunctionOnSet(v, R)
  BY <1>5, <1>7, <1>9, SumFacts
<1> QED BY <1>4, <1>10

\* What is nowhere negative has a sum that is not negative either, and no element
\* is above it.
LEMMA SumPositive ==
    ASSUME NEW v, NEW S, IsFiniteSet(S), \A x \in S : v[x] \in Nat
    PROVE  /\ SumFunctionOnSet(v, S) \in Nat
           /\ \A x \in S : v[x] <= SumFunctionOnSet(v, S)
<1> DEFINE Bad(n) == {R \in SUBSET S : Cardinality(R) = n /\ SumFunctionOnSet(v, R) \notin Nat}
           T == {n \in Nat : Bad(n) # {}}
<1>0. Summable(v, S)
  BY DEF Summable
<1>1. T = {}
  <2> SUFFICES ASSUME T # {} PROVE FALSE
    OBVIOUS
  <2>1. PICK m \in T : \A k \in T : m <= k
    <3>1. T \in SUBSET Nat
      OBVIOUS
    <3> HIDE DEF T
    <3> QED BY <3>1, LeastElement
  <2>2. PICK R \in Bad(m) : TRUE
    BY <2>1
  <2>3. Summable(v, R) /\ R \in SUBSET S /\ IsFiniteSet(R) /\ Cardinality(R) = m /\ SumFunctionOnSet(v, R) \notin Nat
    BY <1>0, <2>2, SummableParts DEF Summable
  <2>4. PICK x : x \in R
    <3> SUFFICES ASSUME R = {} PROVE FALSE
      OBVIOUS
    <3>1. Summable(v, R)
      BY <2>3
    <3>2. SumFunctionOnSet(v, R) = 0
      BY <3>1, SumUnfolds
    <3> QED BY <2>3, <3>2
  <2>5. Cardinality(R \ {x}) = m - 1 /\ m \in Nat \ {0}
    <3>1. Cardinality(R \ {x}) = m - 1
      BY <2>3, <2>4, FS_RemoveElement
    <3>2. m \in Nat /\ m # 0
      BY <2>3, <2>4, FS_CardinalityType, FS_EmptySet
    <3> QED BY <3>1, <3>2
  <2>6. SumFunctionOnSet(v, R \ {x}) \in Nat
    <3>1. m - 1 \notin T /\ m - 1 \in Nat
      <4>1. m - 1 \in Nat /\ ~(m <= m - 1)
        BY <2>5
      <4> HIDE DEF T
      <4> QED BY <2>1, <4>1
    <3>2. R \ {x} \notin Bad(m - 1)
      BY <3>1
    <3> QED BY <2>3, <2>5, <3>2
  <2>7. SumFunctionOnSet(v, R) = v[x] + SumFunctionOnSet(v, R \ {x}) /\ v[x] \in Nat
    BY <2>3, <2>4, SumFacts
  <2> QED BY <2>3, <2>6, <2>7
<1>2. ASSUME NEW R \in SUBSET S PROVE SumFunctionOnSet(v, R) \in Nat
  <2>1. Cardinality(R) \in Nat /\ Cardinality(R) \notin T
    BY <1>0, <1>1, SummableParts
  <2> QED BY <2>1
<1>3. ASSUME NEW x \in S PROVE v[x] <= SumFunctionOnSet(v, S)
  <2>1. SumFunctionOnSet(v, S) = v[x] + SumFunctionOnSet(v, S \ {x}) /\ v[x] \in Nat
    BY <1>0, SumFacts
  <2>2. SumFunctionOnSet(v, S \ {x}) \in Nat
    BY <1>2
  <2> QED BY <2>1, <2>2
<1> QED BY <1>2, <1>3

\* A sum of nothing but zeros.
LEMMA SumOfZeros ==
    ASSUME NEW v, NEW S, IsFiniteSet(S), \A x \in S : v[x] = 0
    PROVE  SumFunctionOnSet(v, S) = 0
<1> DEFINE Bad(n) == {R \in SUBSET S : Cardinality(R) = n /\ SumFunctionOnSet(v, R) # 0}
           T == {n \in Nat : Bad(n) # {}}
<1>0. Summable(v, S)
  BY DEF Summable
<1>1. SUFFICES ASSUME SumFunctionOnSet(v, S) # 0 PROVE FALSE
  OBVIOUS
<1>2. T \in SUBSET Nat /\ Cardinality(S) \in T
  <2>1. S \in Bad(Cardinality(S)) /\ Cardinality(S) \in Nat
    BY <1>0, <1>1, SummableParts
  <2> QED BY <2>1
<1>3. PICK m \in T : \A k \in T : m <= k
  <2> HIDE DEF T
  <2> QED BY <1>2, LeastElement
<1>4. PICK R \in Bad(m) : TRUE
  BY <1>3
<1>5. Summable(v, R) /\ R \in SUBSET S /\ IsFiniteSet(R) /\ Cardinality(R) = m
  BY <1>0, <1>4, SummableParts DEF Summable
<1>6. R # {}
  BY <1>4, <1>5, SumUnfolds
<1>7. PICK x : x \in R
  BY <1>6
<1>8. Cardinality(R \ {x}) = m - 1 /\ m \in Nat \ {0}
  <2>1. Cardinality(R \ {x}) = m - 1
    BY <1>5, <1>7, FS_RemoveElement
  <2>2. m \in Nat /\ m # 0
    BY <1>5, <1>6, FS_CardinalityType, FS_EmptySet
  <2> QED BY <2>1, <2>2
<1>9. SumFunctionOnSet(v, R \ {x}) = 0
  <2>1. m - 1 \notin T /\ m - 1 \in Nat
    <3>1. m - 1 \in Nat /\ ~(m <= m - 1)
      BY <1>8
    <3> HIDE DEF T
    <3> QED BY <1>3, <3>1
  <2>2. R \ {x} \notin Bad(m - 1)
    BY <2>1
  <2> QED BY <1>5, <1>8, <2>2
<1>10. SumFunctionOnSet(v, R) = 0
  <2>1. v[x] = 0
    BY <1>5, <1>7
  <2> QED BY <1>5, <1>7, <1>9, <2>1, SumFacts
<1> QED BY <1>4, <1>10

\* An element more.
LEMMA SumAdd ==
    ASSUME NEW v, NEW S, NEW x, x \notin S, Summable(v, S), v[x] \in Int
    PROVE  Summable(v, S \cup {x}) /\ SumFunctionOnSet(v, S \cup {x}) = v[x] + SumFunctionOnSet(v, S)
<1>1. Summable(v, S \cup {x})
  BY FS_AddElement DEF Summable
<1>2. (S \cup {x}) \ {x} = S
  OBVIOUS
<1> QED BY <1>1, <1>2, SumFacts

\* One value changed.
LEMMA SumChange ==
    ASSUME NEW v, NEW w, NEW S, NEW x \in S, Summable(v, S), w[x] \in Int,
           \A y \in S \ {x} : w[y] = v[y]
    PROVE  Summable(w, S) /\ SumFunctionOnSet(w, S) = SumFunctionOnSet(v, S) - v[x] + w[x]
<1>1. Summable(w, S)
  BY DEF Summable
<1>2. Summable(v, S \ {x})
  BY SummableParts
<1>3. SumFunctionOnSet(w, S \ {x}) = SumFunctionOnSet(v, S \ {x})
  BY <1>2, SumSame
<1>4. v[x] \in Int /\ SumFunctionOnSet(v, S \ {x}) \in Int
  BY <1>2, SumFacts DEF Summable
<1>5. SumFunctionOnSet(w, S) = w[x] + SumFunctionOnSet(w, S \ {x})
  BY <1>1, SumFacts
<1>6. SumFunctionOnSet(v, S) = v[x] + SumFunctionOnSet(v, S \ {x})
  BY SumFacts
<1> QED BY <1>1, <1>3, <1>4, <1>5, <1>6

\* Two sums that differ at most in whether an element is in and with what value.
LEMMA SumDiffersAt ==
    ASSUME NEW v, NEW w, NEW S, NEW R, NEW x, Summable(v, S), Summable(w, R),
           \A y : y # x => (y \in S <=> y \in R), \A y \in S : y # x => w[y] = v[y]
    PROVE  /\ SumFunctionOnSet(v, S) \in Int /\ SumFunctionOnSet(w, R) \in Int
           /\ SumFunctionOnSet(w, R) = SumFunctionOnSet(v, S) - (IF x \in S THEN v[x] ELSE 0)
                                                            + (IF x \in R THEN w[x] ELSE 0)
<1> DEFINE T == S \ {x}
<1>1. R \ {x} = T
  OBVIOUS
<1>2. Summable(v, T)
  BY SummableParts
<1>3. SumFunctionOnSet(w, T) = SumFunctionOnSet(v, T)
  BY <1>2, SumSame
<1>4. SumFunctionOnSet(v, S) \in Int /\ SumFunctionOnSet(w, R) \in Int /\ SumFunctionOnSet(v, T) \in Int
  BY <1>2, SumFacts
<1>5. SumFunctionOnSet(v, S) = SumFunctionOnSet(v, T) + (IF x \in S THEN v[x] ELSE 0)
  <2>1. CASE x \in S
    <3>1. v[x] \in Int
      BY <2>1 DEF Summable
    <3>2. SumFunctionOnSet(v, S) = v[x] + SumFunctionOnSet(v, T)
      BY <2>1, SumFacts
    <3> HIDE DEF T
    <3> QED BY <1>4, <2>1, <3>1, <3>2
  <2>2. CASE x \notin S
    <3>1. T = S
      BY <2>2
    <3> QED BY <1>4, <2>2, <3>1
  <2> QED BY <2>1, <2>2
<1>6. SumFunctionOnSet(w, R) = SumFunctionOnSet(w, T) + (IF x \in R THEN w[x] ELSE 0)
  <2>1. CASE x \in R
    <3>1. w[x] \in Int
      BY <2>1 DEF Summable
    <3>2. SumFunctionOnSet(w, R) = w[x] + SumFunctionOnSet(w, T)
      BY <1>1, <2>1, SumFacts
    <3> HIDE DEF T
    <3> QED BY <1>3, <1>4, <2>1, <3>1, <3>2
  <2>2. CASE x \notin R
    <3>1. T = R
      BY <1>1, <2>2
    <3>2. (IF x \in R THEN w[x] ELSE 0) = 0
      BY <2>2
    <3>3. SumFunctionOnSet(w, R) = SumFunctionOnSet(w, T)
      BY <3>1
    <3> HIDE DEF T
    <3> QED BY <1>3, <1>4, <3>2, <3>3
  <2> QED BY <2>1, <2>2
<1>7. (IF x \in S THEN v[x] ELSE 0) \in Int /\ (IF x \in R THEN w[x] ELSE 0) \in Int
  BY DEF Summable
<1> HIDE DEF T
<1> QED BY <1>3, <1>4, <1>5, <1>6, <1>7

-----------------------------------------------------------------------------
(* Folds from the left (FoldLeft of SequencesExt), of steps that are functions. *)

\* F takes an element of P and one of T to one of P.
Stepwise(F, P, T) == F \in [P -> [T -> P]]

LastIn(D) == CHOOSE x \in D : \A y \in D : x >= y
Leads(F, base, s, g) ==
    \A D \in SUBSET DOMAIN s :
        g[D] = IF D = {} THEN base ELSE F[g[D \ {LastIn(D)}]][s[LastIn(D)]]

LEMMA LastInPart ==
    ASSUME NEW n \in Nat, NEW D \in SUBSET (1..n), D # {}
    PROVE  LastIn(D) \in D /\ n \in Nat \ {0} /\ D \ {LastIn(D)} \in SUBSET (1..n - 1)
<1>1. D \in SUBSET Nat /\ \A k \in D : k <= n
  OBVIOUS
<1>2. PICK m \in D : \A k \in D : k <= m
  BY <1>1, GreatestElement
<1>3. \A k \in D : m >= k
  BY <1>1, <1>2
<1>4. LastIn(D) \in D /\ \A k \in D : LastIn(D) >= k
  BY <1>3 DEF LastIn
<1>5. PICK t \in 1..n : t = LastIn(D) /\ \A k \in D : t >= k
  BY <1>4
<1>6. ASSUME NEW k \in D, k # t PROVE k \in 1..n - 1
  <2>1. k \in 1..n /\ t >= k
    BY <1>5
  <2> QED BY <1>6, <2>1
<1>7. D \ {t} \in SUBSET (1..n - 1)
  BY <1>6
<1>8. t = LastIn(D) /\ LastIn(D) \in D /\ n \in Nat \ {0}
  <2>1. n # 0
    BY <1>5
  <2> QED BY <1>4, <1>5, <2>1
<1> QED BY <1>7, <1>8

LEMMA LastInInterval ==
    ASSUME NEW n \in Nat, n # 0
    PROVE  LastIn(1..n) = n /\ (1..n) \ {n} = 1..n - 1
<1>1. LastIn(1..n) \in 1..n /\ (1..n) \ {LastIn(1..n)} \in SUBSET (1..n - 1)
  <2>1. (1..n) \in SUBSET (1..n) /\ 1 \in 1..n
    OBVIOUS
  <2>2. 1..n # {}
    BY <2>1
  <2> QED BY <2>1, <2>2, LastInPart
<1>2. n \in 1..n /\ n \notin 1..n - 1
  OBVIOUS
<1>3. LastIn(1..n) = n
  BY <1>1, <1>2
<1>4. (1..n) \ {n} = 1..n - 1
  OBVIOUS
<1> QED BY <1>3, <1>4

\* A fold of such steps for every part of s, and what one is that may also leave P.
Folds(F, P, T, base, s, g) ==
    /\ g \in [SUBSET DOMAIN s -> P] /\ Leads(F, base, s, g)
    /\ \A D \in SUBSET DOMAIN s : D # {} => g[D \ {LastIn(D)}] \in P /\ s[LastIn(D)] \in T
Unrolls(F, P, base, s, g) ==
    /\ g[{}] = base
    /\ \A D \in SUBSET DOMAIN s : D # {} /\ g[D \ {LastIn(D)}] \in P =>
           g[D] = F[g[D \ {LastIn(D)}]][s[LastIn(D)]]
\* The values on the way.
Trace(F, P, T, base, s, r) ==
    /\ r \in [0..Len(s) -> P] /\ r[0] = base
    /\ \A n \in 1..Len(s) : s[n] \in T /\ r[n - 1] \in P /\ r[n] = F[r[n - 1]][s[n]]

\* One step.
LEMMA OneStep ==
    ASSUME NEW P, NEW T, NEW F, Stepwise(F, P, T), NEW x \in P, NEW t \in T
    PROVE  F[x][t] \in P
BY DEF Stepwise

\* There is a fold, for every part of the sequence.
LEMMA FoldsExist ==
    ASSUME NEW P, NEW T, NEW F, Stepwise(F, P, T), NEW base \in P, NEW s \in Seq(T)
    PROVE  \E g \in [SUBSET DOMAIN s -> P] : Leads(F, base, s, g)
<1>1. PICK l \in Nat : l = Len(s) /\ DOMAIN s = 1..l
  BY LenProperties
<1> DEFINE Upto(n, g) == /\ g \in [SUBSET (1..n) -> P]
                         /\ \A D \in SUBSET (1..n) :
                              g[D] = IF D = {} THEN base ELSE F[g[D \ {LastIn(D)}]][s[LastIn(D)]]
           B == {n \in 0..l : \A g : ~Upto(n, g)}
<1>2. B = {}
  <2> SUFFICES ASSUME B # {} PROVE FALSE
    OBVIOUS
  <2>1. PICK m \in B : \A k \in B : m <= k
    <3> HIDE DEF Upto
    <3>1. B \in SUBSET Nat /\ B # {}
      OBVIOUS
    <3> HIDE DEF B
    <3> QED BY <3>1, LeastElement
  <2>2. m # 0
    <3> SUFFICES ASSUME m = 0 PROVE FALSE
      OBVIOUS
    <3>1. \A D \in SUBSET (1..0) : D = {}
      <4>1. \A k \in 1..0 : FALSE
        BY ONLY SMT
      <4> QED BY <4>1
    <3>2. Upto(0, [D \in SUBSET (1..0) |-> base])
      BY <3>1
    <3> HIDE DEF Upto
    <3> QED BY <2>1, <3>2
  <2>3. m \in 1..l /\ m \in Nat /\ m - 1 \in 0..l /\ m - 1 \notin B
    <3>1. m \in 1..l /\ m - 1 \in 0..l /\ ~(m <= m - 1)
      BY <2>1, <2>2
    <3> HIDE DEF B
    <3> QED BY <2>1, <3>1
  <2>4. PICK p : Upto(m - 1, p)
    BY <2>3
  <2> DEFINE g == [D \in SUBSET (1..m) |-> IF D = {} THEN base ELSE F[p[D \ {LastIn(D)}]][s[LastIn(D)]]]
  <2>5. ASSUME NEW D \in SUBSET (1..m), D # {}
        PROVE  /\ LastIn(D) \in 1..l /\ s[LastIn(D)] \in T
               /\ D \ {LastIn(D)} \in SUBSET (1..m - 1) /\ p[D \ {LastIn(D)}] \in P
    <3>1. LastIn(D) \in D /\ D \ {LastIn(D)} \in SUBSET (1..m - 1)
      BY <2>3, <2>5, LastInPart
    <3>2. LastIn(D) \in 1..l
      <4>1. \A k \in 1..m : k \in 1..l
        BY ONLY <2>3, l \in Nat
      <4> QED BY <3>1, <4>1
    <3> QED BY <1>1, <2>4, <3>1, <3>2, ElementOfSeq
  <2>6. g \in [SUBSET (1..m) -> P]
    <3>1. \A D \in SUBSET (1..m) : g[D] \in P
      <4>1. ASSUME NEW D \in SUBSET (1..m), D # {} PROVE F[p[D \ {LastIn(D)}]][s[LastIn(D)]] \in P
        <5>1. p[D \ {LastIn(D)}] \in P /\ s[LastIn(D)] \in T
          BY <2>5, <4>1
        <5> QED BY <5>1, OneStep
      <4> QED BY <4>1
    <3> QED BY <3>1
  <2>7. ASSUME NEW D \in SUBSET (1..m - 1) PROVE D \in SUBSET (1..m) /\ g[D] = p[D]
    <3>1. \A k \in 1..m - 1 : k \in 1..m
      <4>1. m \in Nat
        BY <2>3
      <4> QED BY ONLY <4>1
    <3>2. D \in SUBSET (1..m)
      BY <3>1
    <3>3. g[D] = IF D = {} THEN base ELSE F[p[D \ {LastIn(D)}]][s[LastIn(D)]]
      BY <3>2
    <3> QED BY <2>4, <3>2, <3>3
  <2>8. Upto(m, g)
    BY <2>5, <2>6, <2>7
  <2> HIDE DEF Upto, g
  <2> QED BY <2>1, <2>8
<1>3. PICK g : Upto(l, g)
  <2>1. l \in 0..l
    BY ONLY l \in Nat
  <2>2. l \notin B
    <3> HIDE DEF B
    <3> QED BY <1>2
  <2> QED BY <2>1, <2>2
<1> QED BY <1>1, <1>3 DEF Leads

\* What such a fold takes is of its types.
LEMMA FoldsTyped ==
    ASSUME NEW P, NEW T, NEW F, Stepwise(F, P, T), NEW base \in P, NEW s \in Seq(T)
    PROVE  \E g : Folds(F, P, T, base, s, g)
<1>1. PICK g \in [SUBSET DOMAIN s -> P] : Leads(F, base, s, g)
  BY FoldsExist
<1>2. PICK l \in Nat : l = Len(s) /\ DOMAIN s = 1..l
  BY LenProperties
<1>3. ASSUME NEW D \in SUBSET DOMAIN s, D # {} PROVE g[D \ {LastIn(D)}] \in P /\ s[LastIn(D)] \in T
  <2>1. LastIn(D) \in D
    BY <1>2, <1>3, LastInPart
  <2>2. s[LastIn(D)] \in T
    BY <1>2, <2>1, ElementOfSeq
  <2>3. D \ {LastIn(D)} \in SUBSET DOMAIN s
    OBVIOUS
  <2> QED BY <2>2, <2>3
<1>4. Folds(F, P, T, base, s, g)
  BY <1>1, <1>3 DEF Folds
<1> QED BY <1>4

\* A fold goes from the base to its value step by step.  What leads out of P need
\* not be known.
LEMMA FoldsLead ==
    ASSUME NEW P, NEW T, NEW F, Stepwise(F, P, T), NEW base \in P, NEW s \in Seq(T), NEW g,
           Unrolls(F, P, base, s, g)
    PROVE  \E r : Trace(F, P, T, base, s, r) /\ r[Len(s)] = g[DOMAIN s]
<1>1. PICK l \in Nat : l = Len(s) /\ DOMAIN s = 1..l
  BY LenProperties
<1>2. ASSUME NEW n \in 1..l, g[1..n - 1] \in P
      PROVE  g[1..n] = F[g[1..n - 1]][s[n]] /\ g[1..n] \in P /\ s[n] \in T
  <2>1. LastIn(1..n) = n /\ (1..n) \ {n} = 1..n - 1
    BY LastInInterval
  <2>2. (1..n) \in SUBSET (1..l) /\ 1..n # {}
    <3>1. n \in 1..n /\ \A k \in 1..n : k \in 1..l
      OBVIOUS
    <3> QED BY <3>1
  <2>3. s[n] \in T
    BY <1>1, ElementOfSeq
  <2>4. g[1..n] = F[g[1..n - 1]][s[n]]
    BY <1>1, <1>2, <2>1, <2>2 DEF Unrolls
  <2> QED BY <1>2, <2>3, <2>4, OneStep
<1> DEFINE B == {n \in 0..l : g[1..n] \notin P}
<1>3. B = {}
  <2> SUFFICES ASSUME B # {} PROVE FALSE
    OBVIOUS
  <2>1. PICK m \in B : \A k \in B : m <= k
    <3>1. B \in SUBSET Nat /\ B # {}
      OBVIOUS
    <3> HIDE DEF B
    <3> QED BY <3>1, LeastElement
  <2>2. m # 0
    <3>1. 1..0 = {}
      OBVIOUS
    <3> QED BY <2>1, <3>1 DEF Unrolls
  <2>3. m \in 1..l /\ m - 1 \notin B /\ m - 1 \in 0..l
    <3>1. m \in 1..l /\ ~(m <= m - 1) /\ m - 1 \in 0..l
      BY <2>1, <2>2
    <3> HIDE DEF B
    <3> QED BY <2>1, <3>1
  <2> QED BY <1>2, <2>1, <2>3
<1> DEFINE r == [n \in 0..l |-> g[1..n]]
<1>4. r \in [0..l -> P]
  BY <1>3
<1>5. r[0] = base
  <2>1. 1..0 = {}
    OBVIOUS
  <2> QED BY <2>1 DEF Unrolls
<1>6. ASSUME NEW n \in 1..l PROVE s[n] \in T /\ r[n - 1] \in P /\ r[n] = F[r[n - 1]][s[n]]
  <2>1. n - 1 \in 0..l /\ n \in 0..l
    OBVIOUS
  <2> QED BY <1>2, <1>3, <2>1
<1>7. r[l] = g[1..l]
  OBVIOUS
<1> HIDE DEF r
<1>8. Trace(F, P, T, base, s, r)
  BY <1>1, <1>4, <1>5, <1>6 DEF Trace
<1> QED BY <1>1, <1>7, <1>8

-------------------------------------------------------------------------------
(* Induction over numbers and sequences.                                      *)

\* What holds at 0 and goes on holds up to n.
LEMMA StepByStep ==
    ASSUME NEW n \in Nat, NEW S, 0 \in S, \A i \in 1..n : i - 1 \in S => i \in S
    PROVE  \A i \in 0..n : i \in S
<1> DEFINE B == {i \in 0..n : i \notin S}
<1>1. B = {}
  <2> SUFFICES ASSUME B # {} PROVE FALSE
    OBVIOUS
  <2>1. PICK m \in B : \A k \in B : m <= k
    <3>1. B \in SUBSET Nat /\ B # {}
      OBVIOUS
    <3> HIDE DEF B
    <3> QED BY <3>1, LeastElement
  <2>2. m \in 1..n /\ m - 1 \in 0..n /\ ~(m <= m - 1)
    BY <2>1
  <2>3. m - 1 \in S
    BY <2>1, <2>2
  <2> QED BY <2>1, <2>2, <2>3
<1> QED BY <1>1

\* What holds of no elements and of one more holds of every sequence.
LEMMA SeqsByAppending ==
    ASSUME NEW X, NEW G, <<>> \in G, \A s \in Seq(X) : s \in G => \A x \in X : Append(s, x) \in G
    PROVE  \A s \in Seq(X) : s \in G
<1> SUFFICES ASSUME NEW s \in Seq(X) PROVE s \in G
  OBVIOUS
<1>1. PICK l \in Nat : l = Len(s) /\ s \in [1..l -> X]
  BY SeqDef, LenProperties
<1> DEFINE Part(i) == [j \in 1..i |-> s[j]]
           H == {i \in 0..l : Part(i) \in G}
<1>2. \A i \in 0..l : Part(i) \in Seq(X) /\ Len(Part(i)) = i
  <2> SUFFICES ASSUME NEW i \in 0..l PROVE Part(i) \in Seq(X) /\ Len(Part(i)) = i
    OBVIOUS
  <2>1. \A j \in 1..i : s[j] \in X
    BY <1>1
  <2>2. Part(i) \in [1..i -> X] /\ i \in Nat
    BY <2>1
  <2> QED BY <2>2, SeqDef, LenProperties
<1>3. 0 \in H
  <2>1. Part(0) = <<>>
    BY <1>1
  <2> QED BY <1>1, <2>1
<1>4. ASSUME NEW i \in 1..l, i - 1 \in H PROVE i \in H
  <2>1. i - 1 \in 0..l /\ i \in 0..l /\ s[i] \in X
    BY <1>1
  <2>2. Append(Part(i - 1), s[i]) \in G
    BY <1>2, <1>4, <2>1
  <2>3. Part(i) = Append(Part(i - 1), s[i])
    <3> DEFINE p == Part(i - 1)
    <3>1. Len(p) = i - 1 /\ p \in Seq(X) /\ i \in Nat
      BY <1>2, <2>1
    <3>2. \A j \in 1..i - 1 : p[j] = s[j]
      OBVIOUS
    <3>3. /\ Append(p, s[i]) \in Seq(X) /\ Len(Append(p, s[i])) = i
          /\ \A j \in 1..i - 1 : Append(p, s[i])[j] = p[j]
          /\ Append(p, s[i])[i] = s[i]
      <4> HIDE DEF p
      <4> QED BY <2>1, <3>1, AppendProperties
    <3>4. \A j \in 1..i : Append(p, s[i])[j] = s[j]
      BY <3>2, <3>3
    <3>5. Append(p, s[i]) \in [1..i -> X]
      BY <3>3, SeqDef, LenProperties
    <3> HIDE DEF p
    <3> QED BY <3>4, <3>5
  <2> QED BY <2>1, <2>2, <2>3
<1>5. \A i \in 0..l : i \in H
  <2> HIDE DEF H
  <2> QED BY <1>3, <1>4, StepByStep
<1>6. Part(l) = s /\ l \in 0..l
  BY <1>1
<1> QED BY <1>5, <1>6

\* One element more.
LEMMA FilteredAppend ==
    ASSUME NEW X, NEW s \in Seq(X), NEW x \in X, NEW S
    PROVE  Filtered(Append(s, x), S) = IF x \in S THEN Append(Filtered(s, S), x) ELSE Filtered(s, S)
<1>1. PICK l \in Nat : l = Len(s) /\ DOMAIN s = 1..l
  BY LenProperties
<1>2. PICK t : t = Append(s, x)
  OBVIOUS
<1>3. t \in Seq(X) /\ DOMAIN t = 1..l + 1 /\ t[l + 1] = x /\ \A i \in 1..l : t[i] = s[i]
  BY <1>1, <1>2, AppendProperties
<1>4. PICK K, L : K = KeptIn(s, S) /\ L = KeptIn(t, S)
  OBVIOUS
<1>5. K \in SUBSET (1..l) /\ L = IF x \in S THEN K \cup {l + 1} ELSE K
  BY <1>1, <1>3, <1>4 DEF KeptIn
<1>6. IsFiniteSet(K) /\ Cardinality(K) \in Nat /\ l + 1 \notin K /\ K \in SUBSET Nat
  <2>1. IsFiniteSet(1..l)
    BY FS_Interval
  <2>2. IsFiniteSet(K)
    BY <1>5, <2>1, FS_Subset
  <2> QED BY <1>5, <2>2, FS_CardinalityType
<1>7. PICK n \in Nat : n = Cardinality(K)
  BY <1>6
<1>8. Filtered(s, S) = [k \in 1..n |-> s[CHOOSE i \in K : Cardinality(Before(K, i)) = k - 1]]
  BY <1>4, <1>7 DEF Filtered
<1>9. CASE x \notin S
  <2>1. L = K
    BY <1>5, <1>9
  <2>2. Filtered(t, S) = [k \in 1..n |-> t[CHOOSE i \in K : Cardinality(Before(K, i)) = k - 1]]
    BY <1>4, <1>7, <2>1 DEF Filtered
  <2>3. ASSUME NEW k \in 1..n PROVE (CHOOSE i \in K : Cardinality(Before(K, i)) = k - 1) \in 1..l
    <3>1. \E i \in K : Cardinality(Before(K, i)) = k - 1
      BY <1>6, <1>7, RankOfElements
    <3> QED BY <1>5, <3>1
  <2> QED BY <1>2, <1>3, <1>8, <1>9, <2>2, <2>3
<1>10. CASE x \in S
  <2>1. L = K \cup {l + 1} /\ Cardinality(L) = n + 1
    BY <1>5, <1>6, <1>7, <1>10, FS_AddElement
  <2>2. ASSUME NEW i \in K PROVE Before(L, i) = Before(K, i) /\ Cardinality(Before(K, i)) < n
    <3>1. Before(L, i) = Before(K, i)
      BY <1>5, <2>1 DEF Before
    <3>2. Cardinality(Before(K, i)) \in 0..n - 1
      BY <1>6, <1>7, RankOfElements
    <3> QED BY <3>1, <3>2
  <2>3. Before(L, l + 1) = K
    <3>1. \A i \in K : i < l + 1
      BY <1>1, <1>5
    <3>2. ~(l + 1 < l + 1)
      BY <1>1
    <3> QED BY <2>1, <3>1, <3>2 DEF Before
  <2>4. Filtered(t, S) = [k \in 1..n + 1 |-> t[CHOOSE i \in L : Cardinality(Before(L, i)) = k - 1]]
    BY <1>4, <2>1 DEF Filtered
  <2>5. ASSUME NEW k \in 1..n
        PROVE  /\ (CHOOSE i \in L : Cardinality(Before(L, i)) = k - 1) = (CHOOSE i \in K : Cardinality(Before(K, i)) = k - 1)
               /\ (CHOOSE i \in K : Cardinality(Before(K, i)) = k - 1) \in 1..l
    <3>1. PICK j \in K : Cardinality(Before(K, j)) = k - 1
      BY <1>6, <1>7, RankOfElements
    <3>2. \A i \in K : Cardinality(Before(K, i)) = k - 1 => i = j
      <4> SUFFICES ASSUME NEW i \in K, Cardinality(Before(K, i)) = k - 1, i # j PROVE FALSE
        OBVIOUS
      <4>1. i \in Nat /\ j \in Nat
        BY <1>6
      <4>2. i < j \/ j < i
        BY <4>1
      <4>3. \A a, b \in K : a < b => Cardinality(Before(K, a)) < Cardinality(Before(K, b))
        BY <1>6, RankOfElements
      <4> QED BY <3>1, <4>2, <4>3
    <3>3. \A i \in L : Cardinality(Before(L, i)) = k - 1 <=> i = j
      <4>1. Cardinality(Before(L, l + 1)) # k - 1
        BY <1>7, <2>3
      <4> QED BY <2>1, <2>2, <3>1, <3>2, <4>1
    <3>4. (CHOOSE i \in L : Cardinality(Before(L, i)) = k - 1) = j
      BY <2>1, <3>1, <3>3
    <3>5. (CHOOSE i \in K : Cardinality(Before(K, i)) = k - 1) = j
      BY <3>1, <3>2
    <3> QED BY <1>5, <3>1, <3>4, <3>5
  <2>6. (CHOOSE i \in L : Cardinality(Before(L, i)) = n) = l + 1
    <3>1. \A i \in L : Cardinality(Before(L, i)) = n <=> i = l + 1
      <4>1. \A i \in K : Cardinality(Before(L, i)) # n
        BY <1>7, <2>2
      <4> QED BY <1>7, <2>1, <2>3, <4>1
    <3> QED BY <2>1, <3>1
  <2> DEFINE u == Filtered(s, S)
  <2>7. u \in Seq(X) /\ Len(u) = n
    <3>1. u \in Seq(X)
      BY FilteredProperties
    <3>2. DOMAIN u = 1..n
      BY <1>8
    <3> QED BY <3>1, <3>2, LenProperties
  <2>8. \A k \in 1..n : Filtered(t, S)[k] = u[k]
    <3> SUFFICES ASSUME NEW k \in 1..n PROVE Filtered(t, S)[k] = u[k]
      OBVIOUS
    <3>1. k \in 1..n + 1
      BY <1>7
    <3>2. Filtered(t, S)[k] = t[CHOOSE i \in L : Cardinality(Before(L, i)) = k - 1]
      BY <2>4, <3>1
    <3>3. u[k] = s[CHOOSE i \in K : Cardinality(Before(K, i)) = k - 1]
      BY <1>8
    <3> QED BY <1>3, <2>5, <3>2, <3>3
  <2>9. Filtered(t, S)[n + 1] = x
    <3>1. n + 1 \in 1..n + 1 /\ (n + 1) - 1 = n
      BY <1>7
    <3>2. Filtered(t, S)[n + 1] = t[CHOOSE i \in L : Cardinality(Before(L, i)) = n]
      BY <2>4, <3>1
    <3> QED BY <1>3, <2>6, <3>2
  <2>10. Append(u, x) \in Seq(X) /\ DOMAIN Append(u, x) = 1..n + 1 /\ Append(u, x)[n + 1] = x /\ \A k \in 1..n : Append(u, x)[k] = u[k]
    <3> HIDE DEF u
    <3> QED BY <2>7, AppendProperties
  <2>11. PICK v, w : v = Filtered(t, S) /\ w = Append(u, x)
    OBVIOUS
  <2>12. v = [k \in 1..n + 1 |-> v[k]] /\ w = [k \in 1..n + 1 |-> w[k]]
    <3>1. v = [k \in 1..n + 1 |-> v[k]]
      BY <2>4, <2>11
    <3>2. w \in [1..n + 1 -> X]
      BY <2>10, <2>11, SeqDef, LenProperties
    <3> QED BY <3>1, <3>2
  <2>13. \A k \in 1..n + 1 : v[k] = w[k]
    BY <2>8, <2>9, <2>10, <2>11
  <2> QED BY <1>2, <1>10, <2>11, <2>12, <2>13
<1> QED BY <1>9, <1>10

LEMMA FilteredEmpty ==
    ASSUME NEW S
    PROVE  Filtered(<<>>, S) = <<>>
<1>1. KeptIn(<<>>, S) = {}
  BY DEF KeptIn
<1>2. Cardinality({}) = 0
  BY FS_EmptySet
<1>3. 1..0 = {}
  OBVIOUS
<1>4. Filtered(<<>>, S) = [k \in {} |-> <<>>[CHOOSE i \in {} : Cardinality(Before({}, i)) = k - 1]]
  BY <1>1, <1>2, <1>3 DEF Filtered
<1>5. PICK f : f = Filtered(<<>>, S)
  OBVIOUS
<1>6. DOMAIN f = {} /\ f = [k \in DOMAIN f |-> f[k]]
  BY <1>4, <1>5
<1> QED BY <1>5, <1>6

-------------------------------------------------------------------------------
(* What filters keep.                                                        *)

\* What is kept depends on the elements only.
LEMMA FilteredSame ==
    ASSUME NEW s, NEW S, NEW T, \A i \in DOMAIN s : s[i] \in S <=> s[i] \in T
    PROVE  Filtered(s, S) = Filtered(s, T)
<1>1. KeptIn(s, S) = KeptIn(s, T)
  BY DEF KeptIn
<1> QED BY <1>1 DEF Filtered

LEMMA ConcatAppend ==
    ASSUME NEW X, NEW s \in Seq(X), NEW t \in Seq(X), NEW x \in X
    PROVE  s \o Append(t, x) = Append(s \o t, x) /\ s \o t \in Seq(X)
<1>1. <<x>> \in Seq(X) /\ s \o t \in Seq(X)
  BY ConcatProperties
<1>2. Append(t, x) = t \o <<x>> /\ Append(s \o t, x) = (s \o t) \o <<x>>
  BY <1>1, AppendIsConcat
<1> QED BY <1>1, <1>2, ConcatAssociative

LEMMA FilteredConcat ==
    ASSUME NEW X, NEW s \in Seq(X), NEW t \in Seq(X), NEW S
    PROVE  Filtered(s \o t, S) = Filtered(s, S) \o Filtered(t, S)
<1> DEFINE G == {q \in Seq(X) : Filtered(s \o q, S) = Filtered(s, S) \o Filtered(q, S)}
<1>1. Filtered(s, S) \in Seq(X) /\ \A q \in Seq(X) : Filtered(q, S) \in Seq(X)
  BY FilteredProperties
<1>2. <<>> \in G
  <2>1. s \o <<>> = s /\ Filtered(s, S) \o <<>> = Filtered(s, S) /\ <<>> \in Seq(X)
    BY <1>1, ConcatEmptySeq
  <2> QED BY <2>1, FilteredEmpty
<1>3. ASSUME NEW q \in Seq(X), q \in G, NEW x \in X PROVE Append(q, x) \in G
  <2>1. s \o Append(q, x) = Append(s \o q, x) /\ s \o q \in Seq(X) /\ Append(q, x) \in Seq(X)
    BY ConcatAppend
  <2>2. Filtered(s, S) \o Append(Filtered(q, S), x) = Append(Filtered(s, S) \o Filtered(q, S), x)
    BY <1>1, ConcatAppend
  <2>3. Filtered(Append(q, x), S) = IF x \in S THEN Append(Filtered(q, S), x) ELSE Filtered(q, S)
    BY FilteredAppend
  <2>4. Filtered(Append(s \o q, x), S) = IF x \in S THEN Append(Filtered(s \o q, S), x) ELSE Filtered(s \o q, S)
    BY <2>1, FilteredAppend
  <2> QED BY <1>3, <2>1, <2>2, <2>3, <2>4
<1>4. \A q \in Seq(X) : q \in G
  <2> HIDE DEF G
  <2> QED BY <1>2, <1>3, SeqsByAppending
<1> QED BY <1>4

LEMMA FilteredTwice ==
    ASSUME NEW X, NEW s \in Seq(X), NEW S, NEW T
    PROVE  Filtered(Filtered(s, S), T) = Filtered(s, S \cap T)
<1> DEFINE G == {q \in Seq(X) : Filtered(Filtered(q, S), T) = Filtered(q, S \cap T)}
<1>1. <<>> \in G
  BY FilteredEmpty
<1>2. ASSUME NEW q \in Seq(X), q \in G, NEW x \in X PROVE Append(q, x) \in G
  <2>1. Filtered(q, S) \in Seq(X) /\ Append(q, x) \in Seq(X)
    BY FilteredProperties
  <2>2. Filtered(Append(q, x), S) = IF x \in S THEN Append(Filtered(q, S), x) ELSE Filtered(q, S)
    BY FilteredAppend
  <2>3. Filtered(Append(q, x), S \cap T) = IF x \in S \cap T THEN Append(Filtered(q, S \cap T), x) ELSE Filtered(q, S \cap T)
    BY FilteredAppend
  <2>4. Filtered(Append(Filtered(q, S), x), T)
          = IF x \in T THEN Append(Filtered(Filtered(q, S), T), x) ELSE Filtered(Filtered(q, S), T)
    BY <2>1, FilteredAppend
  <2>5. Filtered(Filtered(q, S), T) = Filtered(q, S \cap T)
    BY <1>2
  <2>6. CASE x \in S
    <3>1. Filtered(Append(q, x), S) = Append(Filtered(q, S), x)
      BY <2>2, <2>6
    <3>2. Filtered(Append(q, x), S \cap T) = IF x \in T THEN Append(Filtered(q, S \cap T), x) ELSE Filtered(q, S \cap T)
      BY <2>3, <2>6
    <3>3. Filtered(Filtered(Append(q, x), S), T) = Filtered(Append(q, x), S \cap T)
      BY <2>4, <2>5, <3>1, <3>2
    <3> QED BY <2>1, <3>3
  <2>7. CASE x \notin S
    BY <2>1, <2>2, <2>3, <2>5, <2>7
  <2> QED BY <2>6, <2>7
<1>3. \A q \in Seq(X) : q \in G
  <2> HIDE DEF G
  <2> QED BY <1>1, <1>2, SeqsByAppending
<1> QED BY <1>3

\* All or nothing.
LEMMA FilteredWhole ==
    ASSUME NEW X, NEW s \in Seq(X), NEW S
    PROVE  /\ (\A i \in DOMAIN s : s[i] \in S) => Filtered(s, S) = s
           /\ (\A i \in DOMAIN s : s[i] \notin S) => Filtered(s, S) = <<>>
<1> DEFINE G == {q \in Seq(X) : Filtered(q, X) = q /\ Filtered(q, {}) = <<>>}
<1>1. <<>> \in G
  BY FilteredEmpty
<1>2. ASSUME NEW q \in Seq(X), q \in G, NEW x \in X PROVE Append(q, x) \in G
  BY <1>2, FilteredAppend
<1>3. \A q \in Seq(X) : q \in G
  <2> HIDE DEF G
  <2> QED BY <1>1, <1>2, SeqsByAppending
<1>4. \A i \in DOMAIN s : s[i] \in X
  BY ElementOfSeq, LenProperties
<1>5. ASSUME \A i \in DOMAIN s : s[i] \in S PROVE Filtered(s, S) = s
  <2>1. Filtered(s, S) = Filtered(s, X)
    BY <1>4, <1>5, FilteredSame
  <2> QED BY <1>3, <2>1
<1>6. ASSUME \A i \in DOMAIN s : s[i] \notin S PROVE Filtered(s, S) = <<>>
  <2>1. Filtered(s, S) = Filtered(s, {})
    BY <1>6, FilteredSame
  <2> QED BY <1>3, <2>1
<1> QED BY <1>5, <1>6

\* What is kept and what is not.
LEMMA FilteredParts ==
    ASSUME NEW X, NEW s \in Seq(X), NEW S
    PROVE  Len(Filtered(s, S)) = Len(s) - Len(Filtered(s, X \ S))
<1> DEFINE G == {q \in Seq(X) : Len(Filtered(q, S)) + Len(Filtered(q, X \ S)) = Len(q)}
<1>1. <<>> \in G
  BY FilteredEmpty
<1>2. ASSUME NEW q \in Seq(X), q \in G, NEW x \in X PROVE Append(q, x) \in G
  <2>1. PICK a \in Seq(X), b \in Seq(X) : a = Filtered(q, S) /\ b = Filtered(q, X \ S)
    BY FilteredProperties
  <2>2. /\ Filtered(Append(q, x), S) = IF x \in S THEN Append(a, x) ELSE a
        /\ Filtered(Append(q, x), X \ S) = IF x \in S THEN b ELSE Append(b, x)
    BY <2>1, FilteredAppend
  <2>3. /\ Len(Append(a, x)) = Len(a) + 1 /\ Len(Append(b, x)) = Len(b) + 1 /\ Len(Append(q, x)) = Len(q) + 1
        /\ Len(a) \in Nat /\ Len(b) \in Nat /\ Len(q) \in Nat /\ Append(q, x) \in Seq(X)
    BY <2>1, AppendProperties, LenProperties
  <2>4. Len(a) + Len(b) = Len(q)
    BY <1>2, <2>1
  <2> QED BY <2>2, <2>3, <2>4
<1>3. \A q \in Seq(X) : q \in G
  <2> HIDE DEF G
  <2> QED BY <1>1, <1>2, SeqsByAppending
<1>4. Filtered(s, S) \in Seq(X) /\ Filtered(s, X \ S) \in Seq(X)
  BY FilteredProperties
<1>5. Len(s) \in Nat /\ Len(Filtered(s, S)) \in Nat /\ Len(Filtered(s, X \ S)) \in Nat
  BY <1>4, LenProperties
<1>6. Len(Filtered(s, S)) + Len(Filtered(s, X \ S)) = Len(s)
  BY <1>3
<1> QED BY <1>5, <1>6
===============================================================================
