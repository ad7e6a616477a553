-------------------------- MODULE StructuresProofs --------------------------
(***************************************************************************)
(* What is proved of the specification of Structures besides its forests:  *)
(* of the three hash tables, that they keep their own order and are the    *)
(* abstract table; then of the buffers and caches, what DynDequeProofs,    *)
(* FixedDequeProofs and LRUCacheProofs prove of one of them.               *)
(***************************************************************************)
EXTENDS UnionFindProofs

-----------------------------------------------------------------------------
(* A sum over a set is a cardinality: every x in S contributes F[x] units, *)
(* the pairs <<x, 1>> to <<x, F[x]>>.  The library's sum recurs over the   *)
(* subsets of S; a subset of least cardinality on which it differed from   *)
(* the count of the units would have a predecessor that differs too.       *)

Units(F, S) == UNION {{x} \X (1..F[x]) : x \in S}

\* The equation of the function that sums F over the subsets of S, of which w is one.
Sums(F, S, w) ==
  [s \in SUBSET S |-> IF s = {} THEN 0
                      ELSE F[CHOOSE x \in s : TRUE] + w[s \ {CHOOSE x \in s : TRUE}]]

LEMMA UnitsOfOne ==
  ASSUME NEW y, NEW n \in Nat
  PROVE  IsFiniteSet({y} \X (1..n)) /\ Cardinality({y} \X (1..n)) = n
<1>1. IsFiniteSet(1..n) /\ Cardinality(1..n) = n
  <2>1. Cardinality(1..n) = IF 1 > n THEN 0 ELSE n - 1 + 1
    BY FS_Interval
  <2>2. IsFiniteSet(1..n)
    BY FS_Interval
  <2>3. QED
    BY <2>1, <2>2
<1>2. IsFiniteSet({y}) /\ Cardinality({y}) = 1
  BY FS_Singleton
<1>3. Cardinality({y} \X (1..n)) = Cardinality({y}) * Cardinality(1..n)
  BY <1>1, <1>2, FS_Product
<1>4. IsFiniteSet({y} \X (1..n))
  BY <1>1, <1>2, FS_Product
<1>5. QED
  BY <1>1, <1>2, <1>3, <1>4

LEMMA UnitsFinite ==
  ASSUME NEW S, IsFiniteSet(S), NEW F, \A x \in S : F[x] \in Nat
  PROVE  IsFiniteSet(Units(F, S)) /\ Cardinality(Units(F, S)) \in Nat
<1> DEFINE T == {{x} \X (1..F[x]) : x \in S}
           u == [x \in S |-> {x} \X (1..F[x])]
<1>1. \A t \in T : IsFiniteSet(t)
  <2>1. \A x \in S : IsFiniteSet({x} \X (1..F[x]))
    <3>1. TAKE x \in S
    <3>2. F[x] \in Nat
      OBVIOUS
    <3> HIDE DEF T
    <3>3. QED
      BY <3>2, UnitsOfOne
  <2>2. QED
    BY <2>1
<1>2. u \in Surjection(S, T)
  BY DEF Surjection
<1>3. IsFiniteSet(T)
  BY <1>2, FS_Surjection
<1>4. Units(F, S) = UNION T
  BY DEF Units
<1> HIDE DEF T
<1>5. IsFiniteSet(UNION T)
  BY <1>1, <1>3, FS_UNION
<1>6. QED
  BY <1>4, <1>5, FS_CardinalityType

LEMMA UnitsSplit ==
  ASSUME NEW S, IsFiniteSet(S), NEW F, \A x \in S : F[x] \in Nat, NEW y \in S
  PROVE  Cardinality(Units(F, S)) = F[y] + Cardinality(Units(F, S \ {y}))
<1> DEFINE A == Units(F, S \ {y})
           B == {y} \X (1..F[y])
<1>1. IsFiniteSet(A) /\ Cardinality(A) \in Nat
  BY UnitsFinite, FS_RemoveElement
<1>2. IsFiniteSet(B) /\ Cardinality(B) = F[y]
  BY UnitsOfOne
<1>3. A \cap B = {}
  BY DEF Units
<1>4. Units(F, S) = A \cup B
  BY DEF Units
<1> HIDE DEF A, B
<1>5. Cardinality(A \cup B) = Cardinality(A) + Cardinality(B) - Cardinality({})
  BY <1>1, <1>2, <1>3, FS_Union
<1>6. QED
  BY <1>1, <1>2, <1>4, <1>5, FS_EmptySet DEF A

\* The library's sum is the count of the units.
LEMMA SumIsUnits ==
  ASSUME NEW S, IsFiniteSet(S), NEW F, \A x \in S : F[x] \in Nat
  PROVE  Chained!MapThenSumSet(LAMBDA x : F[x], S) = Cardinality(Units(F, S))
<1> DEFINE W == [s \in SUBSET S |-> Cardinality(Units(F, s))]
           w == CHOOSE v : v = Sums(F, S, v)
           T == {Cardinality(s) : s \in {u \in SUBSET S : w[u] # W[u]}}
           x(s) == CHOOSE e \in s : TRUE
<1>1. ASSUME NEW s \in SUBSET S
      PROVE  IsFiniteSet(s) /\ Cardinality(s) \in Nat /\ \A e \in s : F[e] \in Nat
  BY FS_Subset, FS_CardinalityType
<1>2. \A s \in SUBSET S : s # {} => x(s) \in s
  OBVIOUS
<1>3. W = Sums(F, S, W)
  <2>1. ASSUME NEW s \in SUBSET S, s # {}
        PROVE  W[s] = F[x(s)] + W[s \ {x(s)}]
    <3>1. x(s) \in s
      BY <1>2, <2>1
    <3> HIDE DEF x
    <3>2. QED
      BY <1>1, <3>1, UnitsSplit
  <2>2. W[{}] = 0
    BY FS_EmptySet DEF Units
  <2>3. QED
    BY <2>1, <2>2 DEF Sums
<1>4. w = Sums(F, S, w)
  <2> HIDE DEF W
  <2>1. QED
    BY <1>3
<1> HIDE DEF w
<1>5. ASSUME T # {} PROVE FALSE
  <2>1. T \subseteq Nat
    BY <1>1
  <2>2. PICK m \in T : \A n \in T : m <= n
    <3> HIDE DEF T
    <3>1. QED
      BY <1>5, <2>1, LeastOf
  <2>3. PICK s \in SUBSET S : w[s] # W[s] /\ m = Cardinality(s)
    OBVIOUS
  <2>4. CASE s = {}
    <3>1. w[s] = 0 /\ Sums(F, S, W)[s] = 0
      BY <1>4, <2>4 DEF Sums
    <3>2. QED
      BY <1>3, <2>3, <3>1
  <2>5. CASE s # {}
    <3>1. x(s) \in s /\ s \ {x(s)} \in SUBSET S
      BY <1>2, <2>5
    <3>2. w[s] = F[x(s)] + w[s \ {x(s)}]
      BY <1>4, <2>5 DEF Sums
    <3>3. W[s] = F[x(s)] + W[s \ {x(s)}]
      <4> HIDE DEF W
      <4>1. Sums(F, S, W)[s] = F[x(s)] + W[s \ {x(s)}]
        BY <2>5 DEF Sums
      <4>2. QED
        BY <1>3, <4>1
    <3> HIDE DEF x, W
    <3>4. Cardinality(s \ {x(s)}) = m - 1
      BY <1>1, <2>3, <3>1, FS_RemoveElement
    <3>5. w[s \ {x(s)}] = W[s \ {x(s)}]
      BY <1>1, <2>2, <2>1, <3>1, <3>4
    <3>6. QED
      BY <2>3, <3>2, <3>3, <3>5
  <2>6. QED
    BY <2>4, <2>5
<1>6. w[S] = W[S]
  <2> HIDE DEF W
  <2>1. QED
    BY <1>5
<1>7. QED
  BY <1>6 DEF w, Chained!MapThenSumSet, Chained!MapThenFoldSet, Sums

Sum(F, S) == Cardinality(Units(F, S))

LEMMA SumNat ==
  ASSUME NEW S, IsFiniteSet(S), NEW F, \A x \in S : F[x] \in Nat
  PROVE  Sum(F, S) \in Nat
BY UnitsFinite DEF Sum

LEMMA SumSame ==
  ASSUME NEW S, NEW F, NEW G, \A x \in S : F[x] = G[x]
  PROVE  Sum(F, S) = Sum(G, S)
<1>1. Units(F, S) = Units(G, S)
  BY DEF Units
<1>2. QED
  BY <1>1 DEF Sum

LEMMA SumOfOne ==
  ASSUME NEW S, IsFiniteSet(S), NEW F, \A x \in S : F[x] \in Nat,
         NEW y \in S, \A x \in S \ {y} : F[x] = 0
  PROVE  Sum(F, S) = F[y]
<1>1. Sum(F, S) = F[y] + Cardinality(Units(F, S \ {y}))
  BY UnitsSplit DEF Sum
<1>2. Units(F, S \ {y}) = {}
  <2>1. \A x \in S \ {y} : {x} \X (1..F[x]) = {}
    OBVIOUS
  <2>2. QED
    BY <2>1 DEF Units
<1>3. QED
  BY <1>1, <1>2, FS_EmptySet

LEMMA SumOfNone ==
  ASSUME NEW S, NEW F, \A x \in S : F[x] = 0
  PROVE  Sum(F, S) = 0
<1>1. Units(F, S) = {}
  <2>1. \A x \in S : {x} \X (1..F[x]) = {}
    OBVIOUS
  <2>2. QED
    BY <2>1 DEF Units
<1>2. QED
  BY <1>1, FS_EmptySet DEF Sum

\* Two functions that differ at y only.
LEMMA SumChanges ==
  ASSUME NEW S, IsFiniteSet(S), NEW F, NEW G, NEW y \in S,
         \A x \in S : F[x] \in Nat /\ G[x] \in Nat,
         \A x \in S \ {y} : F[x] = G[x]
  PROVE  Sum(G, S) = Sum(F, S) - F[y] + G[y]
<1>1. IsFiniteSet(S \ {y})
  BY FS_RemoveElement
<1>2. Sum(F, S) = F[y] + Sum(F, S \ {y})
  BY UnitsSplit DEF Sum
<1>3. Sum(G, S) = G[y] + Sum(G, S \ {y})
  BY UnitsSplit DEF Sum
<1>4. Sum(F, S \ {y}) = Sum(G, S \ {y})
  BY SumSame
<1>5. Sum(F, S \ {y}) \in Nat
  BY <1>1, SumNat
<1>6. QED
  BY <1>2, <1>3, <1>4, <1>5

-----------------------------------------------------------------------------
(* Separate chaining.  A table of n lists is in order when every key is in *)
(* the list of its hash value; its bag is then what these lists say.       *)

TableOf(n) == [0..(n - 1) -> [Keys -> Nat]]
InOrder(t, n) ==
  /\ t \in TableOf(n)
  /\ \A i \in 0..(n - 1), k \in Keys : t[i][k] > 0 => i = Hash[k] % n
BagOf(t, n) == [k \in Keys |-> t[Hash[k] % n][k]]
\* How many items each list holds.
ListSizes(t) == [i \in DOMAIN t |-> Sum(t[i], Keys)]

LEMMA ChainedIsLegal ==
  /\ IsFiniteSet(Keys) /\ Hash \in [Keys -> Nat]
  /\ DFT_SIZE \in ChainedSizes /\ ChainedSizes \subseteq Nat \ {0}
BY TablesAreLegal
   DEF Chained!Legal, Chained!SizesPositive, Chained!KeysHashed, Chained!IsFiniteSet, IsFiniteSet

LEMMA InRange ==
  ASSUME NEW k \in Keys, NEW n \in Nat \ {0}
  PROVE  Hash[k] % n \in 0..(n - 1)
<1>1. Hash[k] \in Nat
  BY ChainedIsLegal
<1>2. QED
  BY <1>1

LEMMA Slots ==
  ASSUME NEW n \in Nat
  PROVE  IsFiniteSet(0..(n - 1)) /\ Cardinality(0..(n - 1)) = n
<1>1. Cardinality(0..(n - 1)) = IF 0 > n - 1 THEN 0 ELSE n - 1 - 0 + 1
  BY FS_Interval
<1>2. IsFiniteSet(0..(n - 1))
  BY FS_Interval
<1>3. QED
  BY <1>1, <1>2

LEMMA Capacity ==
  ASSUME NEW n \in Nat, NEW t \in TableOf(n)
  PROVE  Chained!Cardinality(DOMAIN t) = n
<1>1. DOMAIN t = 0..(n - 1)
  BY DEF TableOf
<1>2. Chained!Cardinality(DOMAIN t) = Cardinality(DOMAIN t)
  BY DEF Chained!Cardinality, Cardinality
<1>3. QED
  BY <1>1, <1>2, Slots

LEMMA SizeIsSum ==
  ASSUME NEW n \in Nat, NEW t \in TableOf(n)
  PROVE  /\ Chained!Size(t) = Sum(ListSizes(t), 0..(n - 1))
         /\ Chained!Size(t) \in Nat
         /\ \A i \in 0..(n - 1) : ListSizes(t)[i] = Sum(t[i], Keys) /\ ListSizes(t)[i] \in Nat
<1>1. DOMAIN t = 0..(n - 1) /\ IsFiniteSet(Keys) /\ IsFiniteSet(0..(n - 1))
  BY ChainedIsLegal, Slots DEF TableOf
<1>2. ASSUME NEW i \in 0..(n - 1)
      PROVE  /\ Chained!MapThenSumSet(LAMBDA k : t[i][k], Keys) = Sum(t[i], Keys)
             /\ Sum(t[i], Keys) \in Nat
  <2> DEFINE F == t[i]
  <2>1. \A k \in Keys : F[k] \in Nat
    BY DEF TableOf
  <2> HIDE DEF F
  <2>2. Chained!MapThenSumSet(LAMBDA k : F[k], Keys) = Cardinality(Units(F, Keys))
    BY <1>1, <2>1, SumIsUnits
  <2>4. Sum(F, Keys) \in Nat
    BY <1>1, <2>1, SumNat
  <2>3. QED
    BY <2>2, <2>4 DEF F, Sum
<1>3. \A i \in 0..(n - 1) : ListSizes(t)[i] = Sum(t[i], Keys) /\ ListSizes(t)[i] \in Nat
  BY <1>1, <1>2 DEF ListSizes
<1> DEFINE G == [i \in 0..(n - 1) |-> Chained!MapThenSumSet(LAMBDA k : t[i][k], Keys)]
<1>4. Chained!Size(t) = Chained!MapThenSumSet(LAMBDA i : G[i], 0..(n - 1))
  BY <1>1, ZenonT(60) DEF Chained!Size, Chained!MapThenSumSet, Chained!MapThenFoldSet
<1>5. \A i \in 0..(n - 1) : G[i] = ListSizes(t)[i]
  BY <1>2, <1>3
<1> HIDE DEF G
<1>9. \A i \in 0..(n - 1) : G[i] \in Nat
  BY <1>3, <1>5
<1>6. Chained!MapThenSumSet(LAMBDA i : G[i], 0..(n - 1)) = Cardinality(Units(G, 0..(n - 1)))
  BY <1>1, <1>9, SumIsUnits
<1>10. Sum(G, 0..(n - 1)) \in Nat
  BY <1>1, <1>9, SumNat
<1>7. Sum(G, 0..(n - 1)) = Sum(ListSizes(t), 0..(n - 1))
  BY <1>5, SumSame
<1>8. QED
  BY <1>3, <1>4, <1>6, <1>7, <1>10 DEF Sum

\* u is t, but for the count of k in list i, which is v.
Changed(t, u, n, i, k, v) ==
  /\ n \in Nat /\ t \in TableOf(n) /\ u \in TableOf(n)
  /\ i \in 0..(n - 1) /\ k \in Keys /\ v \in Nat
  /\ u = [t EXCEPT ![i][k] = v]

LEMMA SizeChanges ==
  ASSUME NEW n, NEW t, NEW u, NEW i, NEW k, NEW v, Changed(t, u, n, i, k, v)
  PROVE  Chained!Size(u) = Chained!Size(t) - t[i][k] + v
<1> n \in Nat /\ t \in TableOf(n) /\ u \in TableOf(n)
  BY DEF Changed
<1> i \in 0..(n - 1) /\ k \in Keys /\ v \in Nat /\ u = [t EXCEPT ![i][k] = v]
  BY DEF Changed
<1>1. IsFiniteSet(Keys) /\ IsFiniteSet(0..(n - 1))
  BY ChainedIsLegal, Slots
<1>2. u[i][k] = v /\ \A l \in Keys \ {k} : u[i][l] = t[i][l]
  BY DEF TableOf
<1>3. \A j \in (0..(n - 1)) \ {i} : u[j] = t[j]
  BY DEF TableOf
<1>4. \A l \in Keys : t[i][l] \in Nat /\ u[i][l] \in Nat
  BY DEF TableOf
<1>5. Sum(u[i], Keys) = Sum(t[i], Keys) - t[i][k] + v
  <2> DEFINE F == t[i]
             G == u[i]
  <2>1. \A l \in Keys : F[l] \in Nat /\ G[l] \in Nat
    BY <1>4
  <2>2. \A l \in Keys \ {k} : F[l] = G[l]
    BY <1>2
  <2>3. IsFiniteSet(Keys)
    BY <1>1
  <2>4. G[k] = v
    BY <1>2
  <2> HIDE DEF F, G
  <2>5. Sum(G, Keys) = Sum(F, Keys) - F[k] + G[k]
    BY <2>1, <2>2, <2>3, SumChanges
  <2>6. QED
    BY <2>4, <2>5 DEF F, G
<1>6. \A j \in 0..(n - 1) : /\ ListSizes(t)[j] = Sum(t[j], Keys) /\ ListSizes(t)[j] \in Nat
                            /\ ListSizes(u)[j] = Sum(u[j], Keys) /\ ListSizes(u)[j] \in Nat
  BY SizeIsSum
<1>7. \A j \in (0..(n - 1)) \ {i} : ListSizes(t)[j] = ListSizes(u)[j]
  BY <1>3, <1>6
<1>8. Sum(ListSizes(u), 0..(n - 1))
        = Sum(ListSizes(t), 0..(n - 1)) - ListSizes(t)[i] + ListSizes(u)[i]
  <2> DEFINE F == ListSizes(t)
             G == ListSizes(u)
             I == 0..(n - 1)
  <2>1. IsFiniteSet(I) /\ i \in I
    BY <1>1
  <2>2. \A j \in I : F[j] \in Nat /\ G[j] \in Nat
    BY <1>6
  <2>3. \A j \in I \ {i} : F[j] = G[j]
    BY <1>7
  <2> HIDE DEF F, G, I
  <2>4. Sum(G, I) = Sum(F, I) - F[i] + G[i]
    BY <2>1, <2>2, <2>3, SumChanges
  <2>5. QED
    BY <2>4 DEF F, G, I
<1>9. Sum(ListSizes(t), 0..(n - 1)) = Chained!Size(t) /\ Chained!Size(t) \in Nat
  BY SizeIsSum
<1>10. Sum(ListSizes(u), 0..(n - 1)) = Chained!Size(u)
  BY SizeIsSum
<1>11. /\ ListSizes(t)[i] = Sum(t[i], Keys) /\ ListSizes(t)[i] \in Nat
       /\ ListSizes(u)[i] = Sum(u[i], Keys) /\ ListSizes(u)[i] \in Nat
       /\ t[i][k] \in Nat
  BY <1>4, <1>6
<1> HIDE DEF ListSizes
<1>12. QED
  BY <1>5, <1>8, <1>9, <1>10, <1>11

\* u is the table t in order, but for the count of k, which is v.
Recounted(t, u, n, k, v) ==
  /\ n \in Nat \ {0} /\ InOrder(t, n) /\ k \in Keys /\ v \in Nat
  /\ u = [t EXCEPT ![Hash[k] % n][k] = v]

LEMMA Counted ==
  ASSUME NEW t, NEW u, NEW n, NEW k, NEW v, Recounted(t, u, n, k, v)
  PROVE  /\ InOrder(u, n)
         /\ BagOf(u, n) = [BagOf(t, n) EXCEPT ![k] = v]
         /\ Chained!Size(u) = Chained!Size(t) - BagOf(t, n)[k] + v
<1> n \in Nat \ {0} /\ InOrder(t, n) /\ k \in Keys /\ v \in Nat
  BY DEF Recounted
<1> u = [t EXCEPT ![Hash[k] % n][k] = v]
  BY DEF Recounted
<1> DEFINE i == Hash[k] % n
<1>1. i \in 0..(n - 1) /\ t \in TableOf(n)
  BY InRange DEF InOrder
<1>2. \A l \in Keys : Hash[l] % n \in 0..(n - 1)
  BY InRange
<1> HIDE DEF i
<1>3. u = [t EXCEPT ![i][k] = v]
  BY DEF i
<1>4. u \in TableOf(n)
  <2>1. t[i] \in [Keys -> Nat]
    BY <1>1 DEF TableOf
  <2>2. [t[i] EXCEPT ![k] = v] \in [Keys -> Nat]
    BY <2>1
  <2>3. QED
    BY <1>1, <1>3, <2>2 DEF TableOf
<1>5. \A j \in 0..(n - 1), l \in Keys : u[j][l] = IF j = i /\ l = k THEN v ELSE t[j][l]
  BY <1>1, <1>3 DEF TableOf
<1>6. InOrder(u, n)
  BY <1>1, <1>4, <1>5 DEF InOrder, i
<1>7. BagOf(u, n) = [BagOf(t, n) EXCEPT ![k] = v]
  <2>1. BagOf(u, n)[k] = v
    BY <1>1, <1>5 DEF BagOf, i
  <2>2. \A l \in Keys \ {k} : BagOf(u, n)[l] = BagOf(t, n)[l]
    BY <1>2, <1>5 DEF BagOf
  <2>3. BagOf(u, n) = [l \in Keys |-> IF l = k THEN v ELSE BagOf(t, n)[l]]
    <3>1. BagOf(u, n) = [l \in Keys |-> BagOf(u, n)[l]]
      BY DEF BagOf
    <3>2. QED
      BY <2>1, <2>2, <3>1
  <2>4. [BagOf(t, n) EXCEPT ![k] = v]
          = [l \in Keys |-> IF l = k THEN v ELSE BagOf(t, n)[l]]
    BY DEF BagOf
  <2>5. QED
    BY <2>3, <2>4
<1>8. Chained!Size(u) = Chained!Size(t) - t[i][k] + v
  <2>1. Changed(t, u, n, i, k, v)
    BY <1>1, <1>3, <1>4 DEF Changed
  <2>2. QED
    BY <2>1, SizeChanges
<1>9. t[i][k] = BagOf(t, n)[k]
  BY DEF BagOf, i
<1>10. QED
  BY <1>6, <1>7, <1>8, <1>9

\* A bag whose keys occur once.
OnceEach(b) == [k \in Keys |-> IF b[k] = 0 THEN 0 ELSE 1]

\* A table after resize has every key once, where search looks for it.
LEMMA Resized ==
  ASSUME NEW n, n \in Nat \ {0}, NEW m, m \in Nat \ {0}, NEW t, InOrder(t, n),
         NEW u, u = Chained!resize(t, m)
  PROVE  InOrder(u, m) /\ BagOf(u, m) = OnceEach(BagOf(t, n))
<1>1. \A k \in Keys : Hash[k] % n \in 0..(n - 1) /\ Hash[k] % m \in 0..(m - 1)
  BY InRange
<1>2. t \in TableOf(n) /\ DOMAIN t = 0..(n - 1)
  BY DEF InOrder, TableOf
<1>3. ASSUME NEW k \in Keys
      PROVE  (\E j \in DOMAIN t : t[j][k] > 0) <=> BagOf(t, n)[k] # 0
  <2>1. BagOf(t, n)[k] = t[Hash[k] % n][k] /\ t[Hash[k] % n][k] \in Nat
    BY <1>1, <1>2 DEF BagOf, TableOf
  <2>2. \A j \in DOMAIN t : t[j][k] > 0 => j = Hash[k] % n
    BY <1>2 DEF InOrder
  <2>3. Hash[k] % n \in DOMAIN t
    BY <1>1, <1>2
  <2>4. QED
    BY <2>1, <2>2, <2>3
<1>4. u = [i \in 0..(m - 1) |->
             [k \in Keys |-> IF Hash[k] % m = i /\ BagOf(t, n)[k] # 0 THEN 1 ELSE 0]]
  BY <1>3 DEF Chained!resize, Chained!h
<1>5. u \in TableOf(m)
  BY <1>4 DEF TableOf
<1>6. InOrder(u, m)
  BY <1>4, <1>5 DEF InOrder
<1>7. \A k \in Keys : u[Hash[k] % m][k] = IF BagOf(t, n)[k] = 0 THEN 0 ELSE 1
  BY <1>1, <1>4
<1>8. BagOf(u, m) = OnceEach(BagOf(t, n))
  BY <1>7 DEF BagOf, OnceEach
<1>9. QED
  BY <1>6, <1>8

LEMMA EmptyInOrder ==
  ASSUME NEW n \in Nat \ {0}
  PROVE  /\ InOrder(Chained!EmptyTable(n), n)
         /\ BagOf(Chained!EmptyTable(n), n) = [k \in Keys |-> 0]
         /\ Chained!Size(Chained!EmptyTable(n)) = 0
<1> DEFINE e == Chained!EmptyTable(n)
<1>1. e = [i \in 0..(n - 1) |-> [k \in Keys |-> 0]]
  BY DEF Chained!EmptyTable, Chained!NoKeys
<1> HIDE DEF e
<1>2. e \in TableOf(n)
  BY <1>1 DEF TableOf
<1>3. InOrder(e, n)
  BY <1>1, <1>2 DEF InOrder
<1>4. BagOf(e, n) = [k \in Keys |-> 0]
  BY <1>1, InRange DEF BagOf
<1>5. \A i \in 0..(n - 1) : Sum(e[i], Keys) = 0
  BY <1>1, SumOfNone
<1>6. \A i \in 0..(n - 1) : ListSizes(e)[i] = 0
  BY <1>2, <1>5, SizeIsSum
<1>7. Sum(ListSizes(e), 0..(n - 1)) = 0
  BY <1>6, SumOfNone
<1>8. Chained!Size(e) = 0
  BY <1>2, <1>7, SizeIsSum
<1>9. QED
  BY <1>3, <1>4, <1>8 DEF e

\* What a list adds up to is what the list of the key holds.
LEMMA CountOfKey ==
  ASSUME NEW n \in Nat \ {0}, NEW t, InOrder(t, n), NEW k \in Keys
  PROVE  Chained!MapThenSumSet(LAMBDA i : t[i][k], DOMAIN t) = t[Hash[k] % n][k]
<1> DEFINE F == [i \in DOMAIN t |-> t[i][k]]
           I == DOMAIN t
           y == Hash[k] % n
<1>1. I = 0..(n - 1) /\ IsFiniteSet(I) /\ t \in TableOf(n)
  BY Slots DEF InOrder, TableOf
<1>2. y \in I
  BY <1>1, InRange
<1>3. \A i \in I : F[i] \in Nat
  BY <1>1 DEF TableOf
<1>4. \A i \in I \ {y} : F[i] = 0
  BY <1>1, <1>3 DEF InOrder
<1>5. Chained!MapThenSumSet(LAMBDA i : t[i][k], DOMAIN t)
        = Chained!MapThenSumSet(LAMBDA i : F[i], I)
  BY ZenonT(60) DEF Chained!MapThenSumSet, Chained!MapThenFoldSet
<1>6. F[y] = t[y][k]
  BY <1>2
<1> HIDE DEF F, I, y
<1>7. Chained!MapThenSumSet(LAMBDA i : F[i], I) = Sum(F, I)
  BY <1>1, <1>3, SumIsUnits DEF Sum
<1>8. Sum(F, I) = F[y]
  BY <1>1, <1>2, <1>3, <1>4, SumOfOne
<1>9. QED
  BY <1>5, <1>6, <1>7, <1>8 DEF y

(***************************************************************************)
(* The table is in order for some capacity, and num_items counts its       *)
(* items.  ListsInOrder is not inductive by itself: it says nothing of the *)
(* type of the table, and resize asks which keys occur anywhere in it.     *)
(***************************************************************************)
ChainedInv ==
  \E n \in Nat \ {0} : InOrder(table, n) /\ num_items = Chained!Size(table)

ContentsOf(t) ==
  [k \in Keys |-> Chained!MapThenSumSet(LAMBDA i : t[i][k], DOMAIN t)]

LEMMA ContentsOfTable ==
  Chained!Contents = ContentsOf(table) /\ Chained!Contents' = ContentsOf(table')
BY DEF Chained!Contents, ContentsOf, Chained!MapThenSumSet, Chained!MapThenFoldSet

\* In order, the bag that the refinement maps to is the bag of the lists that search looks in.
LEMMA ContentsAre ==
  ASSUME NEW n \in Nat \ {0}
  PROVE  /\ InOrder(table, n) => Chained!Contents = BagOf(table, n)
         /\ InOrder(table', n) => Chained!Contents' = BagOf(table', n)
<1>1. ASSUME NEW t, InOrder(t, n) PROVE ContentsOf(t) = BagOf(t, n)
  BY <1>1, CountOfKey DEF ContentsOf, BagOf
<1>2. QED
  BY <1>1, ContentsOfTable

\* A bag as it is, or after a reorganisation.
KeptBags(b) == {b, OnceEach(b)}

\* search looks in the list that has the key, if any has.
LEMMA Lookup ==
  ASSUME NEW n \in Nat \ {0}, InOrder(table, n)
  PROVE  /\ Chained!capacity = n
         /\ \A k \in Keys : /\ BagOf(table, n)[k] \in Nat
                            /\ Chained!Has(k) <=> BagOf(table, n)[k] > 0
<1>1. table \in TableOf(n) /\ n \in Nat
  BY DEF InOrder
<1>2. Chained!capacity = n
  BY <1>1, Capacity DEF Chained!capacity
<1>3. ASSUME NEW k \in Keys
      PROVE  /\ BagOf(table, n)[k] = table[Hash[k] % n][k]
             /\ table[Hash[k] % n][k] \in Nat
  BY <1>1, InRange DEF BagOf, TableOf
<1>4. QED
  BY <1>2, <1>3 DEF Chained!Has, Chained!h

\* An insertion, into the table or into the table after resize.
LEMMA Grown ==
  ASSUME NEW n \in Nat \ {0}, InOrder(table, n), num_items = Chained!Size(table),
         NEW k \in Keys, Chained!Add(k)
  PROVE  \E m \in Nat \ {0}, b \in KeptBags(BagOf(table, n)) :
            /\ InOrder(table', m) /\ num_items' = Chained!Size(table')
            /\ BagOf(table', m) = [b EXCEPT ![k] = @ + 1]
<1> DEFINE t == IF Chained!BelowUpper THEN table ELSE Chained!resize(table, 2 * n)
           m == IF Chained!BelowUpper THEN n ELSE 2 * n
           i == Hash[k] % m
<1>1. /\ m \in Nat \ {0} /\ InOrder(t, m)
      /\ BagOf(t, m) \in KeptBags(BagOf(table, n))
  <2>1. CASE Chained!BelowUpper
    BY <2>1 DEF KeptBags
  <2>2. CASE ~Chained!BelowUpper
    <3>1. t = Chained!resize(table, m) /\ m \in Nat \ {0}
      BY <2>2
    <3> HIDE DEF t, m
    <3>2. InOrder(t, m) /\ BagOf(t, m) = OnceEach(BagOf(table, n))
      BY <3>1, Resized
    <3>3. QED
      BY <3>1, <3>2 DEF KeptBags
  <2>3. QED
    BY <2>1, <2>2
<1>2. Chained!capacity = n
  BY Lookup
<1>3. t \in TableOf(m) /\ m \in Nat
  BY <1>1 DEF InOrder
<1>4. Chained!Cardinality(DOMAIN t) = m
  <2> HIDE DEF t, m
  <2>1. QED
    BY <1>3, Capacity
<1>5. table' = [t EXCEPT ![i][k] = @ + 1]
  BY <1>2, <1>4 DEF Chained!Add, Chained!h
<1>6. num_items' = 1 + Chained!Size(t)
  BY <1>2 DEF Chained!Add
<1> HIDE DEF t, m, i
<1>7. i \in 0..(m - 1)
  BY <1>1, InRange DEF i
<1>8. t[i][k] \in Nat /\ BagOf(t, m)[k] = t[i][k]
  BY <1>3, <1>7 DEF TableOf, BagOf, i
<1>9. t[i][k] + 1 \in Nat /\ table' = [t EXCEPT ![Hash[k] % m][k] = t[i][k] + 1]
  BY <1>5, <1>8 DEF i
<1>10. /\ InOrder(table', m)
       /\ BagOf(table', m) = [BagOf(t, m) EXCEPT ![k] = t[i][k] + 1]
       /\ Chained!Size(table') = Chained!Size(t) - BagOf(t, m)[k] + (t[i][k] + 1)
  <2>1. Recounted(t, table', m, k, t[i][k] + 1)
    BY <1>1, <1>9 DEF Recounted
  <2>2. QED
    BY <2>1, Counted
<1>11. Chained!Size(t) \in Nat
  BY <1>3, SizeIsSum
<1>12. num_items' = Chained!Size(table')
  BY <1>6, <1>8, <1>10, <1>11
<1>13. BagOf(table', m) = [BagOf(t, m) EXCEPT ![k] = @ + 1]
  BY <1>8, <1>10
<1>14. QED
  BY <1>1, <1>10, <1>12, <1>13

\* A removal, with or without the resize that follows.
LEMMA Shrunk ==
  ASSUME NEW n \in Nat \ {0}, InOrder(table, n), num_items = Chained!Size(table),
         NEW k \in Keys, Chained!remove(k), Chained!Has(k)
  PROVE  /\ reply' = "yes"
         /\ \E m \in Nat \ {0} :
              /\ InOrder(table', m) /\ num_items' = Chained!Size(table')
              /\ BagOf(table', m) \in KeptBags([BagOf(table, n) EXCEPT ![k] = @ - 1])
<1> DEFINE u == Chained!Removed(k)
           i == Hash[k] % n
           b == BagOf(table, n)
<1>1. Chained!capacity = n /\ b[k] \in Nat /\ b[k] > 0 /\ b[k] = table[i][k]
  BY Lookup DEF BagOf
<1>2. u = [table EXCEPT ![i][k] = table[i][k] - 1] /\ table[i][k] - 1 \in Nat
  BY <1>1 DEF Chained!Removed, Chained!h
<1> HIDE DEF u, b
<1>3. /\ InOrder(u, n) /\ BagOf(u, n) = [b EXCEPT ![k] = table[i][k] - 1]
      /\ Chained!Size(u) = Chained!Size(table) - b[k] + (table[i][k] - 1)
  <2>1. Recounted(table, u, n, k, table[i][k] - 1)
    BY <1>2 DEF Recounted
  <2>2. QED
    BY <2>1, Counted DEF b
<1>4. BagOf(u, n) = [b EXCEPT ![k] = @ - 1]
  BY <1>1, <1>3
<1>5. Chained!Size(table) \in Nat
  BY SizeIsSum DEF InOrder
<1>6. Chained!Size(u) = Chained!Size(table) - 1
  BY <1>1, <1>3, <1>5
<1>7. CASE n = DFT_SIZE \/ Chained!AboveLower(num_items - 1)
  <2>1. table' = u /\ num_items' = num_items - 1 /\ reply' = "yes"
    BY <1>1, <1>7 DEF Chained!remove, u
  <2>2. QED
    BY <1>3, <1>4, <1>6, <2>1 DEF KeptBags, b
<1>8. CASE ~(n = DFT_SIZE \/ Chained!AboveLower(num_items - 1))
  <2> DEFINE m == Chained!Max({DFT_SIZE, n \div 2})
  <2>1. /\ table' = Chained!resize(u, m) /\ num_items' = Chained!Size(table')
        /\ reply' = "yes"
    BY <1>1, <1>8 DEF Chained!remove, u
  <2>2. m \in Nat \ {0}
    <3>1. DFT_SIZE \in Nat \ {0} /\ n \div 2 \in Nat
      BY ChainedIsLegal
    <3>2. \E x \in {DFT_SIZE, n \div 2} : \A y \in {DFT_SIZE, n \div 2} : x >= y
      BY <3>1
    <3>3. m \in {DFT_SIZE, n \div 2} /\ m >= DFT_SIZE
      BY <3>2 DEF Chained!Max
    <3>4. QED
      BY <3>1, <3>3
  <2> HIDE DEF m
  <2>3. /\ InOrder(table', m)
        /\ BagOf(table', m) = OnceEach(BagOf(u, n))
    BY <1>3, <2>1, <2>2, Resized
  <2>4. BagOf(table', m) \in KeptBags([b EXCEPT ![k] = @ - 1])
    BY <1>4, <2>3 DEF KeptBags
  <2>5. QED
    BY <2>1, <2>2, <2>3, <2>4 DEF b
<1>9. QED
  BY <1>7, <1>8

LEMMA ChainedInit == Chained!Init => ChainedInv
<1> SUFFICES ASSUME Chained!Init PROVE ChainedInv
  OBVIOUS
<1>1. PICK sz \in ChainedSizes : table = Chained!EmptyTable(sz)
  BY DEF Chained!Init
<1>2. sz \in Nat \ {0}
  BY ChainedIsLegal
<1>3. InOrder(table, sz) /\ Chained!Size(table) = 0
  BY <1>1, <1>2, EmptyInOrder
<1>4. QED
  BY <1>2, <1>3 DEF Chained!Init, ChainedInv

\* A step keeps the invariant, and is a step of the table that is a bag.
LEMMA ChainedStep ==
  ASSUME ChainedInv, Chained!Next
  PROVE  ChainedInv' /\ [Chained!AsTable!Next]_<<Chained!Contents, reply>>
<1> DEFINE C == Chained!Contents
<1>1. PICK n \in Nat \ {0} : InOrder(table, n) /\ num_items = Chained!Size(table)
  BY DEF ChainedInv
<1>2. C = BagOf(table, n)
  BY <1>1, ContentsAre
<1>3. \A k \in Keys : C[k] \in Nat /\ (Chained!Has(k) <=> C[k] > 0)
  BY <1>1, <1>2, Lookup
<1>4. ASSUME NEW b, Chained!Answer(b)
      PROVE  ChainedInv' /\ C' = C /\ reply' = b
  <2>1. table' = table /\ num_items' = num_items /\ reply' = b
    BY <1>4 DEF Chained!Answer
  <2>2. InOrder(table', n) /\ num_items' = Chained!Size(table')
    BY <1>1, <2>1
  <2>3. C' = C
    BY <1>2, <2>1, <2>2, ContentsAre
  <2>4. QED
    BY <2>1, <2>2, <2>3 DEF ChainedInv
<1>5. ASSUME NEW k \in Keys, Chained!Add(k)
      PROVE  ChainedInv' /\ Chained!AsTable!Add(k) /\ reply' = "yes"
  <2>1. PICK m \in Nat \ {0}, b \in KeptBags(BagOf(table, n)) :
            /\ InOrder(table', m) /\ num_items' = Chained!Size(table')
            /\ BagOf(table', m) = [b EXCEPT ![k] = @ + 1]
    BY <1>1, <1>5, Grown
  <2>2. b \in Chained!AsTable!Kept(C)
    BY <1>2 DEF KeptBags, OnceEach, Chained!AsTable!Kept
  <2>3. C' = [b EXCEPT ![k] = @ + 1]
    BY <2>1, ContentsAre
  <2>4. reply' = "yes"
    BY <1>5 DEF Chained!Add
  <2>5. QED
    BY <2>1, <2>2, <2>3, <2>4 DEF ChainedInv, Chained!AsTable!Add
<1>6. ASSUME NEW k \in Keys, Chained!remove(k), Chained!Has(k)
      PROVE  /\ ChainedInv' /\ reply' = "yes"
             /\ C' \in Chained!AsTable!Kept([C EXCEPT ![k] = @ - 1])
  <2>1. /\ reply' = "yes"
        /\ \E m \in Nat \ {0} :
              /\ InOrder(table', m) /\ num_items' = Chained!Size(table')
              /\ BagOf(table', m) \in KeptBags([BagOf(table, n) EXCEPT ![k] = @ - 1])
    BY <1>1, <1>6, Shrunk
  <2>2. PICK m \in Nat \ {0} :
              /\ InOrder(table', m) /\ num_items' = Chained!Size(table')
              /\ BagOf(table', m) \in KeptBags([BagOf(table, n) EXCEPT ![k] = @ - 1])
    BY <2>1
  <2>3. C' \in KeptBags([C EXCEPT ![k] = @ - 1])
    BY <1>2, <2>2, ContentsAre
  <2>4. C' \in Chained!AsTable!Kept([C EXCEPT ![k] = @ - 1])
    BY <2>3 DEF KeptBags, OnceEach, Chained!AsTable!Kept
  <2>5. QED
    BY <2>1, <2>2, <2>4 DEF ChainedInv
<1>7. ASSUME NEW m \in Nat \ {0}, table' = Chained!EmptyTable(m), num_items' = 0
      PROVE  ChainedInv' /\ C' = Chained!AsTable!Empty
  <2>1. /\ InOrder(table', m) /\ Chained!Size(table') = 0
        /\ BagOf(table', m) = [k \in Keys |-> 0]
    BY <1>7, EmptyInOrder
  <2>2. C' = Chained!AsTable!Empty
    BY <2>1, ContentsAre DEF Chained!AsTable!Empty
  <2>3. QED
    BY <1>7, <2>1, <2>2 DEF ChainedInv
<1> HIDE DEF C
<1>8. ASSUME NEW k \in Keys, Chained!insert(k)
      PROVE  ChainedInv' /\ Chained!AsTable!Next
  <2>1. CASE Chained!Has(k)
    <3>1. Chained!AsTable!insert(k) /\ ChainedInv'
      BY <1>3, <1>4, <1>8, <2>1 DEF Chained!insert, Chained!AsTable!insert, C
    <3>2. QED
      BY <3>1 DEF Chained!AsTable!Next
  <2>2. CASE ~Chained!Has(k)
    <3>1. Chained!AsTable!insert(k) /\ ChainedInv'
      BY <1>3, <1>5, <1>8, <2>2 DEF Chained!insert, Chained!AsTable!insert, C
    <3>2. QED
      BY <3>1 DEF Chained!AsTable!Next
  <2>3. QED
    BY <2>1, <2>2
<1>9. ASSUME NEW k \in Keys, Chained!insert_dup(k)
      PROVE  ChainedInv' /\ Chained!AsTable!Next
  BY <1>5, <1>9 DEF Chained!insert_dup, Chained!AsTable!insert_dup, Chained!AsTable!Next
<1>10. ASSUME NEW k \in Keys, Chained!search_or_insert(k)
       PROVE  ChainedInv' /\ Chained!AsTable!Next
  <2>1. CASE Chained!Has(k)
    <3>1. Chained!AsTable!search(k) /\ ChainedInv'
      BY <1>3, <1>4, <1>10, <2>1 DEF Chained!search_or_insert, Chained!AsTable!search, C
    <3>2. QED
      BY <3>1 DEF Chained!AsTable!Next
  <2>2. CASE ~Chained!Has(k)
    <3>1. Chained!AsTable!insert_dup(k) /\ ChainedInv'
      BY <1>5, <1>10, <2>2 DEF Chained!search_or_insert, Chained!AsTable!insert_dup
    <3>2. QED
      BY <3>1 DEF Chained!AsTable!Next
  <2>3. QED
    BY <2>1, <2>2
<1>11. ASSUME NEW k \in Keys, Chained!search(k)
       PROVE  ChainedInv' /\ Chained!AsTable!Next
  <2>1. Chained!AsTable!search(k) /\ ChainedInv'
    BY <1>3, <1>4, <1>11 DEF Chained!search, Chained!AsTable!search, C
  <2>2. QED
    BY <2>1 DEF Chained!AsTable!Next
<1>12. ASSUME NEW k \in Keys, Chained!remove(k)
       PROVE  ChainedInv' /\ Chained!AsTable!Next
  <2>1. CASE Chained!Has(k)
    <3>1. Chained!AsTable!remove(k) /\ ChainedInv'
      BY <1>3, <1>6, <1>12, <2>1 DEF Chained!AsTable!remove, C
    <3>2. QED
      BY <3>1 DEF Chained!AsTable!Next
  <2>2. CASE ~Chained!Has(k)
    <3>1. Chained!Answer("no")
      BY <1>12, <2>2 DEF Chained!remove
    <3>2. C[k] = 0
      BY <1>3, <2>2
    <3>3. Chained!AsTable!remove(k) /\ ChainedInv'
      BY <1>4, <3>1, <3>2 DEF Chained!AsTable!remove, C
    <3>4. QED
      BY <3>3 DEF Chained!AsTable!Next
  <2>3. QED
    BY <2>1, <2>2
<1>13. ASSUME Chained!clear \/ Chained!move_away
       PROVE  ChainedInv' /\ Chained!AsTable!Next
  <2>1. PICK m \in Nat \ {0} : table' = Chained!EmptyTable(m)
    <3>1. Chained!capacity = n /\ DFT_SIZE \in Nat \ {0}
      BY <1>1, Lookup, ChainedIsLegal
    <3>2. QED
      BY <1>13, <3>1 DEF Chained!clear, Chained!move_away
  <2>2. num_items' = 0 /\ reply' = "yes"
    BY <1>13 DEF Chained!clear, Chained!move_away
  <2>3. Chained!AsTable!clear /\ ChainedInv'
    BY <1>7, <2>1, <2>2 DEF Chained!AsTable!clear, C
  <2>4. QED
    BY <2>3 DEF Chained!AsTable!Next
<1>14. QED
  BY <1>8, <1>9, <1>10, <1>11, <1>12, <1>13 DEF Chained!Next

LEMMA ChainedAlways == Spec => [](kind = "chained" => ChainedInv)
<1>1. Init => (kind = "chained" => ChainedInv)
  BY ChainedInit DEF Init, ArraysInit, TablesInit
<1>2. (kind = "chained" => ChainedInv) /\ [Next]_vars => (kind = "chained" => ChainedInv)'
  <2> SUFFICES ASSUME kind = "chained" => ChainedInv, [Next]_vars, kind' = "chained"
               PROVE  ChainedInv'
    OBVIOUS
  <2>1. CASE Next
    <3>1. kind = "chained" /\ ChainedInv
      BY <2>1 DEF Next
    <3>2. Chained!Next
      BY <2>1, <3>1 DEF Next
    <3>3. QED
      BY <3>1, <3>2, ChainedStep
  <2>2. CASE UNCHANGED vars
    <3>1. table' = table /\ num_items' = num_items /\ kind' = kind
      BY <2>2 DEF vars, tableVars
    <3>2. PICK n \in Nat \ {0} : InOrder(table, n) /\ num_items = Chained!Size(table)
      BY <3>1 DEF ChainedInv
    <3>3. InOrder(table', n) /\ num_items' = Chained!Size(table')
      BY <3>1, <3>2
    <3>4. QED
      BY <3>3 DEF ChainedInv
  <2>3. QED
    BY <2>1, <2>2
<1>3. QED
  BY <1>1, <1>2, PTL DEF Spec

(***************************************************************************)
(* Whatever SeparateChainingHashTable inserts, removes and however often   *)
(* it doubles or halves: search looks for every key in the list that holds *)
(* it, and num_items is the number of items in the lists.                  *)
(***************************************************************************)
THEOREM ListsAreInOrder == Spec => []ListsInOrder
<1>1. (kind = "chained" => ChainedInv) => ListsInOrder
  <2> SUFFICES ASSUME kind = "chained", ChainedInv PROVE Chained!ListsInOrder
    BY DEF ListsInOrder
  <2>1. PICK n \in Nat \ {0} : InOrder(table, n) /\ num_items = Chained!Size(table)
    BY DEF ChainedInv
  <2>2. Chained!capacity = n /\ DOMAIN table = 0..(n - 1)
    BY <2>1, Lookup DEF InOrder, TableOf
  <2>3. \A i \in DOMAIN table, k \in Keys : table[i][k] > 0 => i = Chained!h(k, Chained!capacity)
    BY <2>1, <2>2 DEF InOrder, Chained!h
  <2>4. QED
    BY <2>1, <2>3 DEF Chained!ListsInOrder
<1>2. QED
  BY <1>1, ChainedAlways, PTL

(***************************************************************************)
(* SeparateChainingHashTable is a bag of keys: its insertions, removals,   *)
(* searches and resizes are steps of TableSpec, with the same answers.     *)
(***************************************************************************)
THEOREM ChainedTableIsTable ==
  Spec => [][kind = "chained" => [Chained!AsTable!Next]_<<Chained!Contents, reply>>]_vars
<1>1. ASSUME kind = "chained" => ChainedInv, [Next]_vars
      PROVE  [kind = "chained" => [Chained!AsTable!Next]_<<Chained!Contents, reply>>]_vars
  <2>1. CASE Next
    <3> SUFFICES ASSUME kind = "chained"
                 PROVE  [Chained!AsTable!Next]_<<Chained!Contents, reply>>
      OBVIOUS
    <3>1. Chained!Next
      BY <2>1 DEF Next
    <3>2. QED
      BY <1>1, <3>1, ChainedStep
  <2>2. CASE UNCHANGED vars
    BY <2>2
  <2>3. QED
    BY <1>1, <2>1, <2>2
<1>2. QED
  BY <1>1, ChainedAlways, PTL DEF Spec

-----------------------------------------------------------------------------
(***************************************************************************)
(* Open addressing.  Sound says that the table has a power of two of slots *)
(* and that each key is in one of them, which the probes for it reach      *)
(* before an EMPTY slot.  The capacities being powers of two, the probes   *)
(* of each policy visit every slot: no odd number and no triangle of a     *)
(* smaller one is a multiple of the capacity.  At least half of the slots  *)
(* are EMPTY, tombstones being counted, so that there is one to come to.   *)
(* rehash, a fold over the slots, is followed slot by slot.                *)
(***************************************************************************)

\* The capacities: a power of two but 1 is twice another.
LEMMA PowerHalves ==
  ASSUME NEW c, Open!PowerOfTwo(c), c # 1
  PROVE  \E d \in Nat \ {0} : c = 2 * d /\ Open!PowerOfTwo(d)
<1>1. c \in Nat \ {0} /\ \A d \in 1..c, e \in 1..c : d * e = c => d = 1 \/ d % 2 = 0
  BY DEF Open!PowerOfTwo
<1>2. c * 1 = c /\ c \in 1..c /\ 1 \in 1..c
  BY <1>1
<1>3. c % 2 = 0
  BY <1>1, <1>2
<1>4. PICK d \in Nat \ {0} : c = 2 * d
  <2>1. c = 2 * (c \div 2) /\ c \div 2 \in Nat \ {0}
    BY <1>1, <1>3
  <2>2. QED
    BY <2>1
<1>5. ASSUME NEW a \in 1..d, NEW b \in 1..d, a * b = d
      PROVE  a = 1 \/ a % 2 = 0
  <2>1. 2 * b \in 1..c /\ a \in 1..c
    BY <1>4
  <2>2. a * (2 * b) = 2 * (a * b)
    OBVIOUS
  <2>3. QED
    BY <1>1, <1>4, <1>5, <2>1, <2>2
<1>6. QED
  BY <1>4, <1>5 DEF Open!PowerOfTwo

\* What rehash makes of a capacity is a power of two.
LEMMA PowerDoubles ==
  ASSUME NEW c, Open!PowerOfTwo(c)
  PROVE  Open!PowerOfTwo(2 * c)
<1>1. c \in Nat \ {0} /\ \A d \in 1..c, e \in 1..c : d * e = c => d = 1 \/ d % 2 = 0
  BY DEF Open!PowerOfTwo
<1>2. ASSUME NEW a \in 1..(2 * c), NEW b \in 1..(2 * c), a * b = 2 * c, a % 2 # 0
      PROVE  a = 1
  <2>1. b % 2 = 0
    <3> SUFFICES ASSUME b % 2 = 1 PROVE FALSE
      OBVIOUS
    <3>1. PICK x \in Nat : a = 2 * x + 1
      <4>1. a = 2 * (a \div 2) + 1 /\ a \div 2 \in Nat
        BY <1>2
      <4>2. QED
        BY <4>1
    <3>2. PICK y \in Nat : b = 2 * y + 1
      <4>1. b = 2 * (b \div 2) + 1 /\ b \div 2 \in Nat
        OBVIOUS
      <4>2. QED
        BY <4>1
    <3>3. a * b = 2 * (2 * (x * y) + x + y) + 1
      BY <3>1, <3>2
    <3>4. x * y \in Nat
      OBVIOUS
    <3>5. QED
      BY <1>1, <1>2, <3>3, <3>4
  <2>2. PICK e \in Nat : b = 2 * e
    <3>1. b = 2 * (b \div 2) /\ b \div 2 \in Nat
      BY <2>1
    <3>2. QED
      BY <3>1
  <2>3. a * e = c
    <3>1. a * b = 2 * (a * e)
      BY <2>2
    <3>2. a * e \in Nat
      OBVIOUS
    <3>3. QED
      BY <1>1, <1>2, <3>1, <3>2
  <2>4. e >= 1
    BY <2>2
  <2>5. a <= c /\ e <= c
    <3>1. a <= a * e /\ e <= a * e
      BY <2>4
    <3>2. QED
      BY <2>3, <3>1
  <2>6. QED
    BY <1>1, <1>2, <2>3, <2>4, <2>5
<1>3. QED
  BY <1>1, <1>2 DEF Open!PowerOfTwo

\* A power of two that divides x * s divides x, when s is odd.
LEMMA OddCancels ==
  ASSUME NEW c, Open!PowerOfTwo(c), NEW s \in Nat, s % 2 = 1,
         NEW x \in Nat, NEW q \in Nat, x * s = c * q
  PROVE  \E y \in Nat : x = c * y
<1> DEFINE T == {n \in Nat : /\ Open!PowerOfTwo(n)
                             /\ \E a \in Nat, b \in Nat : /\ a * s = n * b
                                                          /\ \A y \in Nat : a # n * y}
<1>1. ASSUME T # {} PROVE FALSE
  <2>1. PICK m \in T : \A n \in T : m <= n
    <3>1. T \subseteq Nat
      OBVIOUS
    <3> HIDE DEF T
    <3>2. QED
      BY <1>1, <3>1, LeastOf
  <2>2. PICK a \in Nat, b \in Nat : a * s = m * b /\ \A y \in Nat : a # m * y
    OBVIOUS
  <2>3. m # 1
    <3>1. 1 * a = a
      OBVIOUS
    <3>2. QED
      BY <2>2, <3>1
  <2>4. PICK d \in Nat \ {0} : m = 2 * d /\ Open!PowerOfTwo(d)
    BY <2>3, PowerHalves
  <2>5. a * s = 2 * (d * b) /\ d * b \in Nat
    BY <2>2, <2>4
  <2>6. PICK w \in Nat : s = 2 * w + 1
    <3>1. s = 2 * (s \div 2) + 1 /\ s \div 2 \in Nat
      OBVIOUS
    <3>2. QED
      BY <3>1
  <2>7. PICK z \in Nat : a = 2 * z
    <3>1. a = 2 * (a \div 2) + (a % 2) /\ a \div 2 \in Nat /\ a % 2 \in {0, 1}
      OBVIOUS
    <3>2. CASE a % 2 = 1
      <4>1. PICK v \in Nat : a = 2 * v + 1
        BY <3>1, <3>2
      <4>2. a * s = 2 * (2 * (v * w) + v + w) + 1
        BY <2>6, <4>1
      <4>3. v * w \in Nat
        OBVIOUS
      <4>4. QED
        BY <2>5, <4>2, <4>3
    <3>3. QED
      BY <3>1, <3>2
  <2>8. z * s = d * b
    <3>1. a * s = 2 * (z * s) /\ z * s \in Nat
      BY <2>7
    <3>2. QED
      BY <2>5, <3>1
  <2>9. d \notin T
    <3>1. d \in Nat /\ ~(m <= d)
      BY <2>4
    <3> HIDE DEF T
    <3>2. QED
      BY <2>1, <3>1
  <2>10. PICK y \in Nat : z = d * y
    BY <2>4, <2>8, <2>9
  <2>11. a = m * y
    <3>1. m * y = 2 * (d * y)
      BY <2>4
    <3>2. QED
      BY <2>7, <2>10, <3>1
  <2>12. QED
    BY <2>2, <2>11
<1>2. c \in Nat
  BY DEF Open!PowerOfTwo
<1>3. QED
  BY <1>1, <1>2

\* Numbers with the same remainder.
LEMMA SameRemainder ==
  ASSUME NEW a \in Nat, NEW b \in Nat, NEW c \in Nat \ {0}, a <= b, a % c = b % c
  PROVE  \E q \in Nat : b - a = c * q
<1>1. a = c * (a \div c) + (a % c) /\ b = c * (b \div c) + (b % c)
  OBVIOUS
<1>2. a \div c \in Nat /\ b \div c \in Nat /\ a % c \in Nat /\ a % c < c
  OBVIOUS
<1> DEFINE A == a \div c
           B == b \div c
<1>3. A \in Nat /\ B \in Nat /\ b - a = c * B - c * A
  BY <1>1, <1>2
<1> HIDE DEF A, B
<1>4. A <= B
  <2> SUFFICES ASSUME B + 1 <= A PROVE FALSE
    BY <1>3
  <2>1. c * (B + 1) <= c * A
    BY <1>3
  <2>2. c * (B + 1) = c * B + c
    BY <1>3
  <2>3. c * A \in Nat /\ c * B \in Nat
    BY <1>3
  <2>4. QED
    BY <1>3, <2>1, <2>2, <2>3
<1>5. B - A \in Nat /\ b - a = c * (B - A)
  BY <1>3, <1>4
<1>6. QED
  BY <1>5

\* A multiple of c between 0 and c.
LEMMA NoMultiple ==
  ASSUME NEW c \in Nat \ {0}, NEW y \in Nat, c * y < c
  PROVE  c * y = 0
<1>1. CASE y = 0
  BY <1>1
<1>2. CASE y >= 1
  <2>1. c <= c * y
    BY <1>2
  <2>2. QED
    BY <2>1
<1>3. QED
  BY <1>1, <1>2

\* How far the i-th probe is from the first, for a policy p.
Offset(p, k, i, c) ==
  CASE p = "LinearProbing" -> i
    [] p = "QuadraticProbing" -> (i * (i + 1)) \div 2
    [] p = "DoubleHashing" -> i * Open!secondary_hash(k, c)

\* The slot of the i-th probe for k in a table of c slots.
ProbeOf(p, k, i, c) == (Hash[k] + Offset(p, k, i, c)) % c

LEMMA OpenIsLegal ==
  /\ Hash \in [Keys -> Nat]
  /\ DFT_SIZE \in OpenSizes /\ \A n \in OpenSizes : Open!PowerOfTwo(n) /\ n # 1
  /\ EMPTY # DELETED /\ EMPTY \notin Keys /\ DELETED \notin Keys
BY TablesAreLegal DEF Open!Legal, Open!SizesArePowers, Open!KeysApart

\* The step of DoubleHashing is odd.
LEMMA SecondaryIsOdd ==
  ASSUME NEW c, Open!PowerOfTwo(c), c # 1, NEW k \in Keys
  PROVE  Open!secondary_hash(k, c) \in Nat /\ Open!secondary_hash(k, c) % 2 = 1
<1>1. PICK d \in Nat \ {0} : c = 2 * d
  BY PowerHalves
<1>2. c \div 2 = d /\ Hash[k] \in Nat /\ c \in Nat \ {0}
  BY <1>1, OpenIsLegal
<1>3. Hash[k] \div c \in Nat
  BY <1>2
<1> DEFINE x == (Hash[k] \div c) % d
<1>4. x \in Nat
  BY <1>2, <1>3
<1>5. Open!secondary_hash(k, c) = 2 * x + 1
  BY <1>2 DEF Open!secondary_hash
<1> HIDE DEF x
<1>6. QED
  BY <1>4, <1>5

\* The quotient in QuadraticProbing leaves no remainder.
LEMMA Triangle ==
  ASSUME NEW i \in Nat
  PROVE  (i * (i + 1)) \div 2 \in Nat /\ 2 * ((i * (i + 1)) \div 2) = i * (i + 1)
<1>1. i = 2 * (i \div 2) + (i % 2) /\ i \div 2 \in Nat /\ i % 2 \in {0, 1}
  OBVIOUS
<1> DEFINE h == i \div 2
<1>2. CASE i % 2 = 0
  <2>1. i = 2 * h /\ h \in Nat
    BY <1>1, <1>2
  <2> HIDE DEF h
  <2>2. i * (i + 1) = 2 * (h * (i + 1)) /\ h * (i + 1) \in Nat
    BY <2>1
  <2>3. QED
    BY <2>2
<1>3. CASE i % 2 = 1
  <2>1. i + 1 = 2 * (h + 1) /\ h \in Nat
    BY <1>1, <1>3
  <2> HIDE DEF h
  <2>2. i * (i + 1) = 2 * (i * (h + 1)) /\ i * (h + 1) \in Nat
    BY <2>1
  <2>3. QED
    BY <2>2
<1>4. QED
  BY <1>1, <1>2, <1>3

\* Probes go forward.
LEMMA OffsetIsNat ==
  ASSUME NEW c, Open!PowerOfTwo(c), c # 1, NEW k \in Keys,
         NEW p \in Open!Policies, NEW i \in Nat
  PROVE  Offset(p, k, i, c) \in Nat
<1>1. CASE p = "LinearProbing"
  BY <1>1 DEF Offset
<1>2. CASE p = "QuadraticProbing"
  BY <1>2, Triangle DEF Offset
<1>3. CASE p = "DoubleHashing"
  <2>1. Offset(p, k, i, c) = i * Open!secondary_hash(k, c)
    BY <1>3 DEF Offset
  <2>2. QED
    BY <2>1, SecondaryIsOdd
<1>4. QED
  BY <1>1, <1>2, <1>3 DEF Open!Policies

\* Under each policy, offsets of different probes do not differ by a multiple
\* of the capacity.
LEMMA NoMultipleApart ==
  ASSUME NEW c, Open!PowerOfTwo(c), c # 1, NEW k \in Keys, NEW p \in Open!Policies,
         NEW i \in 0..(c - 1), NEW j \in 0..(c - 1), j < i,
         NEW q \in Int, Offset(p, k, i, c) - Offset(p, k, j, c) = c * q
  PROVE  FALSE
<1>1. c \in Nat \ {0} /\ i \in Nat /\ j \in Nat
  BY DEF Open!PowerOfTwo
<1> DEFINE x == i - j
<1>2. x \in Nat \ {0} /\ x < c /\ i = j + x
  BY <1>1
<1> HIDE DEF x
<1>3. ASSUME NEW y \in Nat, x = c * y PROVE FALSE
  BY <1>1, <1>2, <1>3, NoMultiple
<1>4. CASE p = "LinearProbing"
  <2>1. x = c * q
    BY <1>2, <1>4 DEF Offset
  <2>2. q \in Nat
    <3> SUFFICES ASSUME q <= -1 PROVE FALSE
      OBVIOUS
    <3>1. c * q <= c * (-1)
      BY <1>1
    <3>2. QED
      BY <1>1, <1>2, <2>1, <3>1
  <2>3. QED
    BY <1>3, <2>1, <2>2
<1>5. CASE p = "DoubleHashing"
  <2> DEFINE s == Open!secondary_hash(k, c)
  <2>1. s \in Nat /\ s % 2 = 1
    BY SecondaryIsOdd
  <2>2. i * s - j * s = c * q
    BY <1>5 DEF Offset
  <2> HIDE DEF s
  <2>3. x * s = c * q
    <3>1. i * s = j * s + x * s
      BY <1>1, <1>2, <2>1
    <3>2. j * s \in Nat /\ x * s \in Nat /\ c * q \in Int
      BY <1>1, <1>2, <2>1
    <3>3. QED
      BY <2>2, <3>1, <3>2
  <2>4. q \in Nat
    <3> SUFFICES ASSUME q <= -1 PROVE FALSE
      OBVIOUS
    <3>1. c * q <= c * (-1) /\ c * q \in Int
      BY <1>1
    <3>2. x * s \in Nat
      BY <1>2, <2>1
    <3>3. QED
      BY <1>1, <2>3, <3>1, <3>2
  <2>5. PICK y \in Nat : x = c * y
    BY <1>2, <2>1, <2>3, <2>4, OddCancels
  <2>6. QED
    BY <1>3, <2>5
<1>6. CASE p = "QuadraticProbing"
  <2> DEFINE z == i + j + 1
             u == (i * (i + 1)) \div 2
             v == (j * (j + 1)) \div 2
  <2>1. u - v = c * q
    BY <1>6 DEF Offset
  <2>2. u \in Nat /\ v \in Nat /\ 2 * u = i * (i + 1) /\ 2 * v = j * (j + 1)
    BY <1>1, Triangle
  <2> HIDE DEF u, v
  <2>3. x * z = i * (i + 1) - j * (j + 1)
    BY <1>1, <1>2
  <2>4. x * z = (2 * c) * q
    <3>1. (2 * c) * q = 2 * (c * q) /\ c * q \in Int
      BY <1>1
    <3>2. QED
      BY <2>1, <2>2, <2>3, <3>1
  <2>5. z = x + 2 * j + 1 /\ z \in Nat \ {0} /\ z < 2 * c
    BY <1>1, <1>2
  <2> HIDE DEF z
  <2>6. q \in Nat
    <3> SUFFICES ASSUME q <= -1 PROVE FALSE
      OBVIOUS
    <3>1. PICK y \in Int : y = (2 * c) * q
      BY <1>1
    <3>2. y <= (2 * c) * (-1)
      BY <1>1, <3>1
    <3>3. (2 * c) * (-1) < 0 /\ (2 * c) * (-1) \in Int
      BY <1>1
    <3>4. x * z \in Nat
      BY <1>2, <2>5
    <3>5. y \in Nat
      BY <2>4, <3>1, <3>4
    <3>6. QED
      BY <3>2, <3>3, <3>5
  <2>7. Open!PowerOfTwo(2 * c)
    BY PowerDoubles
  <2>8. CASE x % 2 = 1
    <3>1. z * x = (2 * c) * q
      BY <1>2, <2>4, <2>5
    <3>2. PICK y \in Nat : z = (2 * c) * y
      <4>1. x \in Nat /\ z \in Nat
        BY <1>2, <2>5
      <4>2. QED
        BY <2>6, <2>7, <2>8, <3>1, <4>1, OddCancels
    <3>3. 2 * c \in Nat \ {0} /\ (2 * c) * y < 2 * c
      BY <1>1, <2>5, <3>2
    <3>4. QED
      BY <2>5, <3>2, <3>3, NoMultiple
  <2>9. CASE x % 2 = 0
    <3>1. z % 2 = 1
      BY <1>1, <1>2, <2>5, <2>9
    <3>2. PICK y \in Nat : x = (2 * c) * y
      <4>1. x \in Nat /\ z \in Nat
        BY <1>2, <2>5
      <4>2. QED
        BY <2>4, <2>6, <2>7, <3>1, <4>1, OddCancels
    <3>3. 2 * c \in Nat \ {0} /\ (2 * c) * y < 2 * c
      BY <1>1, <1>2, <3>2
    <3>4. QED
      BY <1>2, <3>2, <3>3, NoMultiple
  <2>10. QED
    BY <1>2, <2>8, <2>9
<1>7. QED
  BY <1>4, <1>5, <1>6 DEF Open!Policies

LEMMA ProbeInRange ==
  ASSUME NEW c, Open!PowerOfTwo(c), c # 1, NEW k \in Keys, NEW p \in Open!Policies,
         NEW i \in Nat
  PROVE  ProbeOf(p, k, i, c) \in 0..(c - 1)
<1>1. c \in Nat \ {0} /\ Hash[k] \in Nat /\ Offset(p, k, i, c) \in Nat
  BY OpenIsLegal, OffsetIsNat DEF Open!PowerOfTwo
<1>2. QED
  BY <1>1 DEF ProbeOf

\* No probe comes to a slot twice.
LEMMA ProbesDiffer ==
  ASSUME NEW c, Open!PowerOfTwo(c), c # 1, NEW k \in Keys, NEW p \in Open!Policies,
         NEW i \in 0..(c - 1), NEW j \in 0..(c - 1), j < i
  PROVE  ProbeOf(p, k, i, c) # ProbeOf(p, k, j, c)
<1> SUFFICES ASSUME ProbeOf(p, k, i, c) = ProbeOf(p, k, j, c) PROVE FALSE
  OBVIOUS
<1> DEFINE a == Hash[k] + Offset(p, k, i, c)
           b == Hash[k] + Offset(p, k, j, c)
<1>1. c \in Nat \ {0} /\ i \in Nat /\ j \in Nat
  BY DEF Open!PowerOfTwo
<1>2. Hash[k] \in Nat /\ Offset(p, k, i, c) \in Nat /\ Offset(p, k, j, c) \in Nat
  BY <1>1, OpenIsLegal, OffsetIsNat
<1>3. a % c = b % c
  BY DEF ProbeOf
<1>4. a \in Nat /\ b \in Nat /\ a - b = Offset(p, k, i, c) - Offset(p, k, j, c)
  BY <1>2
<1> HIDE DEF a, b
<1>5. CASE b <= a
  <2>1. PICK q \in Nat : a - b = c * q
    BY <1>1, <1>3, <1>4, <1>5, SameRemainder
  <2>2. QED
    BY <1>4, <2>1, NoMultipleApart
<1>6. CASE a <= b
  <2>1. PICK q \in Nat : b - a = c * q
    BY <1>1, <1>3, <1>4, <1>6, SameRemainder
  <2>2. -q \in Int /\ a - b = c * (-q)
    <3>1. c * (-q) = -(c * q) /\ c * q \in Nat
      BY <1>1
    <3>2. QED
      BY <1>4, <2>1, <3>1
  <2>3. QED
    BY <1>4, <2>2, NoMultipleApart
<1>7. QED
  BY <1>4, <1>5, <1>6

\* The probes for a key visit every slot.
LEMMA ProbesVisitAll ==
  ASSUME NEW c, Open!PowerOfTwo(c), c # 1, NEW k \in Keys, NEW p \in Open!Policies,
         NEW a \in 0..(c - 1)
  PROVE  \E i \in 0..(c - 1) : ProbeOf(p, k, i, c) = a
<1> DEFINE S == 0..(c - 1)
           g == [i \in S |-> ProbeOf(p, k, i, c)]
<1>1. c \in Nat /\ S \subseteq Nat
  BY DEF Open!PowerOfTwo
<1>2. IsFiniteSet(S) /\ Cardinality(S) = c
  BY <1>1, Slots
<1>3. g \in [S -> S]
  BY <1>1, ProbeInRange
<1>4. \A i \in S, j \in S : j < i => g[i] # g[j]
  BY ProbesDiffer
<1>5. \A i \in S, j \in S : i < j \/ j < i \/ i = j
  BY <1>1
<1> HIDE DEF S, g
<1>6. \A i \in S, j \in S : g[i] = g[j] => i = j
  BY <1>4, <1>5
<1>7. g \in Injection(S, S)
  BY <1>3, <1>6 DEF Injection, IsInjective
<1>8. g \in Surjection(S, S)
  BY <1>2, <1>7, FS_Injection
<1>9. a \in S
  BY DEF S
<1>10. PICK i \in S : g[i] = a
  BY <1>8, <1>9 DEF Surjection
<1>11. QED
  BY <1>10 DEF S, g

OpenTable(n) == [0..(n - 1) -> Keys \cup {EMPTY, DELETED}]

\* The slots of t with a value in V.
SlotsOf(t, n, V) == {a \in 0..(n - 1) : t[a] \in V}
Count(t, n, V) == Cardinality(SlotsOf(t, n, V))

\* The probes for the key in slot a come to it before an EMPTY slot.
Reached(p, t, n, a) ==
  \E i \in 0..(n - 1) :
    ProbeOf(p, t[a], i, n) = a /\ \A j \in 0..(i - 1) : t[ProbeOf(p, t[a], j, n)] # EMPTY

\* Every key is in one slot, which its probes reach.
Sound(p, t, n) ==
  /\ Open!PowerOfTwo(n) /\ n # 1 /\ p \in Open!Policies /\ t \in OpenTable(n)
  /\ \A a \in 0..(n - 1) : t[a] \in Keys =>
       Reached(p, t, n, a) /\ \A b \in 0..(n - 1) : t[b] = t[a] => b = a

LEMMA CapIs ==
  ASSUME NEW n \in Nat, NEW t, t \in OpenTable(n)
  PROVE  Open!CapOf(t) = n
<1>1. DOMAIN t = 0..(n - 1)
  BY DEF OpenTable
<1>2. Open!CapOf(t) = Cardinality(DOMAIN t)
  BY DEF Open!CapOf, Open!Cardinality, Cardinality
<1>3. QED
  BY <1>1, <1>2, Slots

LEMMA ProbeIs ==
  ASSUME NEW k, NEW i, NEW c
  PROVE  Open!probe(k, i, c) = ProbeOf(probing, k, i, c)
BY DEF Open!probe, ProbeOf, Offset

\* u is t, but for slot s, which has the value v.
Written(t, u, n, s, v) ==
  n \in Nat /\ t \in OpenTable(n) /\ s \in 0..(n - 1) /\ u = [t EXCEPT ![s] = v]

\* What writing a slot does to the number of slots with a value in V.
LEMMA CountWritten ==
  ASSUME NEW n, NEW t, NEW s, NEW v, NEW u, Written(t, u, n, s, v), NEW V
  PROVE  /\ Count(t, n, V) \in Nat
         /\ t[s] \in V /\ v \notin V => Count(u, n, V) = Count(t, n, V) - 1
         /\ t[s] \notin V /\ v \in V => Count(u, n, V) = Count(t, n, V) + 1
         /\ (t[s] \in V <=> v \in V) => Count(u, n, V) = Count(t, n, V)
<1> n \in Nat /\ t \in OpenTable(n) /\ s \in 0..(n - 1) /\ u = [t EXCEPT ![s] = v]
  BY DEF Written
<1>1. /\ DOMAIN t = 0..(n - 1)
      /\ \A a \in 0..(n - 1) : u[a] = IF a = s THEN v ELSE t[a]
  BY DEF OpenTable
<1>2. IsFiniteSet(SlotsOf(t, n, V)) /\ Count(t, n, V) \in Nat
  BY Slots, FS_Subset, FS_CardinalityType DEF SlotsOf, Count
<1>3. CASE t[s] \in V /\ v \notin V
  <2>1. SlotsOf(u, n, V) = SlotsOf(t, n, V) \ {s} /\ s \in SlotsOf(t, n, V)
    BY <1>1, <1>3 DEF SlotsOf
  <2>2. QED
    BY <1>2, <1>3, <2>1, FS_RemoveElement DEF Count
<1>4. CASE t[s] \notin V /\ v \in V
  <2>1. SlotsOf(u, n, V) = SlotsOf(t, n, V) \cup {s} /\ s \notin SlotsOf(t, n, V)
    BY <1>1, <1>4 DEF SlotsOf
  <2>2. QED
    BY <1>2, <1>4, <2>1, FS_AddElement DEF Count
<1>5. CASE t[s] \in V <=> v \in V
  <2>1. SlotsOf(u, n, V) = SlotsOf(t, n, V)
    BY <1>1, <1>5 DEF SlotsOf
  <2>2. QED
    BY <1>2, <1>5, <2>1 DEF Count
<1>6. QED
  BY <1>3, <1>4, <1>5

\* A table that is not full of keys and tombstones has an EMPTY slot.
LEMMA EmptySlot ==
  ASSUME NEW n \in Nat, NEW t, t \in OpenTable(n),
         Count(t, n, Keys) + Count(t, n, {DELETED}) < n
  PROVE  \E a \in 0..(n - 1) : t[a] = EMPTY
<1> SUFFICES ASSUME \A a \in 0..(n - 1) : t[a] # EMPTY PROVE FALSE
  OBVIOUS
<1> DEFINE A == SlotsOf(t, n, Keys)
           B == SlotsOf(t, n, {DELETED})
<1>1. A \cup B = 0..(n - 1) /\ A \cap B = {}
  BY OpenIsLegal DEF SlotsOf, OpenTable
<1>2. IsFiniteSet(A) /\ IsFiniteSet(B) /\ Cardinality(0..(n - 1)) = n
  BY Slots, FS_Subset DEF SlotsOf
<1>3. Cardinality(A) \in Nat /\ Cardinality(B) \in Nat
  BY <1>2, FS_CardinalityType
<1> HIDE DEF A, B
<1>4. Cardinality(A \cup B) = Cardinality(A) + Cardinality(B) - Cardinality(A \cap B)
  BY <1>2, FS_Union
<1>5. n = Cardinality(A) + Cardinality(B)
  <2>1. Cardinality(A \cap B) = 0
    BY <1>1, FS_EmptySet
  <2>2. Cardinality(A \cup B) = n
    BY <1>1, <1>2
  <2>3. QED
    BY <1>3, <1>4, <2>1, <2>2
<1>6. Cardinality(A) + Cardinality(B) < n
  BY DEF A, B, Count
<1>7. QED
  BY <1>3, <1>5, <1>6

\* The probes for k pass keys and tombstones, and come to an EMPTY slot.
LEMMA FirstEmpty ==
  ASSUME NEW n, Open!PowerOfTwo(n), n # 1, NEW t, t \in OpenTable(n), NEW k \in Keys,
         probing \in Open!Policies, NEW a \in 0..(n - 1), t[a] = EMPTY
  PROVE  \E e \in 0..(n - 1) :
            /\ t[ProbeOf(probing, k, e, n)] = EMPTY
            /\ Open!Passed(t, k) = 0..(e - 1)
            /\ \A j \in 0..(e - 1) : t[ProbeOf(probing, k, j, n)] # EMPTY
<1> DEFINE T == {i \in 0..(n - 1) : t[ProbeOf(probing, k, i, n)] = EMPTY}
<1>1. n \in Nat \ {0}
  BY DEF Open!PowerOfTwo
<1>2. T # {} /\ T \subseteq Nat
  BY <1>1, ProbesVisitAll
<1>3. PICK e \in T : \A i \in T : e <= i
  <2> HIDE DEF T
  <2>1. QED
    BY <1>2, LeastOf
<1>4. e \in 0..(n - 1) /\ t[ProbeOf(probing, k, e, n)] = EMPTY
  OBVIOUS
<1>5. \A j \in 0..(n - 1) : t[ProbeOf(probing, k, j, n)] = EMPTY => e <= j
  BY <1>3
<1>6. Open!Passed(t, k)
        = {i \in 0..(n - 1) : \A j \in 0..i : t[ProbeOf(probing, k, j, n)] # EMPTY}
  BY <1>1, CapIs, ProbeIs DEF Open!Passed
<1> HIDE DEF T
<1>7. \A j \in 0..(e - 1) : t[ProbeOf(probing, k, j, n)] # EMPTY
  BY <1>1, <1>4, <1>5
<1>8. \A i \in 0..(e - 1) : i \in 0..(n - 1) /\ 0..i \subseteq 0..(e - 1)
  BY <1>1, <1>4
<1>9. \A i \in 0..(n - 1) : i \notin 0..(e - 1) => e \in 0..i
  BY <1>1, <1>4
<1>10. Open!Passed(t, k) = 0..(e - 1)
  BY <1>4, <1>6, <1>7, <1>8, <1>9
<1>11. QED
  BY <1>4, <1>7, <1>10

\* find_target_slot finds a slot without a key, that the probes for k reach.
LEMMA Target ==
  ASSUME NEW n, Open!PowerOfTwo(n), n # 1, NEW t, t \in OpenTable(n), NEW k \in Keys,
         probing \in Open!Policies, NEW a \in 0..(n - 1), t[a] = EMPTY
  PROVE  \E i \in 0..(n - 1) :
            /\ Open!find_target_slot(t, k) = ProbeOf(probing, k, i, n)
            /\ t[ProbeOf(probing, k, i, n)] \in {EMPTY, DELETED}
            /\ \A j \in 0..(i - 1) : t[ProbeOf(probing, k, j, n)] # EMPTY
<1>1. n \in Nat \ {0} /\ Open!CapOf(t) = n
  BY CapIs DEF Open!PowerOfTwo
<1>2. PICK e \in 0..(n - 1) :
            /\ t[ProbeOf(probing, k, e, n)] = EMPTY
            /\ Open!Passed(t, k) = 0..(e - 1)
            /\ \A j \in 0..(e - 1) : t[ProbeOf(probing, k, j, n)] # EMPTY
  BY FirstEmpty
<1> DEFINE tombs == {i \in 0..(e - 1) : t[ProbeOf(probing, k, i, n)] = DELETED}
           m == Open!Min(tombs)
<1>3. Open!Cardinality(Open!Passed(t, k)) = e
  <2>1. e \in Nat
    BY <1>1
  <2>2. Open!Cardinality(Open!Passed(t, k)) = Cardinality(0..(e - 1))
    BY <1>2 DEF Open!Cardinality, Cardinality
  <2>3. QED
    BY <2>1, <2>2, Slots
<1>4. {i \in Open!Passed(t, k) : t[Open!probe(k, i, n)] = DELETED} = tombs
  BY <1>2, ProbeIs
<1>5. e # n
  BY <1>1
<1>6. Open!find_target_slot(t, k) = ProbeOf(probing, k, IF tombs = {} THEN e ELSE m, n)
  BY <1>1, <1>3, <1>4, <1>5, ProbeIs DEF Open!find_target_slot
<1>7. CASE tombs = {}
  BY <1>2, <1>6, <1>7
<1>8. CASE tombs # {}
  <2>1. \E x \in tombs : \A y \in tombs : x <= y
    <3>1. tombs \subseteq Nat
      OBVIOUS
    <3> HIDE DEF tombs
    <3>2. QED
      BY <1>8, <3>1, LeastOf
  <2>2. m \in tombs
    BY <2>1 DEF Open!Min
  <2>3. /\ m \in 0..(n - 1) /\ t[ProbeOf(probing, k, m, n)] = DELETED
        /\ 0..(m - 1) \subseteq 0..(e - 1)
    BY <1>1, <2>2
  <2> HIDE DEF m
  <2>4. QED
    BY <1>2, <1>6, <1>8, <2>3
<1>9. QED
  BY <1>7, <1>8

\* Key k is new to the table t of n slots, and fits; u is t with it in slot s.
Admits(t, n, k) ==
  /\ \A a \in 0..(n - 1) : t[a] # k
  /\ Count(t, n, Keys) + Count(t, n, {DELETED}) < n

\* u is t with k in slot s, which had none.
Entered(t, u, n, s, k) ==
  /\ s \in 0..(n - 1) /\ t[s] \in {EMPTY, DELETED}
  /\ Sound(probing, u, n)
  /\ \A a \in 0..(n - 1) : u[a] = IF a = s THEN k ELSE t[a]
  /\ Count(u, n, Keys) = Count(t, n, Keys) + 1
  /\ Count(u, n, {DELETED}) = Count(t, n, {DELETED}) - (IF t[s] = DELETED THEN 1 ELSE 0)

\* u is t with the key of slot s removed.
Removed(t, u, n, s) ==
  /\ Sound(probing, u, n)
  /\ \A a \in 0..(n - 1) : u[a] = IF a = s THEN DELETED ELSE t[a]
  /\ Count(u, n, Keys) = Count(t, n, Keys) - 1
  /\ Count(u, n, {DELETED}) = Count(t, n, {DELETED}) + 1

\* The insertion of a key that is not there.
LEMMA Insertion ==
  ASSUME NEW n, NEW t, Sound(probing, t, n), NEW k \in Keys, Admits(t, n, k),
         NEW s, s = Open!find_target_slot(t, k),
         NEW u, u = [t EXCEPT ![s] = k]
  PROVE  Entered(t, u, n, s, k)
<1> /\ \A a \in 0..(n - 1) : t[a] # k
    /\ Count(t, n, Keys) + Count(t, n, {DELETED}) < n
  BY DEF Admits
<1>1. Open!PowerOfTwo(n) /\ n # 1 /\ probing \in Open!Policies /\ t \in OpenTable(n)
  BY DEF Sound
<1>2. n \in Nat \ {0}
  BY <1>1 DEF Open!PowerOfTwo
<1>3. PICK e \in 0..(n - 1) : t[e] = EMPTY
  BY <1>1, <1>2, EmptySlot
<1>4. PICK i \in 0..(n - 1) :
            /\ s = ProbeOf(probing, k, i, n)
            /\ t[s] \in {EMPTY, DELETED}
            /\ \A j \in 0..(i - 1) : t[ProbeOf(probing, k, j, n)] # EMPTY
  BY <1>1, <1>3, Target
<1>5. s \in 0..(n - 1)
  BY <1>1, <1>2, <1>4, ProbeInRange
<1>6. EMPTY # k /\ DELETED # k /\ EMPTY \notin Keys /\ DELETED \notin Keys /\ EMPTY # DELETED
  BY OpenIsLegal
<1>7. \A a \in 0..(n - 1) : u[a] = IF a = s THEN k ELSE t[a]
  BY <1>1, <1>5 DEF OpenTable
<1>8. u \in OpenTable(n)
  BY <1>1, <1>5 DEF OpenTable
<1>9. ASSUME NEW a \in 0..(n - 1), NEW l \in Keys, NEW j \in Nat,
             t[ProbeOf(probing, l, j, n)] # EMPTY
      PROVE  u[ProbeOf(probing, l, j, n)] # EMPTY
  <2>1. ProbeOf(probing, l, j, n) \in 0..(n - 1)
    BY <1>1, ProbeInRange
  <2>2. QED
    BY <1>6, <1>7, <1>9, <2>1
<1>10. Reached(probing, u, n, s)
  <2>1. u[s] = k
    BY <1>5, <1>7
  <2>2. \A j \in 0..(i - 1) : j \in Nat /\ u[ProbeOf(probing, k, j, n)] # EMPTY
    BY <1>4, <1>5, <1>9
  <2>3. QED
    BY <1>4, <2>1, <2>2 DEF Reached
<1>11. ASSUME NEW a \in 0..(n - 1), u[a] \in Keys, a # s
       PROVE  Reached(probing, u, n, a) /\ t[a] \in Keys /\ u[a] = t[a]
  <2>1. u[a] = t[a] /\ t[a] \in Keys
    BY <1>7, <1>11
  <2>2. PICK m \in 0..(n - 1) :
           /\ ProbeOf(probing, t[a], m, n) = a
           /\ \A j \in 0..(m - 1) : t[ProbeOf(probing, t[a], j, n)] # EMPTY
    BY <2>1 DEF Sound, Reached
  <2>3. \A j \in 0..(m - 1) : j \in Nat /\ u[ProbeOf(probing, u[a], j, n)] # EMPTY
    BY <1>9, <2>1, <2>2
  <2>4. QED
    BY <2>1, <2>2, <2>3 DEF Reached
<1>12. ASSUME NEW a \in 0..(n - 1), u[a] \in Keys, NEW b \in 0..(n - 1), u[b] = u[a]
       PROVE  b = a
  <2>1. CASE a = s
    BY <1>5, <1>7, <1>12, <2>1
  <2>2. CASE b = s
    BY <1>5, <1>7, <1>12, <2>2
  <2>3. CASE a # s /\ b # s
    <3>1. t[a] \in Keys /\ t[b] = t[a]
      BY <1>7, <1>12, <2>3
    <3>2. QED
      BY <3>1 DEF Sound
  <2>4. QED
    BY <2>1, <2>2, <2>3
<1>13. Sound(probing, u, n)
  BY <1>1, <1>8, <1>10, <1>11, <1>12 DEF Sound
<1> Written(t, u, n, s, k)
  BY <1>1, <1>2, <1>5 DEF Written
<1>14. Count(u, n, Keys) = Count(t, n, Keys) + 1
  <2>1. t[s] \notin Keys /\ n \in Nat
    BY <1>2, <1>4, <1>6
  <2>2. QED
    BY <2>1, CountWritten
<1>15. Count(u, n, {DELETED}) = Count(t, n, {DELETED}) - (IF t[s] = DELETED THEN 1 ELSE 0)
  <2>1. k \notin {DELETED} /\ n \in Nat /\ Count(t, n, {DELETED}) \in Nat
    BY <1>2, <1>6, CountWritten
  <2>2. CASE t[s] = DELETED
    <3>1. t[s] \in {DELETED}
      BY <2>2
    <3>2. QED
      BY <2>1, <2>2, <3>1, CountWritten
  <2>3. CASE t[s] # DELETED
    <3>1. t[s] \in {DELETED} <=> k \in {DELETED}
      BY <2>1, <2>3
    <3>2. Count(u, n, {DELETED}) = Count(t, n, {DELETED})
      BY <3>1, CountWritten
    <3>3. QED
      BY <2>1, <2>3, <3>2
  <2>4. QED
    BY <2>2, <2>3
<1>16. QED
  BY <1>4, <1>5, <1>7, <1>13, <1>14, <1>15 DEF Entered

\* remove leaves a tombstone where the key was.
LEMMA Tombstone ==
  ASSUME NEW n, NEW t, Sound(probing, t, n), NEW s \in 0..(n - 1), t[s] \in Keys,
         NEW u, u = [t EXCEPT ![s] = DELETED]
  PROVE  Removed(t, u, n, s)
<1>1. Open!PowerOfTwo(n) /\ n # 1 /\ probing \in Open!Policies /\ t \in OpenTable(n)
  BY DEF Sound
<1>2. n \in Nat \ {0} /\ n \in Nat
  BY <1>1 DEF Open!PowerOfTwo
<1>3. EMPTY # DELETED /\ DELETED \notin Keys
  BY OpenIsLegal
<1>4. \A a \in 0..(n - 1) : u[a] = IF a = s THEN DELETED ELSE t[a]
  BY <1>1 DEF OpenTable
<1>5. u \in OpenTable(n)
  BY <1>1 DEF OpenTable
<1>6. ASSUME NEW a \in 0..(n - 1), u[a] \in Keys
      PROVE  Reached(probing, u, n, a) /\ \A b \in 0..(n - 1) : u[b] = u[a] => b = a
  <2>1. u[a] = t[a] /\ t[a] \in Keys
    BY <1>3, <1>4, <1>6
  <2>2. PICK m \in 0..(n - 1) :
           /\ ProbeOf(probing, t[a], m, n) = a
           /\ \A j \in 0..(m - 1) : t[ProbeOf(probing, t[a], j, n)] # EMPTY
    BY <2>1 DEF Sound, Reached
  <2>3. \A j \in 0..(m - 1) : j \in Nat /\ ProbeOf(probing, t[a], j, n) \in 0..(n - 1)
    BY <1>1, <2>1, ProbeInRange
  <2>4. \A j \in 0..(m - 1) : u[ProbeOf(probing, u[a], j, n)] # EMPTY
    BY <1>3, <1>4, <2>1, <2>2, <2>3
  <2>5. \A b \in 0..(n - 1) : u[b] = u[a] => t[b] = t[a]
    BY <1>3, <1>4, <1>6, <2>1
  <2>6. \A b \in 0..(n - 1) : u[b] = u[a] => b = a
    BY <2>1, <2>5 DEF Sound
  <2>7. QED
    BY <2>1, <2>2, <2>4, <2>6 DEF Reached
<1>7. Sound(probing, u, n)
  BY <1>1, <1>5, <1>6 DEF Sound
<1> Written(t, u, n, s, DELETED)
  BY <1>1, <1>2 DEF Written
<1>8. Count(u, n, Keys) = Count(t, n, Keys) - 1
  BY <1>3, CountWritten
<1>9. Count(u, n, {DELETED}) = Count(t, n, {DELETED}) + 1
  <2>1. t[s] \notin {DELETED} /\ DELETED \in {DELETED}
    BY <1>3
  <2>2. QED
    BY <2>1, CountWritten
<1>10. QED
  BY <1>4, <1>7, <1>8, <1>9 DEF Removed

\* Key k is in the table t of n slots.
Held(t, n, k) == \E a \in 0..(n - 1) : t[a] = k

\* The load never passes a half, tombstones included.
OpenState(p, t, n, items, tombs) ==
  /\ Sound(p, t, n)
  /\ items = Count(t, n, Keys) /\ tombs = Count(t, n, {DELETED})
  /\ 2 * (items + tombs) <= n

\* The inductive invariant of the open table.
OpenInv == \E n : OpenState(probing, table, n, num_items, num_tombstones)

\* A new table, which is also what clear and a move leave.
LEMMA EmptyOpen ==
  ASSUME NEW N, Open!PowerOfTwo(N), N # 1, NEW p \in Open!Policies
  PROVE  /\ OpenState(p, Open!make_empty_table(N), N, 0, 0)
         /\ \A k \in Keys : ~Held(Open!make_empty_table(N), N, k)
<1> DEFINE e == Open!make_empty_table(N)
<1>1. e = [i \in 0..(N - 1) |-> EMPTY] /\ N \in Nat
  BY DEF Open!make_empty_table, Open!PowerOfTwo
<1> HIDE DEF e
<1>2. e \in OpenTable(N) /\ \A a \in 0..(N - 1) : e[a] = EMPTY
  BY <1>1 DEF OpenTable
<1>3. EMPTY \notin Keys /\ EMPTY # DELETED
  BY OpenIsLegal
<1>4. Sound(p, e, N)
  BY <1>2, <1>3 DEF Sound
<1>5. SlotsOf(e, N, Keys) = {} /\ SlotsOf(e, N, {DELETED}) = {}
  BY <1>2, <1>3 DEF SlotsOf
<1>6. Count(e, N, Keys) = 0 /\ Count(e, N, {DELETED}) = 0
  BY <1>5, FS_EmptySet DEF Count
<1>7. 2 * (0 + 0) <= N
  BY <1>1
<1>8. \A k \in Keys : ~Held(e, N, k)
  BY <1>2, <1>3 DEF Held
<1>9. OpenState(p, e, N, 0, 0)
  BY <1>4, <1>6, <1>7 DEF OpenState
<1>10. QED
  BY <1>8, <1>9 DEF e

LEMMA CountNat ==
  ASSUME NEW n \in Nat, NEW t, NEW V
  PROVE  Count(t, n, V) \in Nat
<1>1. IsFiniteSet(0..(n - 1)) /\ SlotsOf(t, n, V) \in SUBSET (0..(n - 1))
  BY Slots DEF SlotsOf
<1>2. IsFiniteSet(SlotsOf(t, n, V))
  BY <1>1, FS_Subset
<1>3. QED
  BY <1>2, FS_CardinalityType DEF Count

\* rehash as the recursion that FoldLeft stands for: of a set s of places in the
\* sequence 1, ..., c, the last is folded last.
At(c, s) == [i \in 1..c |-> i][Open!Max(s)]
FoldEq(c, d, b, v) ==
  v = [s \in SUBSET d |-> IF s = {} THEN b
                          ELSE Open!Moved(v[s \ {Open!Max(s)}], At(c, s) - 1)]

LEMMA Places ==
  ASSUME NEW c \in Nat, NEW d, d \subseteq 1..c
  PROVE  /\ IsFiniteSet(d)
         /\ \A s \in SUBSET d : /\ IsFiniteSet(s) /\ Cardinality(s) \in Nat
                                /\ s # d => Cardinality(s) < Cardinality(d)
<1>1. IsFiniteSet(1..c)
  BY FS_Interval
<1>2. IsFiniteSet(d) /\ Cardinality(d) \in Nat
  BY <1>1, FS_Subset, FS_CardinalityType
<1>3. ASSUME NEW s \in SUBSET d
      PROVE  /\ IsFiniteSet(s) /\ Cardinality(s) \in Nat
             /\ s # d => Cardinality(s) < Cardinality(d)
  <2>1. IsFiniteSet(s) /\ Cardinality(s) <= Cardinality(d)
    BY <1>2, FS_Subset
  <2>2. Cardinality(d) = Cardinality(s) => d = s
    BY <1>2, FS_Subset
  <2>3. Cardinality(s) \in Nat
    BY <2>1, FS_CardinalityType
  <2>4. QED
    BY <1>2, <2>1, <2>2, <2>3
<1>4. QED
  BY <1>2, <1>3

\* The place that Max chooses.
LEMMA LastPlace ==
  ASSUME NEW c \in Nat, NEW s, s \subseteq 1..c, s # {}
  PROVE  /\ Open!Max(s) \in s /\ At(c, s) = Open!Max(s)
         /\ \A y \in s : y <= Open!Max(s)
<1> DEFINE T == {c - i : i \in s}
<1>1. T # {} /\ T \subseteq Nat
  <2>1. \A i \in s : c - i \in Nat
    OBVIOUS
  <2>2. QED
    BY <2>1
<1>2. PICK m \in T : \A n \in T : m <= n
  <2> HIDE DEF T
  <2>1. QED
    BY <1>1, LeastOf
<1>3. PICK x \in s : m = c - x
  OBVIOUS
<1>4. \A y \in s : m <= c - y
  BY <1>2
<1> HIDE DEF T
<1>5. \A y \in s : x >= y
  <2> SUFFICES ASSUME NEW y \in s PROVE x >= y
    OBVIOUS
  <2>1. x \in Nat /\ y \in Nat /\ m <= c - y
    BY <1>4
  <2>2. QED
    BY <1>3, <2>1
<1>6. Open!Max(s) \in s /\ \A y \in s : Open!Max(s) >= y
  BY <1>5 DEF Open!Max
<1>7. QED
  BY <1>6 DEF At

LEMMA SmallerSet ==
  ASSUME NEW c \in Nat, NEW s, s \subseteq 1..c, s # {}
  PROVE  /\ s \ {Open!Max(s)} \in SUBSET s /\ s \ {Open!Max(s)} # s
         /\ IsFiniteSet(s) /\ Cardinality(s) \in Nat
         /\ Cardinality(s \ {Open!Max(s)}) = Cardinality(s) - 1
<1>1. IsFiniteSet(1..c)
  BY FS_Interval
<1>2. IsFiniteSet(s) /\ Cardinality(s) \in Nat
  BY <1>1, FS_Subset, FS_CardinalityType
<1>3. Open!Max(s) \in s
  BY LastPlace
<1>4. QED
  BY <1>2, <1>3, FS_RemoveElement

\* There is at most one fold.
LEMMA OneFold ==
  ASSUME NEW c \in Nat, NEW d, d \subseteq 1..c, NEW b, NEW v, NEW w,
         FoldEq(c, d, b, v), FoldEq(c, d, b, w)
  PROVE  v = w
<1> DEFINE T == {Cardinality(s) : s \in {u \in SUBSET d : v[u] # w[u]}}
<1>1. ASSUME T # {} PROVE FALSE
  <2>1. T \subseteq Nat
    <3>1. \A s \in SUBSET d : Cardinality(s) \in Nat
      <4> HIDE DEF T
      <4>1. QED
        BY Places
    <3>2. QED
      BY <3>1
  <2>2. PICK m \in T : \A n \in T : m <= n
    <3> HIDE DEF T
    <3>1. QED
      BY <1>1, <2>1, LeastOf
  <2>3. PICK s \in SUBSET d : v[s] # w[s] /\ m = Cardinality(s)
    OBVIOUS
  <2>4. CASE s = {}
    BY <2>3, <2>4 DEF FoldEq
  <2>5. CASE s # {}
    <3> DEFINE rest == s \ {Open!Max(s)}
    <3>1. rest \in SUBSET d /\ Cardinality(rest) = Cardinality(s) - 1 /\ Cardinality(s) \in Nat
      BY <2>5, SmallerSet
    <3>2. v[rest] = w[rest]
      <4> HIDE DEF rest
      <4>1. Cardinality(rest) \notin T
        <5>1. ~(m <= Cardinality(rest))
          BY <2>3, <3>1
        <5> HIDE DEF T
        <5>2. QED
          BY <2>2, <5>1
      <4>2. QED
        BY <3>1, <4>1
    <3>3. v[s] = Open!Moved(v[rest], At(c, s) - 1) /\ w[s] = Open!Moved(w[rest], At(c, s) - 1)
      BY <2>5 DEF FoldEq
    <3>4. QED
      BY <2>3, <3>2, <3>3
  <2>6. QED
    BY <2>4, <2>5
<1>2. \A s \in SUBSET d : v[s] = w[s]
  BY <1>1
<1> HIDE DEF T
<1>3. v = [s \in SUBSET d |-> v[s]] /\ w = [s \in SUBSET d |-> w[s]]
  BY DEF FoldEq
<1>4. QED
  BY <1>2, <1>3

\* A fold over a set contains those over its subsets.
LEMMA PartOfFold ==
  ASSUME NEW c \in Nat, NEW d, d \subseteq 1..c, NEW e, e \subseteq d, NEW b, NEW v,
         FoldEq(c, d, b, v)
  PROVE  FoldEq(c, e, b, [s \in SUBSET e |-> v[s]])
<1> DEFINE w == [s \in SUBSET e |-> v[s]]
<1>1. ASSUME NEW s \in SUBSET e
      PROVE  v[s] = IF s = {} THEN b ELSE Open!Moved(w[s \ {Open!Max(s)}], At(c, s) - 1)
  <2>1. s \in SUBSET d /\ s \ {Open!Max(s)} \in SUBSET e
    OBVIOUS
  <2>2. w[s \ {Open!Max(s)}] = v[s \ {Open!Max(s)}]
    BY <2>1
  <2>3. v[s] = IF s = {} THEN b ELSE Open!Moved(v[s \ {Open!Max(s)}], At(c, s) - 1)
    BY <2>1 DEF FoldEq
  <2>4. QED
    BY <2>2, <2>3
<1>2. w = [s \in SUBSET e |->
             IF s = {} THEN b ELSE Open!Moved(w[s \ {Open!Max(s)}], At(c, s) - 1)]
  BY <1>1
<1>3. QED
  BY <1>2 DEF FoldEq

\* The recursion has a solution, by the least set that would have none.
LEMMA FoldExists ==
  ASSUME NEW c \in Nat, NEW d, d \subseteq 1..c, NEW b
  PROVE  \E v : FoldEq(c, d, b, v)
<1> DEFINE T == {Cardinality(s) : s \in {u \in SUBSET d : \A v : ~FoldEq(c, u, b, v)}}
           V(s) == CHOOSE v : FoldEq(c, s, b, v)
<1>1. ASSUME T # {} PROVE FALSE
  <2>1. T \subseteq Nat
    <3>1. \A s \in SUBSET d : Cardinality(s) \in Nat
      <4> HIDE DEF T
      <4>1. QED
        BY Places
    <3>2. QED
      BY <3>1
  <2>2. PICK m \in T : \A n \in T : m <= n
    <3> HIDE DEF T
    <3>1. QED
      BY <1>1, <2>1, LeastOf
  <2>3. PICK s \in SUBSET d : m = Cardinality(s) /\ \A v : ~FoldEq(c, s, b, v)
    OBVIOUS
  <2>4. ASSUME NEW u \in SUBSET s, u # s
        PROVE  FoldEq(c, u, b, V(u))
    <3>1. Cardinality(u) \in Nat /\ Cardinality(u) < m
      <4>1. s \subseteq 1..c
        OBVIOUS
      <4> HIDE DEF T
      <4>2. QED
        BY <2>3, <2>4, <4>1, Places
    <3>2. Cardinality(u) \notin T
      <4>1. ~(m <= Cardinality(u))
        BY <2>1, <3>1
      <4> HIDE DEF T
      <4>2. QED
        BY <2>2, <4>1
    <3>3. \E v : FoldEq(c, u, b, v)
      BY <3>2
    <3>4. QED
      BY <3>3
  <2> DEFINE last == Open!Moved(V(s \ {Open!Max(s)})[s \ {Open!Max(s)}], At(c, s) - 1)
             W == [u \in SUBSET s |-> IF u = {} THEN b ELSE IF u = s THEN last ELSE V(u)[u]]
  <2>5. ASSUME NEW u \in SUBSET s, u # {}
        PROVE  W[u] = Open!Moved(W[u \ {Open!Max(u)}], At(c, u) - 1)
    <3> DEFINE rest == u \ {Open!Max(u)}
    <3>1. rest \in SUBSET s /\ rest # s /\ rest \in SUBSET u
      <4>1. u \subseteq 1..c
        OBVIOUS
      <4>2. rest \in SUBSET u /\ rest # u
        <5> HIDE DEF T
        <5>1. QED
          BY <2>5, <4>1, SmallerSet
      <4> HIDE DEF T, rest
      <4>3. QED
        BY <4>2
    <3>2. FoldEq(c, rest, b, V(rest))
      BY <2>4, <3>1
    <3>3. W[rest] = V(rest)[rest]
      <4>1. rest = {} => V(rest)[rest] = b
        BY <3>2 DEF FoldEq
      <4> HIDE DEF V, rest, last
      <4>2. QED
        BY <3>1, <4>1
    <3>4. CASE u = s
      BY <2>5, <3>3, <3>4
    <3>5. CASE u # s
      <4>1. FoldEq(c, u, b, V(u))
        BY <2>4, <3>5
      <4> HIDE DEF V
      <4>2. V(u)[u] = Open!Moved(V(u)[rest], At(c, u) - 1)
        BY <2>5, <4>1 DEF FoldEq
      <4>3. FoldEq(c, rest, b, [x \in SUBSET rest |-> V(u)[x]])
        <5> HIDE DEF rest
        <5>1. QED
          BY <3>1, <4>1, PartOfFold
      <4>4. V(rest) = [x \in SUBSET rest |-> V(u)[x]]
        <5> HIDE DEF rest
        <5>1. rest \subseteq 1..c
          BY <3>1
        <5>2. QED
          BY <3>2, <4>3, <5>1, OneFold
      <4>5. V(rest)[rest] = V(u)[rest]
        BY <4>4
      <4>6. W[u] = V(u)[u]
        BY <2>5, <3>5
      <4>7. QED
        BY <3>3, <4>2, <4>5, <4>6
    <3>6. QED
      BY <3>4, <3>5
  <2>6. W[{}] = b
    OBVIOUS
  <2> HIDE DEF last, V
  <2>7. W = [u \in SUBSET s |-> W[u]]
    OBVIOUS
  <2> HIDE DEF W
  <2>8. FoldEq(c, s, b, W)
    BY <2>5, <2>6, <2>7 DEF FoldEq
  <2>9. QED
    BY <2>3, <2>8
<1>2. QED
  BY <1>1

\* rehash is this recursion over the slots of the table.
LEMMA RehashUnfolds ==
  ASSUME NEW N, NEW c, c = Open!CapOf(table)
  PROVE  Open!rehash(N) = (CHOOSE v : FoldEq(c, DOMAIN [i \in 1..c |-> i],
                                             Open!make_empty_table(N), v))[DOMAIN [i \in 1..c |-> i]]
<1> DEFINE C == Open!CapOf(table)
<1>1. Open!rehash(N) = (CHOOSE v : FoldEq(C, DOMAIN [i \in 1..C |-> i],
                                          Open!make_empty_table(N), v))[DOMAIN [i \in 1..C |-> i]]
  BY ZenonT(60) DEF Open!rehash, Open!FoldLeft, Open!MapThenFoldSet, FoldEq, At
<1> HIDE DEF C
<1>2. c = C
  BY DEF C
<1>3. QED
  BY <1>1, <1>2

LEMMA RehashIsFold ==
  ASSUME NEW n \in Nat, table \in OpenTable(n), NEW N
  PROVE  Open!rehash(N) = (CHOOSE v : FoldEq(n, 1..n, Open!make_empty_table(N), v))[1..n]
<1>1. n = Open!CapOf(table)
  BY CapIs
<1>2. DOMAIN [i \in 1..n |-> i] = 1..n
  OBVIOUS
<1>3. Open!rehash(N) = (CHOOSE v : FoldEq(n, DOMAIN [i \in 1..n |-> i],
                                          Open!make_empty_table(N), v))[DOMAIN [i \in 1..n |-> i]]
  BY <1>1, RehashUnfolds
<1>4. QED
  BY <1>2, <1>3

\* What rehash has done after m slots: t has the keys of these, and nothing else.
Rehashed(n, N, t, m) ==
  /\ Sound(probing, t, N)
  /\ Count(t, N, {DELETED}) = 0
  /\ Count(t, N, Keys) = Cardinality({a \in 0..(m - 1) : table[a] \in Keys})
  /\ \A k \in Keys : (\E a \in 0..(N - 1) : t[a] = k) <=> (\E a \in 0..(m - 1) : table[a] = k)

LEMMA RehashStarts ==
  ASSUME NEW n, NEW N, Open!PowerOfTwo(N), N # 1, probing \in Open!Policies
  PROVE  Rehashed(n, N, Open!make_empty_table(N), 0)
<1> DEFINE e == Open!make_empty_table(N)
<1>1. OpenState(probing, e, N, 0, 0) /\ \A k \in Keys : ~Held(e, N, k)
  BY EmptyOpen
<1> HIDE DEF e
<1>2. Sound(probing, e, N) /\ Count(e, N, Keys) = 0 /\ Count(e, N, {DELETED}) = 0
  BY <1>1 DEF OpenState
<1>3. {a \in 0..(0 - 1) : table[a] \in Keys} = {} /\ 0..(0 - 1) = {}
  OBVIOUS
<1>4. Cardinality({}) = 0
  BY FS_EmptySet
<1>5. \A k \in Keys : (\E a \in 0..(N - 1) : e[a] = k) <=> (\E a \in 0..(0 - 1) : table[a] = k)
  BY <1>1, <1>3 DEF Held
<1>6. QED
  BY <1>2, <1>3, <1>4, <1>5 DEF Rehashed, e

\* Slot m of the old table has its key put into the new one, or has none.
LEMMA RehashStep ==
  ASSUME NEW n, Sound(probing, table, n), NEW m \in 0..(n - 1), NEW t,
         Rehashed(n, 2 * n, t, m)
  PROVE  Rehashed(n, 2 * n, Open!Moved(t, m), m + 1)
<1> DEFINE A == {a \in 0..(m - 1) : table[a] \in Keys}
           B == {a \in 0..m : table[a] \in Keys}
           u == Open!Moved(t, m)
<1>1. n \in Nat \ {0} /\ table \in OpenTable(n)
  BY DEF Sound, Open!PowerOfTwo
<1>2. m \in Nat /\ m < n /\ 0..m = (0..(m - 1)) \cup {m} /\ m \notin 0..(m - 1) /\ (m + 1) - 1 = m
  BY <1>1
<1>3. IsFiniteSet(A) /\ Cardinality(A) \in Nat /\ Cardinality(A) <= m
  <2>1. IsFiniteSet(0..(m - 1)) /\ Cardinality(0..(m - 1)) = m /\ A \in SUBSET (0..(m - 1))
    BY <1>2, Slots
  <2> HIDE DEF A
  <2>2. QED
    BY <2>1, FS_Subset, FS_CardinalityType
<1>4. CASE table[m] \notin Keys
  <2>1. A = B
    BY <1>2, <1>4
  <2>2. u = t
    BY <1>4 DEF Open!Moved
  <2>3. \A k \in Keys : (\E a \in 0..(m - 1) : table[a] = k) <=> (\E a \in 0..m : table[a] = k)
    BY <1>2, <1>4
  <2> HIDE DEF u
  <2>4. QED
    BY <1>2, <2>1, <2>2, <2>3 DEF Rehashed, u
<1>5. CASE table[m] \in Keys
  <2> DEFINE k == table[m]
             N == 2 * n
  <2>0. PICK s : s = Open!find_target_slot(t, k)
    OBVIOUS
  <2>1. k \in Keys /\ u = [t EXCEPT ![s] = k]
    BY <1>5, <2>0 DEF Open!Moved
  <2>2. \A a \in 0..(m - 1) : table[a] # k
    <3>1. \A a \in 0..(n - 1) : table[a] = table[m] => a = m
      BY <1>5 DEF Sound
    <3>2. QED
      BY <1>1, <1>2, <3>1
  <2>3. \A a \in 0..(N - 1) : t[a] # k
    BY <2>1, <2>2 DEF Rehashed
  <2>4. /\ Sound(probing, t, N) /\ Count(t, N, {DELETED}) = 0
        /\ Count(t, N, Keys) = Cardinality(A)
    BY DEF Rehashed
  <2>5. Cardinality(A) + 0 < N /\ N \in Nat
    BY <1>1, <1>2, <1>3
  <2>6. B = A \cup {m} /\ m \notin A
    BY <1>2, <1>5
  <2> HIDE DEF k, N, A, B, u
  <2>7. Cardinality(B) = Cardinality(A) + 1
    BY <1>3, <2>6, FS_AddElement
  <2>8. /\ s \in 0..(N - 1) /\ t[s] \in {EMPTY, DELETED}
        /\ Sound(probing, u, N)
        /\ \A a \in 0..(N - 1) : u[a] = IF a = s THEN k ELSE t[a]
        /\ Count(u, N, Keys) = Count(t, N, Keys) + 1
        /\ Count(u, N, {DELETED}) = Count(t, N, {DELETED}) - (IF t[s] = DELETED THEN 1 ELSE 0)
    <3>1. Count(t, N, Keys) + Count(t, N, {DELETED}) < N
      BY <2>4, <2>5
    <3>2. Admits(t, N, k)
      BY <2>3, <3>1 DEF Admits
    <3>3. Entered(t, [t EXCEPT ![s] = k], N, s, k)
      BY <2>0, <2>1, <2>4, <3>2, Insertion
    <3>4. QED
      BY <2>1, <3>3 DEF Entered
  <2>9. t[s] # DELETED
    <3> SUFFICES ASSUME t[s] = DELETED PROVE FALSE
      OBVIOUS
    <3>1. s \in SlotsOf(t, N, {DELETED})
      BY <2>8 DEF SlotsOf
    <3>2. IsFiniteSet(SlotsOf(t, N, {DELETED}))
      <4>1. IsFiniteSet(0..(N - 1)) /\ SlotsOf(t, N, {DELETED}) \in SUBSET (0..(N - 1))
        BY <2>5, Slots DEF SlotsOf
      <4>2. QED
        BY <4>1, FS_Subset
    <3>3. SlotsOf(t, N, {DELETED}) = {}
      BY <2>4, <3>2, FS_EmptySet DEF Count
    <3>4. QED
      BY <3>1, <3>3
  <2>10. Count(u, N, {DELETED}) = 0
    BY <2>4, <2>8, <2>9
  <2>11. Count(u, N, Keys) = Cardinality(B)
    BY <2>4, <2>7, <2>8
  <2>12. ASSUME NEW l \in Keys
         PROVE  (\E a \in 0..(N - 1) : u[a] = l) <=> (\E a \in 0..m : table[a] = l)
    <3>1. (\E a \in 0..(N - 1) : u[a] = l) <=> l = k \/ \E a \in 0..(N - 1) : t[a] = l
      BY <2>8, OpenIsLegal
    <3>2. (\E a \in 0..(N - 1) : t[a] = l) <=> (\E a \in 0..(m - 1) : table[a] = l)
      BY DEF Rehashed, N
    <3>3. (\E a \in 0..m : table[a] = l) <=> l = k \/ \E a \in 0..(m - 1) : table[a] = l
      BY <1>2 DEF k
    <3>4. QED
      BY <3>1, <3>2, <3>3
  <2>13. QED
    BY <1>2, <2>8, <2>10, <2>11, <2>12 DEF Rehashed, N, B, u
<1>6. QED
  BY <1>4, <1>5

\* rehash into twice the capacity keeps the keys, and drops the tombstones.
LEMMA RehashKeeps ==
  ASSUME NEW n, Sound(probing, table, n)
  PROVE  Rehashed(n, 2 * n, Open!rehash(2 * n), n)
<1> DEFINE b == Open!make_empty_table(2 * n)
           w == CHOOSE v : FoldEq(n, 1..n, b, v)
           T == {m \in 0..n : ~Rehashed(n, 2 * n, w[1..m], m)}
<1>1. n \in Nat \ {0} /\ table \in OpenTable(n) /\ probing \in Open!Policies
  BY DEF Sound, Open!PowerOfTwo
<1>2. FoldEq(n, 1..n, b, w)
  <2>1. 1..n \subseteq 1..n
    OBVIOUS
  <2> HIDE DEF b
  <2>2. \E v : FoldEq(n, 1..n, b, v)
    BY <1>1, <2>1, FoldExists
  <2>3. QED
    BY <2>2
<1>3. Open!rehash(2 * n) = w[1..n]
  BY <1>1, RehashIsFold
<1> HIDE DEF w
<1>4. w[1..0] = b
  <2>1. 1..0 = {} /\ 1..0 \in SUBSET (1..n)
    OBVIOUS
  <2> HIDE DEF b
  <2>2. QED
    BY <1>2, <2>1 DEF FoldEq
<1>5. ASSUME NEW m \in 0..(n - 1)
      PROVE  w[1..(m + 1)] = Open!Moved(w[1..m], m)
  <2> DEFINE s == 1..(m + 1)
  <2>1. s \subseteq 1..n /\ s # {} /\ m \in Nat /\ m + 1 \in s
    BY <1>1
  <2>2. Open!Max(s) = m + 1 /\ At(n, s) = m + 1
    <3>1. Open!Max(s) \in s /\ At(n, s) = Open!Max(s) /\ \A y \in s : y <= Open!Max(s)
      <4> HIDE DEF s
      <4>1. QED
        BY <1>1, <2>1, LastPlace
    <3>2. QED
      BY <2>1, <3>1
  <2>3. s \ {m + 1} = 1..m
    BY <2>1
  <2> HIDE DEF s, b
  <2>4. w[s] = Open!Moved(w[s \ {Open!Max(s)}], At(n, s) - 1)
    BY <1>2, <2>1 DEF FoldEq
  <2>5. (m + 1) - 1 = m
    BY <2>1
  <2>6. QED
    BY <2>2, <2>3, <2>4, <2>5 DEF s
<1>6. ASSUME T # {} PROVE FALSE
  <2>1. T \subseteq Nat
    BY <1>1
  <2>2. PICK m \in T : \A i \in T : m <= i
    <3> HIDE DEF T
    <3>1. QED
      BY <1>6, <2>1, LeastOf
  <2>3. m \in 0..n /\ ~Rehashed(n, 2 * n, w[1..m], m)
    OBVIOUS
  <2>4. m # 0
    <3>1. Open!PowerOfTwo(2 * n) /\ 2 * n # 1
      BY <1>1, PowerDoubles DEF Sound
    <3>2. Rehashed(n, 2 * n, w[1..0], 0)
      BY <1>1, <1>4, <3>1, RehashStarts
    <3>3. QED
      BY <2>3, <3>2
  <2> DEFINE i == m - 1
  <2>5. i \in 0..(n - 1) /\ i \in 0..n /\ i + 1 = m /\ ~(m <= i)
    BY <1>1, <2>3, <2>4
  <2> HIDE DEF i
  <2>6. i \notin T
    <3> HIDE DEF T
    <3>1. QED
      BY <2>2, <2>5
  <2>7. Rehashed(n, 2 * n, w[1..i], i)
    BY <2>5, <2>6
  <2>8. Rehashed(n, 2 * n, Open!Moved(w[1..i], i), i + 1)
    BY <2>5, <2>7, RehashStep
  <2>9. QED
    BY <1>5, <2>3, <2>5, <2>8
<1>7. n \in 0..n
  BY <1>1
<1>8. QED
  BY <1>3, <1>6, <1>7

\* Every key is held once, or not at all.
SetOf(t, n) == [k \in Keys |-> IF Held(t, n, k) THEN 1 ELSE 0]
OpenBag(t) == [k \in Keys |-> Cardinality({a \in DOMAIN t : t[a] = k})]

LEMMA OpenContents ==
  ASSUME NEW p, NEW t, NEW n, Sound(p, t, n)
  PROVE  OpenBag(t) = SetOf(t, n)
<1>1. DOMAIN t = 0..(n - 1)
  BY DEF Sound, OpenTable
<1>2. ASSUME NEW k \in Keys
      PROVE  Cardinality({a \in DOMAIN t : t[a] = k}) = IF Held(t, n, k) THEN 1 ELSE 0
  <2> DEFINE S == {a \in DOMAIN t : t[a] = k}
  <2>1. CASE Held(t, n, k)
    <3>1. PICK a \in 0..(n - 1) : t[a] = k
      BY <2>1 DEF Held
    <3>2. \A b \in 0..(n - 1) : t[b] = t[a] => b = a
      BY <3>1 DEF Sound
    <3>3. S = {a}
      BY <1>1, <3>1, <3>2
    <3>4. Cardinality(S) = 1
      BY <3>3, FS_Singleton
    <3>5. QED
      BY <2>1, <3>4
  <2>2. CASE ~Held(t, n, k)
    <3>1. S = {}
      BY <1>1, <2>2 DEF Held
    <3>2. Cardinality(S) = 0
      BY <3>1, FS_EmptySet
    <3>3. QED
      BY <2>2, <3>2
  <2>3. QED
    BY <2>1, <2>2
<1>3. QED
  BY <1>2 DEF OpenBag, SetOf

LEMMA BagIsContents == Open!Contents = OpenBag(table) /\ Open!Contents' = OpenBag(table')
BY DEF Open!Contents, OpenBag, Open!Cardinality, Cardinality

\* search finds a key exactly if it is in the table.
LEMMA OpenLookup ==
  ASSUME NEW n, Sound(probing, table, n), NEW k \in Keys
  PROVE  /\ Open!Found(k) <=> Held(table, n, k)
         /\ \A i \in Open!Passed(table, k) : Open!probe(k, i, Open!CapOf(table)) \in 0..(n - 1)
<1>1. Open!PowerOfTwo(n) /\ n # 1 /\ probing \in Open!Policies /\ table \in OpenTable(n)
  BY DEF Sound
<1>2. n \in Nat \ {0} /\ n \in Nat
  BY <1>1 DEF Open!PowerOfTwo
<1>3. Open!CapOf(table) = n
  BY <1>1, <1>2, CapIs
<1>4. Open!Passed(table, k) =
        {i \in 0..(n - 1) : \A j \in 0..i : table[ProbeOf(probing, k, j, n)] # EMPTY}
  BY <1>3, ProbeIs DEF Open!Passed
<1>5. \A i \in 0..(n - 1) : i \in Nat /\ ProbeOf(probing, k, i, n) \in 0..(n - 1)
  BY <1>1, ProbeInRange
<1>6. \A i \in Open!Passed(table, k) : Open!probe(k, i, Open!CapOf(table)) \in 0..(n - 1)
  BY <1>3, <1>4, <1>5, ProbeIs
<1>7. ASSUME Open!Found(k) PROVE Held(table, n, k)
  BY <1>6, <1>7 DEF Open!Found, Held
<1>8. ASSUME Held(table, n, k) PROVE Open!Found(k)
  <2>1. PICK a \in 0..(n - 1) : table[a] = k
    BY <1>8 DEF Held
  <2>2. Reached(probing, table, n, a)
    BY <2>1 DEF Sound
  <2>3. PICK i \in 0..(n - 1) :
           /\ ProbeOf(probing, k, i, n) = a
           /\ \A j \in 0..(i - 1) : table[ProbeOf(probing, k, j, n)] # EMPTY
    BY <2>1, <2>2 DEF Reached
  <2>4. table[ProbeOf(probing, k, i, n)] # EMPTY
    BY <2>1, <2>3, OpenIsLegal
  <2>5. \A j \in 0..i : j = i \/ j \in 0..(i - 1)
    BY <1>2
  <2>6. i \in Open!Passed(table, k)
    BY <1>4, <2>3, <2>4, <2>5
  <2>7. Open!probe(k, i, Open!CapOf(table)) = a
    BY <1>3, <2>3, ProbeIs
  <2>8. QED
    BY <2>1, <2>6, <2>7 DEF Open!Found
<1>9. QED
  BY <1>6, <1>7, <1>8

\* k is added to a table that held the others.
KeyAdded(t, m, n, k) ==
  /\ OpenState(probing, table', m, num_items', num_tombstones')
  /\ reply' = "yes"
  /\ \A l \in Keys : Held(table', m, l) <=> l = k \/ Held(t, n, l)

\* raw_insert into a table that is half used at most with the key.
LEMMA RawInsert ==
  ASSUME NEW n, NEW t, NEW c, OpenState(probing, t, n, num_items, c), NEW k \in Keys,
         ~Held(t, n, k), 2 * (num_items + c) + 2 <= n, Open!raw_insert(t, c, k)
  PROVE  KeyAdded(t, n, n, k)
<1>1. /\ Sound(probing, t, n)
      /\ num_items = Count(t, n, Keys) /\ c = Count(t, n, {DELETED})
  BY DEF OpenState
<1>2. n \in Nat /\ t \in OpenTable(n) /\ n # 0
  BY <1>1 DEF Sound, Open!PowerOfTwo
<1>3. num_items \in Nat /\ c \in Nat
  BY <1>1, <1>2, CountNat
<1>4. Admits(t, n, k)
  <2>1. num_items + c < n
    BY <1>2, <1>3
  <2>2. QED
    BY <1>1, <2>1 DEF Admits, Held
<1>5. PICK s : s = Open!find_target_slot(t, k)
  OBVIOUS
<1>6. PICK u : u = [t EXCEPT ![s] = k]
  OBVIOUS
<1>7. Entered(t, u, n, s, k)
  BY <1>1, <1>4, <1>5, <1>6, Insertion
<1>8. s # Open!CapOf(t)
  <2>1. s \in 0..(n - 1) /\ Open!CapOf(t) = n
    BY <1>2, <1>7, CapIs DEF Entered
  <2>2. QED
    BY <1>2, <2>1
<1>9. /\ table' = u /\ num_items' = num_items + 1 /\ reply' = "yes"
      /\ num_tombstones' = c - (IF t[s] = DELETED THEN 1 ELSE 0)
  BY <1>5, <1>6, <1>8 DEF Open!raw_insert
<1>10. /\ Sound(probing, u, n)
       /\ num_items' = Count(u, n, Keys) /\ num_tombstones' = Count(u, n, {DELETED})
  BY <1>1, <1>7, <1>9 DEF Entered
<1>11. 2 * (num_items' + num_tombstones') <= n
  <2>1. num_tombstones' \in Int /\ num_tombstones' <= c
    BY <1>3, <1>9
  <2>2. QED
    BY <1>2, <1>3, <1>9, <2>1
<1>12. ASSUME NEW l \in Keys PROVE Held(u, n, l) <=> l = k \/ Held(t, n, l)
  <2>1. /\ s \in 0..(n - 1) /\ t[s] \notin Keys
        /\ \A a \in 0..(n - 1) : u[a] = IF a = s THEN k ELSE t[a]
    BY <1>7, OpenIsLegal DEF Entered
  <2>2. QED
    BY <2>1 DEF Held
<1>13. QED
  BY <1>9, <1>10, <1>11, <1>12 DEF KeyAdded, OpenState

\* The bag of a set, with one key more or less.
LEMMA Once ==
  ASSUME NEW B \in [Keys -> Nat], NEW k \in Keys
  PROVE  /\ B[k] = 0 => [B EXCEPT ![k] = @ + 1] = [l \in Keys |-> IF l = k THEN 1 ELSE B[l]]
         /\ B[k] = 1 => [B EXCEPT ![k] = @ - 1] = [l \in Keys |-> IF l = k THEN 0 ELSE B[l]]
<1>1. [B EXCEPT ![k] = @ + 1] = [l \in Keys |-> IF l = k THEN B[k] + 1 ELSE B[l]]
  BY ZenonT(30)
<1>2. [B EXCEPT ![k] = @ - 1] = [l \in Keys |-> IF l = k THEN B[k] - 1 ELSE B[l]]
  BY ZenonT(30)
<1>3. 0 + 1 = 1 /\ 1 - 1 = 0
  OBVIOUS
<1>4. QED
  BY <1>1, <1>2, <1>3

\* grow_if_needed keeps the keys and leaves room for one more.
LEMMA AddOpen ==
  ASSUME NEW n, OpenState(probing, table, n, num_items, num_tombstones), NEW k \in Keys,
         ~Held(table, n, k), Open!Add(k)
  PROVE  \E m : KeyAdded(table, m, n, k)
<1>1. /\ Sound(probing, table, n)
      /\ num_items = Count(table, n, Keys) /\ num_tombstones = Count(table, n, {DELETED})
      /\ 2 * (num_items + num_tombstones) <= n
  BY DEF OpenState
<1>2. n \in Nat \ {0} /\ n \in Nat /\ table \in OpenTable(n) /\ Open!PowerOfTwo(n) /\ n # 1
  BY <1>1 DEF Sound, Open!PowerOfTwo
<1>3. num_items \in Nat /\ num_tombstones \in Nat
  BY <1>1, <1>2, CountNat
<1>4. Open!CapOf(table) = n
  BY <1>2, CapIs
<1>5. CASE ~Open!MustGrow
  <2>1. PICK d \in Nat \ {0} : n = 2 * d
    BY <1>2, PowerHalves
  <2>2. 2 * (num_items + num_tombstones) < n
    BY <1>2, <1>3, <1>4, <1>5 DEF Open!MustGrow
  <2>3. 2 * (num_items + num_tombstones) + 2 <= n
    BY <1>3, <2>1, <2>2
  <2>4. Open!raw_insert(table, num_tombstones, k)
    BY <1>5 DEF Open!Add
  <2>5. KeyAdded(table, n, n, k)
    BY <2>3, <2>4, RawInsert
  <2>6. QED
    BY <2>5
<1>6. CASE Open!MustGrow
  <2> DEFINE N == 2 * n
             t == Open!rehash(N)
  <2>1. Open!raw_insert(t, 0, k)
    BY <1>4, <1>6 DEF Open!Add
  <2>2. Rehashed(n, N, t, n)
    BY <1>1, RehashKeeps
  <2>3. N \in Nat /\ 2 * (num_items + 0) + 2 <= N
    BY <1>1, <1>2, <1>3
  <2> HIDE DEF N, t
  <2>4. SlotsOf(table, n, Keys) = {a \in 0..(n - 1) : table[a] \in Keys}
    BY DEF SlotsOf
  <2>5. /\ Sound(probing, t, N) /\ Count(t, N, {DELETED}) = 0
        /\ Count(t, N, Keys) = num_items
    BY <1>1, <2>2, <2>4 DEF Rehashed, Count
  <2>6. \A l \in Keys : Held(t, N, l) <=> Held(table, n, l)
    BY <2>2 DEF Rehashed, Held
  <2>7. OpenState(probing, t, N, num_items, 0)
    BY <1>3, <2>3, <2>5 DEF OpenState
  <2>8. KeyAdded(t, N, N, k)
    BY <2>1, <2>3, <2>6, <2>7, RawInsert
  <2>9. KeyAdded(table, N, n, k)
    BY <2>6, <2>8 DEF KeyAdded
  <2>10. QED
    BY <2>9
<1>7. QED
  BY <1>5, <1>6

LEMMA OpenInit == Open!Init => OpenInv
<1> SUFFICES ASSUME Open!Init PROVE OpenInv
  OBVIOUS
<1>1. PICK n \in OpenSizes : table = Open!make_empty_table(n)
  BY DEF Open!Init
<1>2. Open!PowerOfTwo(n) /\ n # 1 /\ probing \in Open!Policies
  BY OpenIsLegal DEF Open!Init
<1>3. OpenState(probing, table, n, 0, 0)
  BY <1>1, <1>2, EmptyOpen
<1>4. QED
  BY <1>3 DEF Open!Init, OpenInv

\* A step keeps the invariant, and is a step of the table that is a set.
LEMMA OpenStep ==
  ASSUME OpenInv, Open!Next
  PROVE  OpenInv' /\ [Open!AsTable!Next]_<<Open!Contents, reply>>
<1> DEFINE C == Open!Contents
<1>1. PICK n : OpenState(probing, table, n, num_items, num_tombstones)
  BY DEF OpenInv
<1>2. Sound(probing, table, n) /\ probing \in Open!Policies
  BY <1>1 DEF OpenState, Sound
<1>3. probing' = probing
  BY DEF Open!Next
<1>4. C = SetOf(table, n)
  BY <1>2, OpenContents, BagIsContents
<1>5. \A k \in Keys : /\ Open!Found(k) <=> Held(table, n, k)
                      /\ C[k] = IF Held(table, n, k) THEN 1 ELSE 0
  BY <1>2, <1>4, OpenLookup DEF SetOf
<1>6. ASSUME NEW m, OpenState(probing, table', m, num_items', num_tombstones')
      PROVE  OpenInv' /\ C' = SetOf(table', m)
  <2>1. OpenInv'
    BY <1>3, <1>6 DEF OpenInv
  <2>2. Sound(probing, table', m)
    BY <1>6 DEF OpenState
  <2>3. QED
    BY <2>1, <2>2, OpenContents, BagIsContents
<1>7. ASSUME NEW b, Open!Answer(b)
      PROVE  OpenInv' /\ C' = C /\ reply' = b
  <2>1. /\ table' = table /\ num_items' = num_items /\ num_tombstones' = num_tombstones
        /\ reply' = b
    BY <1>7 DEF Open!Answer
  <2>2. OpenState(probing, table', n, num_items', num_tombstones')
    BY <1>1, <2>1
  <2>3. QED
    BY <1>4, <1>6, <2>1, <2>2
<1>8. ASSUME NEW k \in Keys, ~Open!Found(k), Open!Add(k)
      PROVE  OpenInv' /\ Open!AsTable!insert(k)
  <2>1. PICK m : KeyAdded(table, m, n, k)
    BY <1>1, <1>5, <1>8, AddOpen
  <2>2. OpenInv' /\ C' = SetOf(table', m) /\ reply' = "yes"
    BY <1>6, <2>1 DEF KeyAdded
  <2>3. C[k] = 0 /\ C \in [Keys -> Nat]
    BY <1>4, <1>5, <1>8 DEF SetOf
  <2>4. C' = [C EXCEPT ![k] = @ + 1]
    <3>1. \A l \in Keys : SetOf(table', m)[l] = IF l = k THEN 1 ELSE C[l]
      BY <1>5, <2>1 DEF KeyAdded, SetOf
    <3>2. SetOf(table', m) = [l \in Keys |-> IF l = k THEN 1 ELSE C[l]]
      BY <3>1 DEF SetOf
    <3> HIDE DEF C
    <3>3. [C EXCEPT ![k] = @ + 1] = [l \in Keys |-> IF l = k THEN 1 ELSE C[l]]
      BY <2>3, Once
    <3>4. QED
      BY <2>2, <3>2, <3>3
  <2>5. C \in Open!AsTable!Kept(C)
    BY DEF Open!AsTable!Kept
  <2>6. QED
    BY <2>2, <2>3, <2>4, <2>5 DEF Open!AsTable!insert, Open!AsTable!Add
<1>9. ASSUME NEW k \in Keys, Open!remove(k)
      PROVE  OpenInv' /\ Open!AsTable!remove(k)
  <2>1. CASE ~Open!Found(k)
    <3>1. Open!Answer("no")
      BY <1>9, <2>1 DEF Open!remove, Open!Found
    <3>2. OpenInv' /\ C' = C /\ reply' = "no" /\ C[k] = 0
      BY <1>5, <1>7, <2>1, <3>1
    <3>3. QED
      BY <3>2 DEF Open!AsTable!remove
  <2>2. CASE Open!Found(k)
    <3>1. PICK i \in Open!Passed(table, k) :
            LET slot == Open!probe(k, i, Open!CapOf(table))
            IN  /\ table[slot] = k
                /\ table' = [table EXCEPT ![slot] = DELETED]
                /\ num_items' = num_items - 1
                /\ num_tombstones' = num_tombstones + 1
                /\ reply' = "yes"
      BY <1>9, <2>2 DEF Open!remove
    <3>2. PICK s : s = Open!probe(k, i, Open!CapOf(table))
      OBVIOUS
    <3>3. /\ s \in 0..(n - 1) /\ table[s] = k
          /\ table' = [table EXCEPT ![s] = DELETED]
          /\ num_items' = num_items - 1 /\ num_tombstones' = num_tombstones + 1
          /\ reply' = "yes"
      BY <1>2, <3>1, <3>2, OpenLookup
    <3>4. Removed(table, table', n, s)
      BY <1>2, <3>3, Tombstone
    <3>5. OpenState(probing, table', n, num_items', num_tombstones')
      <4>1. /\ num_items = Count(table, n, Keys) /\ num_tombstones = Count(table, n, {DELETED})
            /\ 2 * (num_items + num_tombstones) <= n /\ n \in Nat
        BY <1>1, <1>2 DEF OpenState, Sound, Open!PowerOfTwo
      <4>2. num_items \in Nat /\ num_tombstones \in Nat
        BY <4>1, CountNat
      <4>3. 2 * (num_items' + num_tombstones') <= n
        BY <3>3, <4>1, <4>2
      <4>4. QED
        BY <3>3, <3>4, <4>1, <4>3 DEF Removed, OpenState
    <3>6. OpenInv' /\ C' = SetOf(table', n)
      BY <1>6, <3>5
    <3>7. ASSUME NEW l \in Keys PROVE Held(table', n, l) <=> l # k /\ Held(table, n, l)
      <4>1. \A a \in 0..(n - 1) : table'[a] = IF a = s THEN DELETED ELSE table[a]
        BY <3>4 DEF Removed
      <4>2. \A a \in 0..(n - 1) : table[a] = k => a = s
        BY <1>2, <3>3 DEF Sound
      <4>3. QED
        BY <3>3, <4>1, <4>2, OpenIsLegal DEF Held
    <3>8. C[k] = 1 /\ C \in [Keys -> Nat]
      BY <1>4, <1>5, <2>2 DEF SetOf
    <3>9. C' = [C EXCEPT ![k] = @ - 1]
      <4>1. \A l \in Keys : SetOf(table', n)[l] = IF l = k THEN 0 ELSE C[l]
        BY <1>5, <3>7 DEF SetOf
      <4>2. SetOf(table', n) = [l \in Keys |-> IF l = k THEN 0 ELSE C[l]]
        BY <4>1 DEF SetOf
      <4> HIDE DEF C
      <4>3. [C EXCEPT ![k] = @ - 1] = [l \in Keys |-> IF l = k THEN 0 ELSE C[l]]
        BY <3>8, Once
      <4>4. QED
        BY <3>6, <4>2, <4>3
    <3> HIDE DEF C
    <3>10. C[k] > 0
      BY <3>8
    <3>11. C' \in Open!AsTable!Kept([C EXCEPT ![k] = @ - 1])
      BY <3>9 DEF Open!AsTable!Kept
    <3>12. Open!AsTable!remove(k)
      BY <3>3, <3>10, <3>11 DEF Open!AsTable!remove, C
    <3>13. QED
      BY <3>6, <3>12
  <2>3. QED
    BY <2>1, <2>2
<1>10. ASSUME NEW m, Open!PowerOfTwo(m), m # 1, table' = Open!make_empty_table(m),
              num_items' = 0, num_tombstones' = 0
       PROVE  OpenInv' /\ C' = Open!AsTable!Empty
  <2>1. /\ OpenState(probing, table', m, num_items', num_tombstones')
        /\ \A k \in Keys : ~Held(table', m, k)
    BY <1>2, <1>10, EmptyOpen
  <2>2. OpenInv' /\ C' = SetOf(table', m)
    BY <1>6, <2>1
  <2>3. QED
    BY <2>1, <2>2 DEF SetOf, Open!AsTable!Empty
<1> HIDE DEF C
<1>11. ASSUME NEW k \in Keys, Open!insert(k)
       PROVE  OpenInv' /\ Open!AsTable!Next
  <2>1. CASE Open!Found(k)
    <3>1. Open!AsTable!insert(k) /\ OpenInv'
      BY <1>5, <1>7, <1>11, <2>1 DEF Open!insert, Open!AsTable!insert, C
    <3>2. QED
      BY <3>1 DEF Open!AsTable!Next
  <2>2. CASE ~Open!Found(k)
    BY <1>8, <1>11, <2>2 DEF Open!insert, Open!AsTable!Next
  <2>3. QED
    BY <2>1, <2>2
<1>12. ASSUME NEW k \in Keys, Open!search_or_insert(k)
       PROVE  OpenInv' /\ Open!AsTable!Next
  <2>1. CASE Open!Found(k)
    <3>1. Open!AsTable!search(k) /\ OpenInv'
      BY <1>5, <1>7, <1>12, <2>1 DEF Open!search_or_insert, Open!AsTable!search, C
    <3>2. QED
      BY <3>1 DEF Open!AsTable!Next
  <2>2. CASE ~Open!Found(k)
    BY <1>8, <1>12, <2>2 DEF Open!search_or_insert, Open!AsTable!Next
  <2>3. QED
    BY <2>1, <2>2
<1>13. ASSUME NEW k \in Keys, Open!search(k)
       PROVE  OpenInv' /\ Open!AsTable!Next
  <2>1. Open!AsTable!search(k) /\ OpenInv'
    BY <1>5, <1>7, <1>13 DEF Open!search, Open!AsTable!search, C
  <2>2. QED
    BY <2>1 DEF Open!AsTable!Next
<1>14. ASSUME Open!clear \/ Open!move_away
       PROVE  OpenInv' /\ Open!AsTable!Next
  <2>1. PICK m : Open!PowerOfTwo(m) /\ m # 1 /\ table' = Open!make_empty_table(m)
    <3>1. Open!CapOf(table) = n /\ Open!PowerOfTwo(n) /\ n # 1
      BY <1>2, CapIs DEF Sound, Open!PowerOfTwo
    <3>2. Open!PowerOfTwo(DFT_SIZE) /\ DFT_SIZE # 1
      BY OpenIsLegal
    <3>3. QED
      BY <1>14, <3>1, <3>2 DEF Open!clear, Open!move_away
  <2>2. num_items' = 0 /\ num_tombstones' = 0 /\ reply' = "yes"
    BY <1>14 DEF Open!clear, Open!move_away
  <2>3. Open!AsTable!clear /\ OpenInv'
    BY <1>10, <2>1, <2>2 DEF Open!AsTable!clear, C
  <2>4. QED
    BY <2>3 DEF Open!AsTable!Next
<1>15. QED
  BY <1>9, <1>11, <1>12, <1>13, <1>14 DEF Open!Next, Open!AsTable!Next

LEMMA OpenAlways == Spec => [](kind = "open" => OpenInv)
<1>1. Init => (kind = "open" => OpenInv)
  BY OpenInit DEF Init, ArraysInit, TablesInit
<1>2. (kind = "open" => OpenInv) /\ [Next]_vars => (kind = "open" => OpenInv)'
  <2> SUFFICES ASSUME kind = "open" => OpenInv, [Next]_vars, kind' = "open"
               PROVE  OpenInv'
    OBVIOUS
  <2>1. CASE Next
    <3>1. kind = "open" /\ OpenInv
      BY <2>1 DEF Next
    <3>2. Open!Next
      BY <2>1, <3>1 DEF Next
    <3>3. QED
      BY <3>1, <3>2, OpenStep
  <2>2. CASE UNCHANGED vars
    <3>1. /\ table' = table /\ num_items' = num_items /\ kind' = kind
          /\ num_tombstones' = num_tombstones /\ probing' = probing
      BY <2>2 DEF vars, tableVars
    <3>2. OpenInv
      BY <3>1
    <3>3. QED
      BY <3>1, <3>2 DEF OpenInv
  <2>3. QED
    BY <2>1, <2>2
<1>3. QED
  BY <1>1, <1>2, PTL DEF Spec

(***************************************************************************)
(* OpenAddressingHashTable counts its items and its tombstones exactly,    *)
(* however often it re-uses slots and rehashes: the load factor that makes *)
(* grow_if_needed rehash is the true one.                                  *)
(***************************************************************************)
THEOREM CountersStayTrue == Spec => []CountersAgree
<1>1. (kind = "open" => OpenInv) => CountersAgree
  <2> SUFFICES ASSUME kind = "open", OpenInv PROVE Open!CountersAgree
    BY DEF CountersAgree
  <2>1. PICK n : OpenState(probing, table, n, num_items, num_tombstones)
    BY DEF OpenInv
  <2>2. DOMAIN table = 0..(n - 1)
    BY <2>1 DEF OpenState, Sound, OpenTable
  <2>3. /\ num_items = Cardinality(SlotsOf(table, n, Keys))
        /\ num_tombstones = Cardinality(SlotsOf(table, n, {DELETED}))
    BY <2>1 DEF OpenState, Count
  <2>4. /\ Open!Occupied(table) = SlotsOf(table, n, Keys)
        /\ {i \in DOMAIN table : table[i] = DELETED} = SlotsOf(table, n, {DELETED})
    BY <2>2 DEF Open!Occupied, SlotsOf
  <2>5. QED
    BY <2>3, <2>4 DEF Open!CountersAgree, Open!Cardinality, Cardinality
<1>2. QED
  BY <1>1, OpenAlways, PTL

(***************************************************************************)
(* Under all three probing policies, for tables of any power of two: the   *)
(* probes for any key reach an EMPTY slot, so that find_target_slot never  *)
(* throws.                                                                 *)
(***************************************************************************)
THEOREM ProbesAlwaysEnd == Spec => []ProbesEnd
<1>1. (kind = "open" => OpenInv) => ProbesEnd
  <2> SUFFICES ASSUME kind = "open", OpenInv, NEW k \in Keys
               PROVE  Open!find_target_slot(table, k) # Open!CapOf(table)
    BY DEF ProbesEnd, Open!ProbesEnd
  <2>1. PICK n : OpenState(probing, table, n, num_items, num_tombstones)
    BY DEF OpenInv
  <2>2. /\ Open!PowerOfTwo(n) /\ n # 1 /\ n \in Nat \ {0} /\ n \in Nat
        /\ table \in OpenTable(n) /\ probing \in Open!Policies
    BY <2>1 DEF OpenState, Sound, Open!PowerOfTwo
  <2>3. Count(table, n, Keys) + Count(table, n, {DELETED}) < n
    <3>1. 2 * (Count(table, n, Keys) + Count(table, n, {DELETED})) <= n
      BY <2>1 DEF OpenState
    <3>2. Count(table, n, Keys) \in Nat /\ Count(table, n, {DELETED}) \in Nat
      BY <2>2, CountNat
    <3>3. QED
      BY <2>2, <3>1, <3>2
  <2>4. PICK a \in 0..(n - 1) : table[a] = EMPTY
    BY <2>2, <2>3, EmptySlot
  <2>5. PICK i \in 0..(n - 1) : Open!find_target_slot(table, k) = ProbeOf(probing, k, i, n)
    BY <2>2, <2>4, Target
  <2>6. ProbeOf(probing, k, i, n) \in 0..(n - 1)
    BY <2>2, ProbeInRange
  <2>7. Open!CapOf(table) = n
    BY <2>2, CapIs
  <2>8. QED
    BY <2>2, <2>5, <2>6, <2>7
<1>2. QED
  BY <1>1, OpenAlways, PTL

(***************************************************************************)
(* OpenAddressingHashTable is a set of keys: its insertions, removals,     *)
(* searches and rehashes are steps of TableSpec, with the same answers.    *)
(***************************************************************************)
THEOREM OpenTableIsTable ==
  Spec => [][kind = "open" => [Open!AsTable!Next]_<<Open!Contents, reply>>]_vars
<1>1. ASSUME kind = "open" => OpenInv, [Next]_vars
      PROVE  [kind = "open" => [Open!AsTable!Next]_<<Open!Contents, reply>>]_vars
  <2>1. CASE Next
    <3> SUFFICES ASSUME kind = "open"
                 PROVE  [Open!AsTable!Next]_<<Open!Contents, reply>>
      OBVIOUS
    <3>1. Open!Next
      BY <2>1 DEF Next
    <3>2. QED
      BY <1>1, <3>1, OpenStep
  <2>2. CASE UNCHANGED vars
    BY <2>2
  <2>3. QED
    BY <1>1, <2>1, <2>2
<1>2. QED
  BY <1>1, OpenAlways, PTL DEF Spec

-----------------------------------------------------------------------------
(* Bit, which is TwoTo under another name. *)

LEMMA BitIs ==
  /\ Ext!Bit \in [Nat -> Nat]
  /\ Ext!Bit[0] = 1
  /\ \A n \in Nat : Ext!Bit[n + 1] = 2 * Ext!Bit[n]
<1>1. Ext!Bit = CHOOSE g : g = [n \in Nat |-> IF n = 0 THEN 1 ELSE 2 * g[n - 1]]
  BY ZenonT(30) DEF Ext!Bit
<1>2. Ext!Bit = Union!TwoTo
  BY <1>1, TwoToDef
<1>3. QED
  BY <1>2, TwoToMaps

LEMMA BitPositive == \A n \in Nat : Ext!Bit[n] \in Nat /\ Ext!Bit[n] > 0
<1> DEFINE B == Ext!Bit
           T == {n \in Nat : ~(B[n] > 0)}
<1>1. B \in [Nat -> Nat] /\ B[0] = 1 /\ \A n \in Nat : B[n + 1] = 2 * B[n]
  BY BitIs
<1> HIDE DEF B
<1>2. ASSUME T # {} PROVE FALSE
  <2>1. PICK m \in T : \A n \in T : m <= n
    <3>1. T \subseteq Nat
      OBVIOUS
    <3> HIDE DEF T
    <3>2. QED
      BY <1>2, <3>1, LeastOf
  <2>2. m \in Nat /\ ~(B[m] > 0)
    OBVIOUS
  <2>3. m # 0
    BY <1>1, <2>2
  <2>4. m - 1 \in Nat /\ ~(m <= m - 1) /\ m = (m - 1) + 1
    BY <2>2, <2>3
  <2>5. B[m - 1] > 0 /\ B[m - 1] \in Nat
    BY <1>1, <2>1, <2>4
  <2>6. QED
    BY <1>1, <2>2, <2>4, <2>5
<1>3. QED
  BY <1>1, <1>2 DEF B

LEMMA BitAdds ==
  ASSUME NEW m \in Nat
  PROVE  \A n \in Nat : Ext!Bit[m + n] = Ext!Bit[m] * Ext!Bit[n]
<1> DEFINE B == Ext!Bit
           T == {n \in Nat : B[m + n] # B[m] * B[n]}
<1>1. B \in [Nat -> Nat] /\ B[0] = 1 /\ \A n \in Nat : B[n + 1] = 2 * B[n]
  BY BitIs
<1> HIDE DEF B
<1>2. ASSUME T # {} PROVE FALSE
  <2>1. PICK i \in T : \A n \in T : i <= n
    <3>1. T \subseteq Nat
      OBVIOUS
    <3> HIDE DEF T
    <3>2. QED
      BY <1>2, <3>1, LeastOf
  <2>2. i \in Nat /\ B[m + i] # B[m] * B[i]
    OBVIOUS
  <2>3. i # 0
    <3>1. m + 0 = m /\ B[m] * 1 = B[m]
      BY <1>1
    <3>2. QED
      BY <1>1, <2>2, <3>1
  <2>4. PICK j \in Nat : i = j + 1
    <3>1. i - 1 \in Nat /\ i = (i - 1) + 1
      BY <2>2, <2>3
    <3>2. QED
      BY <3>1
  <2>5. ~(i <= j)
    BY <2>4
  <2>6. B[m + j] = B[m] * B[j]
    BY <2>1, <2>5
  <2>7. B[i] = 2 * B[j] /\ B[m + i] = 2 * B[m + j]
    <3>1. m + j \in Nat /\ m + i = (m + j) + 1
      BY <2>4
    <3>2. QED
      BY <1>1, <2>4, <3>1
  <2>8. B[m] * (2 * B[j]) = 2 * (B[m] * B[j])
    BY <1>1
  <2>9. QED
    BY <2>2, <2>6, <2>7, <2>8
<1>3. QED
  BY <1>2 DEF B

\* Division by c, when the quotient and the remainder are known.
LEMMA Remainder ==
  ASSUME NEW c \in Nat, c > 0, NEW q \in Nat, NEW s \in 0..(c - 1), NEW a, a = c * q + s
  PROVE  a \in Nat /\ a % c = s /\ a \div c = q
<1> DEFINE D == a \div c
           R == a % c
<1>1. c * q \in Nat /\ a \in Nat
  OBVIOUS
<1>2. D \in Nat /\ R \in Nat /\ R < c /\ a = c * D + R
  BY <1>1
<1> HIDE DEF D, R
<1>3. ~(D + 1 <= q)
  <2> SUFFICES ASSUME D + 1 <= q PROVE FALSE
    OBVIOUS
  <2>1. c * (D + 1) <= c * q /\ c * (D + 1) = c * D + c
    BY <1>2
  <2>2. c * D \in Nat
    BY <1>2
  <2>3. QED
    BY <1>1, <1>2, <2>1, <2>2
<1>4. ~(q + 1 <= D)
  <2> SUFFICES ASSUME q + 1 <= D PROVE FALSE
    OBVIOUS
  <2>1. c * (q + 1) <= c * D /\ c * (q + 1) = c * q + c
    BY <1>2
  <2>2. c * D \in Nat
    BY <1>2
  <2>3. QED
    BY <1>1, <1>2, <2>1, <2>2
<1>5. D = q
  BY <1>2, <1>3, <1>4
<1>6. R = s
  BY <1>1, <1>2, <1>5
<1>7. QED
  BY <1>1, <1>5, <1>6 DEF D, R

Parts(a, c, q, s) ==
  q \in Nat /\ s \in 0..(c - 1) /\ a = c * q + s /\ a % c = s /\ a \div c = q

LEMMA Division ==
  ASSUME NEW a \in Nat, NEW c \in Nat, c > 0
  PROVE  \E q, s : Parts(a, c, q, s)
<1>1. a \div c \in Nat /\ a % c \in 0..(c - 1) /\ a = c * (a \div c) + (a % c)
  OBVIOUS
<1>2. Parts(a, c, a \div c, a % c)
  BY <1>1 DEF Parts
<1>3. QED
  BY <1>2

\* The last bits of the last bits.
LEMMA LastBits ==
  ASSUME NEW a \in Nat, NEW m \in Nat, NEW n \in Nat, m <= n
  PROVE  (a % Ext!Bit[n]) % Ext!Bit[m] = a % Ext!Bit[m]
<1>1. n - m \in Nat /\ m + (n - m) = n
  OBVIOUS
<1>2. PICK M \in Nat : M = Ext!Bit[m] /\ M > 0
  BY BitPositive
<1>3. PICK N \in Nat : N = Ext!Bit[n] /\ N > 0
  BY BitPositive
<1>4. PICK Q \in Nat : Q = Ext!Bit[n - m]
  BY <1>1, BitPositive
<1>5. N = M * Q
  BY <1>1, <1>2, <1>3, <1>4, BitAdds
<1>6. PICK q \in Nat, s \in Nat : a = N * q + s /\ a % N = s
  <2>1. PICK q, s : Parts(a, N, q, s)
    BY <1>3, Division
  <2>2. q \in Nat /\ s \in Nat /\ a = N * q + s /\ a % N = s
    BY <1>3, <2>1 DEF Parts
  <2>3. QED
    BY <2>2
<1>7. PICK c \in Nat, e \in 0..(M - 1) : s = M * c + e /\ s % M = e
  <2>1. PICK c, e : Parts(s, M, c, e)
    BY <1>2, Division
  <2>2. c \in Nat /\ e \in 0..(M - 1) /\ s = M * c + e /\ s % M = e
    BY <2>1 DEF Parts
  <2>3. QED
    BY <2>2
<1>8. PICK d \in Nat : d = Q * q + c
  OBVIOUS
<1>9. a = M * d + e
  <2>1. (M * Q) * q = M * (Q * q) /\ M * (Q * q + c) = M * (Q * q) + M * c
    OBVIOUS
  <2>2. QED
    BY <1>5, <1>6, <1>7, <1>8, <2>1
<1>10. a % M = e
  BY <1>2, <1>9, Remainder
<1>11. QED
  BY <1>2, <1>3, <1>6, <1>7, <1>10

\* The bit above the last d divides the numbers that end in p.
LEMMA Halves ==
  ASSUME NEW a \in Nat, NEW d \in Nat, NEW p \in 0..(Ext!Bit[d] - 1)
  PROVE  /\ a % Ext!Bit[d + 1] = p <=> a % Ext!Bit[d] = p /\ ~Ext!BitSet(a, d)
         /\ a % Ext!Bit[d + 1] = p + Ext!Bit[d] <=> a % Ext!Bit[d] = p /\ Ext!BitSet(a, d)
<1>1. PICK P \in Nat : P = Ext!Bit[d] /\ P > 0
  BY BitPositive
<1>2. Ext!Bit[d + 1] = 2 * P
  BY <1>1, BitIs
<1>3. PICK q \in Nat, s \in 0..(P - 1) : a = P * q + s /\ a % P = s /\ a \div P = q
  <2>1. PICK q, s : Parts(a, P, q, s)
    BY <1>1, Division
  <2>2. q \in Nat /\ s \in 0..(P - 1) /\ a = P * q + s /\ a % P = s /\ a \div P = q
    BY <2>1 DEF Parts
  <2>3. QED
    BY <2>2
<1>4. PICK c \in Nat, e \in 0..1 : q = 2 * c + e /\ q % 2 = e
  <2>1. q = 2 * (q \div 2) + (q % 2) /\ q \div 2 \in Nat /\ q % 2 \in 0..1
    OBVIOUS
  <2>2. QED
    BY <2>1
<1>5. PICK z : z = P * e + s
  OBVIOUS
<1>6. z = (IF e = 1 THEN P + s ELSE s) /\ z \in 0..(2 * P - 1)
  <2>1. P * 0 = 0 /\ P * 1 = P /\ (e = 0 \/ e = 1)
    OBVIOUS
  <2>2. QED
    BY <1>1, <1>5, <2>1
<1>7. a = (2 * P) * c + z
  <2>1. P * (2 * c + e) = (2 * P) * c + P * e
    OBVIOUS
  <2>2. QED
    BY <1>3, <1>4, <1>5, <2>1
<1>8. a % (2 * P) = z
  <2>1. PICK C \in Nat : C = 2 * P
    OBVIOUS
  <2>2. a = C * c + z /\ z \in 0..(C - 1) /\ C > 0
    BY <1>1, <1>6, <1>7, <2>1
  <2>3. a % C = z
    BY <2>2, Remainder
  <2>4. QED
    BY <2>1, <2>3
<1>9. Ext!BitSet(a, d) <=> e = 1
  BY <1>1, <1>3, <1>4 DEF Ext!BitSet
<1>10. p \in 0..(P - 1)
  BY <1>1
<1>11. (z = p <=> s = p /\ e # 1) /\ (z = p + P <=> s = p /\ e = 1)
  BY <1>1, <1>6, <1>10
<1>12. QED
  BY <1>1, <1>2, <1>3, <1>8, <1>9, <1>11

-----------------------------------------------------------------------------
(* The extendible table as a record of its members.                        *)

ExtBuckets == [local_depth : Nat, keys : SUBSET Keys, deleted : BOOLEAN]
Row(t) == 0..(Ext!Bit[t.global_depth] - 1)
ExtTables ==
  [global_depth : Nat, directory : UNION {[0..(Ext!Bit[n] - 1) -> Nat] : n \in Nat},
   all_buckets : Seq(ExtBuckets)]

\* The slots and the keys of bucket b are those that end in p.
EndsIn(t, b, p) ==
  /\ p \in 0..(Ext!Bit[t.all_buckets[b].local_depth] - 1)
  /\ \A i \in Row(t) :
       t.directory[i] = b <=> i % Ext!Bit[t.all_buckets[b].local_depth] = p
  /\ \A k \in t.all_buckets[b].keys : Hash[k] % Ext!Bit[t.all_buckets[b].local_depth] = p

GoodBucket(t, b) ==
  /\ t.all_buckets[b] \in ExtBuckets
  /\ t.all_buckets[b].local_depth <= t.global_depth
  /\ Cardinality(t.all_buckets[b].keys) <= BUCKET_CAPACITY
  /\ \E p : EndsIn(t, b, p)

Good(t) ==
  /\ t \in ExtTables
  /\ t.directory \in [Row(t) -> 1..Len(t.all_buckets)]
  /\ \A b \in 1..Len(t.all_buckets) : GoodBucket(t, b)

LEMMA ExtIsLegal ==
  /\ HashBits \in Nat /\ BUCKET_CAPACITY \in Nat
  /\ \A k \in Keys : /\ Hash[k] \in Nat /\ Hash[k] < Ext!Bit[HashBits]
                     /\ Cardinality({l \in Keys : Hash[l] = Hash[k]}) <= BUCKET_CAPACITY
<1>1. HashBits \in Nat /\ BUCKET_CAPACITY \in Nat /\ Ext!NoHashFlood
  BY TablesAreLegal DEF Ext!Legal
<1>2. \A k \in Keys : /\ Hash[k] < Ext!Bit[HashBits]
                      /\ Cardinality({l \in Keys : Hash[l] = Hash[k]}) <= BUCKET_CAPACITY
  BY <1>1 DEF Ext!NoHashFlood, Ext!Cardinality, Cardinality
<1>3. QED
  BY <1>1, <1>2, ChainedIsLegal

LEMMA GoodTyped ==
  ASSUME NEW t, Good(t)
  PROVE  /\ t.global_depth \in Nat /\ DOMAIN t.directory = Row(t)
         /\ t.all_buckets \in Seq(ExtBuckets) /\ Len(t.all_buckets) \in Nat
         /\ DOMAIN t.all_buckets = 1..Len(t.all_buckets)
         /\ \A i \in Row(t) : i \in Nat /\ t.directory[i] \in 1..Len(t.all_buckets)
         /\ \A b \in 1..Len(t.all_buckets) :
              /\ t.all_buckets[b].local_depth \in Nat
              /\ t.all_buckets[b].local_depth <= t.global_depth
              /\ t.all_buckets[b].keys \subseteq Keys
<1>1. t.global_depth \in Nat /\ t.all_buckets \in Seq(ExtBuckets)
  BY DEF Good, ExtTables
<1>2. t.directory \in [Row(t) -> 1..Len(t.all_buckets)]
  BY DEF Good
<1>3. Row(t) \subseteq Nat
  BY <1>1, BitPositive DEF Row
<1>4. \A b \in 1..Len(t.all_buckets) : GoodBucket(t, b)
  BY DEF Good
<1>5. \A b \in 1..Len(t.all_buckets) :
        /\ t.all_buckets[b].local_depth \in Nat
        /\ t.all_buckets[b].local_depth <= t.global_depth
        /\ t.all_buckets[b].keys \subseteq Keys
  BY <1>4 DEF GoodBucket, ExtBuckets
<1>6. QED
  BY <1>1, <1>2, <1>3, <1>5

\* A key is looked for in the one bucket that may have it.
LEMMA ExtFinds ==
  ASSUME NEW t, Good(t), NEW k \in Keys
  PROVE  /\ Ext!find_bucket(t, k) \in 1..Len(t.all_buckets)
         /\ \A p : EndsIn(t, Ext!find_bucket(t, k), p) =>
              Hash[k] % Ext!Bit[t.all_buckets[Ext!find_bucket(t, k)].local_depth] = p
         /\ \A b \in 1..Len(t.all_buckets) :
              k \in t.all_buckets[b].keys => b = Ext!find_bucket(t, k)
<1> DEFINE i == Hash[k] % Ext!Bit[t.global_depth]
           f0 == Ext!find_bucket(t, k)
<1>1. Hash[k] \in Nat
  BY ExtIsLegal
<1>2. t.global_depth \in Nat
  BY GoodTyped
<1>3. i \in Row(t)
  <2>1. Ext!Bit[t.global_depth] \in Nat /\ Ext!Bit[t.global_depth] > 0
    BY <1>2, BitPositive
  <2>2. QED
    BY <1>1, <2>1 DEF Row
<1>4. f0 = t.directory[i]
  BY DEF Ext!find_bucket
<1> HIDE DEF f0
<1>5. \A b \in 1..Len(t.all_buckets) :
        i % Ext!Bit[t.all_buckets[b].local_depth] = Hash[k] % Ext!Bit[t.all_buckets[b].local_depth]
  BY <1>1, <1>2, GoodTyped, LastBits
<1> HIDE DEF i
<1>6. f0 \in 1..Len(t.all_buckets)
  BY <1>3, <1>4, GoodTyped
<1>7. ASSUME NEW p, EndsIn(t, f0, p)
      PROVE  Hash[k] % Ext!Bit[t.all_buckets[f0].local_depth] = p
  BY <1>3, <1>4, <1>5, <1>6, <1>7 DEF EndsIn
<1>8. ASSUME NEW b \in 1..Len(t.all_buckets), k \in t.all_buckets[b].keys
      PROVE  b = f0
  <2>1. PICK p : EndsIn(t, b, p)
    BY DEF Good, GoodBucket
  <2>2. Hash[k] % Ext!Bit[t.all_buckets[b].local_depth] = p
    BY <1>8, <2>1 DEF EndsIn
  <2>3. QED
    BY <1>3, <1>4, <1>5, <2>1, <2>2 DEF EndsIn
<1>9. QED
  BY <1>6, <1>7, <1>8 DEF f0

LEMMA ExtHas ==
  ASSUME NEW t, Good(t), NEW k \in Keys
  PROVE  Ext!Has(t, k) <=> k \in Ext!KeysOf(t)
<1>1. DOMAIN t.all_buckets = 1..Len(t.all_buckets)
  BY GoodTyped
<1>2. PICK b : b = Ext!find_bucket(t, k)
  OBVIOUS
<1>3. /\ b \in 1..Len(t.all_buckets)
      /\ \A c \in 1..Len(t.all_buckets) : k \in t.all_buckets[c].keys => c = b
  BY <1>2, ExtFinds
<1>4. Ext!Has(t, k) <=> k \in t.all_buckets[b].keys
  BY <1>2 DEF Ext!Has
<1>5. k \in Ext!KeysOf(t) <=> \E c \in 1..Len(t.all_buckets) : k \in t.all_buckets[c].keys
  <2>1. PICK D, all : D = DOMAIN t.all_buckets /\ all = t.all_buckets
    OBVIOUS
  <2>2. Ext!KeysOf(t) = UNION {all[c].keys : c \in D}
    BY <2>1 DEF Ext!KeysOf
  <2>3. k \in UNION {all[c].keys : c \in D} <=> \E c \in D : k \in all[c].keys
    OBVIOUS
  <2>4. QED
    BY <1>1, <2>1, <2>2, <2>3
<1>6. QED
  BY <1>3, <1>4, <1>5

\* The same buckets, each with the slots that end as before.
Twice(t, u) ==
  /\ Good(u) /\ u.all_buckets = t.all_buckets /\ u.global_depth = t.global_depth + 1
  /\ \A k \in Keys : Ext!find_bucket(u, k) = Ext!find_bucket(t, k)

LEMMA Doubled ==
  ASSUME NEW t, Good(t)
  PROVE  Twice(t, Ext!double_directory(t))
<1> DEFINE g == t.global_depth
           dir == [i \in 0..(Ext!Bit[g + 1] - 1) |-> t.directory[i % Ext!Bit[g]]]
           u == Ext!double_directory(t)
           n == Len(t.all_buckets)
<1>1. /\ u.global_depth = g + 1 /\ u.directory = dir /\ u.all_buckets = t.all_buckets
      /\ u = [t EXCEPT !.directory = dir, !.global_depth = g + 1]
  <2>1. t = [global_depth |-> g, directory |-> t.directory, all_buckets |-> t.all_buckets]
    BY DEF Good, ExtTables
  <2>2. u = [t EXCEPT !.directory = dir, !.global_depth = g + 1]
    BY DEF Ext!double_directory
  <2> HIDE DEF u, dir, g
  <2>3. QED
    BY <2>1, <2>2
<1>2. g \in Nat /\ g + 1 \in Nat /\ g <= g + 1
  BY GoodTyped
<1>3. Ext!Bit[g] \in Nat /\ Ext!Bit[g] > 0 /\ Ext!Bit[g + 1] \in Nat /\ Ext!Bit[g + 1] > 0
  BY <1>2, BitPositive
<1>4. Row(t) = 0..(Ext!Bit[g] - 1) /\ Row(u) = 0..(Ext!Bit[g + 1] - 1)
  BY <1>1 DEF Row
<1>5. \A i \in Row(u) : /\ i \in Nat /\ i % Ext!Bit[g] \in Row(t)
                        /\ u.directory[i] = t.directory[i % Ext!Bit[g]]
  BY <1>1, <1>3, <1>4
<1>6. u.directory \in [Row(u) -> 1..n]
  <2>1. \A i \in Row(t) : t.directory[i] \in 1..n
    BY GoodTyped
  <2>2. DOMAIN u.directory = Row(u) /\ u.directory = [i \in Row(u) |-> u.directory[i]]
    BY <1>1, <1>4
  <2> HIDE DEF u, n
  <2>3. QED
    BY <1>5, <2>1, <2>2
<1>7. u \in ExtTables
  <2>1. t.all_buckets \in Seq(ExtBuckets) /\ n \in Nat
    BY GoodTyped
  <2>2. u.directory \in [0..(Ext!Bit[g + 1] - 1) -> Nat]
    BY <1>4, <1>6, <2>1
  <2>3. dir \in UNION {[0..(Ext!Bit[m] - 1) -> Nat] : m \in Nat}
    BY <1>1, <1>2, <2>2
  <2>4. t \in ExtTables
    BY DEF Good
  <2> HIDE DEF dir, u, g
  <2>5. QED
    BY <1>1, <1>2, <2>3, <2>4 DEF ExtTables
<1>8. ASSUME NEW b \in 1..n PROVE GoodBucket(u, b)
  <2>1. GoodBucket(t, b)
    BY DEF Good
  <2>2. PICK p : EndsIn(t, b, p)
    BY <2>1 DEF GoodBucket
  <2> DEFINE d == t.all_buckets[b].local_depth
  <2>3. d \in Nat /\ d <= g
    BY GoodTyped
  <2>4. u.all_buckets[b] = t.all_buckets[b]
    BY <1>1
  <2>5. \A i \in Row(u) : (i % Ext!Bit[g]) % Ext!Bit[d] = i % Ext!Bit[d]
    BY <1>2, <1>5, <2>3, LastBits
  <2> HIDE DEF u
  <2>6. EndsIn(u, b, p)
    <3>1. \A i \in Row(t) : t.directory[i] = b <=> i % Ext!Bit[d] = p
      BY <2>2 DEF EndsIn
    <3> HIDE DEF d, g
    <3>2. \A i \in Row(u) : u.directory[i] = b <=> i % Ext!Bit[d] = p
      BY <1>5, <2>5, <3>1
    <3>3. QED
      BY <2>2, <2>4, <3>2 DEF EndsIn, d
  <2>7. u.all_buckets[b].local_depth <= u.global_depth
    BY <1>1, <1>2, <2>3, <2>4
  <2>8. QED
    BY <2>1, <2>4, <2>6, <2>7 DEF GoodBucket
<1>9. ASSUME NEW k \in Keys
      PROVE  Ext!find_bucket(u, k) = Ext!find_bucket(t, k)
  <2>1. Hash[k] \in Nat
    BY ExtIsLegal
  <2>2. Hash[k] % Ext!Bit[g + 1] \in Row(u)
    BY <1>3, <1>4, <2>1
  <2>3. (Hash[k] % Ext!Bit[g + 1]) % Ext!Bit[g] = Hash[k] % Ext!Bit[g]
    BY <1>2, <2>1, LastBits
  <2>4. /\ Ext!find_bucket(u, k) = u.directory[Hash[k] % Ext!Bit[g + 1]]
        /\ Ext!find_bucket(t, k) = t.directory[Hash[k] % Ext!Bit[g]]
    <3>1. u.global_depth = g + 1
      BY <1>1
    <3> HIDE DEF u
    <3>2. QED
      BY <3>1, Zenon DEF Ext!find_bucket
  <2>5. PICK h : h = Hash[k] % Ext!Bit[g + 1]
    OBVIOUS
  <2>6. u.directory[h] = t.directory[h % Ext!Bit[g]]
    BY <1>5, <2>2, <2>5
  <2> HIDE DEF u, g
  <2>7. QED
    BY <2>3, <2>4, <2>5, <2>6
<1>10. Good(u)
  <2> HIDE DEF u
  <2>1. QED
    BY <1>1, <1>6, <1>7, <1>8 DEF Good
<1>11. QED
  BY <1>1, <1>9, <1>10 DEF Twice

\* split_bucket, once the directory is large enough.
Divide(t, b) ==
  LET pos == t.all_buckets[b].local_depth
      new == Len(t.all_buckets) + 1
      moving == {k \in t.all_buckets[b].keys : Ext!BitSet(Hash[k], pos)}
      left == [t.all_buckets EXCEPT ![b].local_depth = pos + 1, ![b].keys = @ \ moving]
  IN  [t EXCEPT
         !.directory = [i \in DOMAIN @ |->
                          IF @[i] = b /\ Ext!BitSet(i, pos) THEN new ELSE @[i]],
         !.all_buckets = Append(left, [Ext!Bucket(pos + 1) EXCEPT !.keys = moving])]

LEMMA SplitDivides ==
  ASSUME NEW t, NEW b
  PROVE  Ext!split_bucket(t, b) =
           Divide(IF t.all_buckets[b].local_depth = t.global_depth
                  THEN Ext!double_directory(t) ELSE t, b)
BY Zenon DEF Ext!split_bucket, Divide

\* Slot by slot and bucket by bucket.
Divided(t, b, u) ==
  LET pos == t.all_buckets[b].local_depth
      new == Len(t.all_buckets) + 1
      old == t.all_buckets[b]
  IN  /\ u \in ExtTables /\ u.global_depth = t.global_depth
      /\ DOMAIN u.directory = Row(t)
      /\ \A i \in Row(t) : u.directory[i] = IF t.directory[i] = b /\ Ext!BitSet(i, pos)
                                            THEN new ELSE t.directory[i]
      /\ Len(u.all_buckets) = new
      /\ \A c \in 1..Len(t.all_buckets) : c # b => u.all_buckets[c] = t.all_buckets[c]
      /\ u.all_buckets[b] = [local_depth |-> pos + 1, deleted |-> old.deleted,
                             keys |-> {k \in old.keys : ~Ext!BitSet(Hash[k], pos)}]
      /\ u.all_buckets[new] = [local_depth |-> pos + 1, deleted |-> FALSE,
                               keys |-> {k \in old.keys : Ext!BitSet(Hash[k], pos)}]

LEMMA Appended ==
  ASSUME NEW S, NEW s \in Seq(S), NEW x \in S
  PROVE  /\ Append(s, x) \in Seq(S) /\ Len(Append(s, x)) = Len(s) + 1
         /\ Append(s, x)[Len(s) + 1] = x
         /\ \A c \in 1..Len(s) : Append(s, x)[c] = s[c]
OBVIOUS

LEMMA DivideDivides ==
  ASSUME NEW t, Good(t), NEW b \in 1..Len(t.all_buckets)
  PROVE  Divided(t, b, Divide(t, b))
<1> DEFINE pos == t.all_buckets[b].local_depth
           new == Len(t.all_buckets) + 1
           old == t.all_buckets[b]
           moving == {k \in old.keys : Ext!BitSet(Hash[k], pos)}
           dir == [i \in DOMAIN t.directory |->
                     IF t.directory[i] = b /\ Ext!BitSet(i, pos) THEN new ELSE t.directory[i]]
           first == [old EXCEPT !.local_depth = pos + 1, !.keys = @ \ moving]
           second == [Ext!Bucket(pos + 1) EXCEPT !.keys = moving]
           olds == [t.all_buckets EXCEPT ![b] = first]
           u == Divide(t, b)
<1>1. /\ t.global_depth \in Nat /\ DOMAIN t.directory = Row(t)
      /\ t.all_buckets \in Seq(ExtBuckets) /\ Len(t.all_buckets) \in Nat
      /\ pos \in Nat /\ old.keys \subseteq Keys
      /\ \A i \in Row(t) : t.directory[i] \in 1..Len(t.all_buckets)
  BY GoodTyped
<1>2. t = [global_depth |-> t.global_depth, directory |-> t.directory,
           all_buckets |-> t.all_buckets]
  BY DEF Good, ExtTables
<1>3. old \in ExtBuckets
  BY <1>1
<1>4. u = [t EXCEPT !.directory = dir, !.all_buckets = Append(olds, second)]
  <2> DEFINE both == [t.all_buckets EXCEPT ![b].local_depth = pos + 1, ![b].keys = @ \ moving]
  <2>1. both = [t.all_buckets EXCEPT ![b] = first]
    OBVIOUS
  <2>2. u = [t EXCEPT !.directory = dir, !.all_buckets = Append(both, second)]
    BY DEF Divide
  <2> HIDE DEF u, dir, both, first, second
  <2>3. QED
    BY <2>1, <2>2
<1>5. /\ first \in ExtBuckets /\ second \in ExtBuckets
      /\ first = [local_depth |-> pos + 1, deleted |-> old.deleted,
                  keys |-> {k \in old.keys : ~Ext!BitSet(Hash[k], pos)}]
      /\ second = [local_depth |-> pos + 1, deleted |-> FALSE, keys |-> moving]
  <2>1. pos + 1 \in Nat /\ moving \subseteq Keys /\ old.keys \ moving \subseteq Keys
    BY <1>1
  <2>2. old.keys \ moving = {k \in old.keys : ~Ext!BitSet(Hash[k], pos)}
    OBVIOUS
  <2>3. Ext!Bucket(pos + 1) \in ExtBuckets /\ Ext!Bucket(pos + 1).local_depth = pos + 1
        /\ Ext!Bucket(pos + 1).deleted = FALSE
    BY <2>1 DEF Ext!Bucket, ExtBuckets
  <2> HIDE DEF moving, pos, old
  <2>4. first \in ExtBuckets /\ first.local_depth = pos + 1 /\ first.deleted = old.deleted
        /\ first.keys = old.keys \ moving
    BY <1>3, <2>1 DEF ExtBuckets
  <2>5. second \in ExtBuckets /\ second.local_depth = pos + 1 /\ second.deleted = FALSE
        /\ second.keys = moving
    BY <2>1, <2>3 DEF ExtBuckets
  <2> HIDE DEF first, second
  <2>6. first = [local_depth |-> pos + 1, deleted |-> old.deleted, keys |-> old.keys \ moving]
    BY <2>4 DEF ExtBuckets
  <2>7. second = [local_depth |-> pos + 1, deleted |-> FALSE, keys |-> moving]
    BY <2>5 DEF ExtBuckets
  <2>8. QED
    BY <2>2, <2>4, <2>5, <2>6, <2>7 DEF moving, pos, old
<1>6. /\ olds \in Seq(ExtBuckets) /\ Len(olds) = Len(t.all_buckets)
      /\ olds[b] = first
      /\ \A c \in 1..Len(t.all_buckets) : c # b => olds[c] = t.all_buckets[c]
  <2> HIDE DEF first
  <2>1. QED
    BY <1>1, <1>5
<1> DEFINE bs == Append(olds, second)
<1>7. /\ bs \in Seq(ExtBuckets) /\ Len(bs) = new /\ bs[b] = first /\ bs[new] = second
      /\ \A c \in 1..Len(t.all_buckets) : c # b => bs[c] = t.all_buckets[c]
  <2>1. b \in Nat /\ b <= Len(t.all_buckets)
    BY <1>1
  <2> HIDE DEF first, second, olds
  <2>2. bs \in Seq(ExtBuckets) /\ Len(bs) = new /\ bs[new] = second
        /\ \A c \in 1..Len(olds) : bs[c] = olds[c]
    <3>1. second \in ExtBuckets /\ olds \in Seq(ExtBuckets) /\ Len(olds) + 1 = new
      BY <1>5, <1>6
    <3>2. QED
      BY <3>1, Appended
  <2> HIDE DEF bs
  <2>3. QED
    BY <1>6, <2>1, <2>2
<1>8. /\ DOMAIN dir = Row(t)
      /\ \A i \in Row(t) : dir[i] = IF t.directory[i] = b /\ Ext!BitSet(i, pos)
                                    THEN new ELSE t.directory[i]
      /\ dir \in UNION {[0..(Ext!Bit[m] - 1) -> Nat] : m \in Nat}
  <2>1. /\ DOMAIN dir = Row(t)
        /\ \A i \in Row(t) : dir[i] = IF t.directory[i] = b /\ Ext!BitSet(i, pos)
                                      THEN new ELSE t.directory[i]
    BY <1>1
  <2>2. \A i \in Row(t) : dir[i] \in Nat
    BY <1>1, <2>1
  <2>3. dir = [i \in DOMAIN dir |-> dir[i]]
    OBVIOUS
  <2> HIDE DEF dir
  <2>4. dir \in [Row(t) -> Nat]
    BY <2>1, <2>2, <2>3
  <2>5. QED
    BY <1>1, <2>1, <2>4 DEF Row
<1>9. u \in ExtTables /\ u.global_depth = t.global_depth /\ u.directory = dir /\ u.all_buckets = bs
  <2>1. t \in ExtTables
    BY DEF Good
  <2>2. u = [t EXCEPT !.directory = dir, !.all_buckets = bs]
    BY <1>4
  <2> HIDE DEF u, dir, bs
  <2>3. QED
    BY <1>7, <1>8, <2>1, <2>2 DEF ExtTables
<1> HIDE DEF u, dir, bs, first, second
<1>10. QED
  BY <1>5, <1>7, <1>8, <1>9 DEF Divided, u

\* What split_bucket leaves: the same keys, and b in two halves.
SplitOf(t, b, u) ==
  /\ Good(u) /\ Ext!KeysOf(u) = Ext!KeysOf(t)
  /\ \A k \in Keys : Ext!find_bucket(t, k) = b =>
       u.all_buckets[Ext!find_bucket(u, k)].local_depth = t.all_buckets[b].local_depth + 1

LEMMA DividedIsGood ==
  ASSUME NEW t, Good(t), NEW b \in 1..Len(t.all_buckets), NEW u, Divided(t, b, u),
         t.all_buckets[b].local_depth # t.global_depth
  PROVE  SplitOf(t, b, u)
<1> DEFINE d == t.all_buckets[b].local_depth
           n == Len(t.all_buckets)
           old == t.all_buckets[b]
           P == Ext!Bit[d]
<1>1. /\ t.global_depth \in Nat /\ n \in Nat /\ b \in Nat /\ b <= n
      /\ d \in Nat /\ d + 1 <= t.global_depth /\ d + 1 \in Nat /\ old.keys \subseteq Keys
  <2>1. d <= t.global_depth
    BY GoodTyped
  <2>2. QED
    BY <2>1, GoodTyped
<1>2. /\ u \in ExtTables /\ u.global_depth = t.global_depth /\ Row(u) = Row(t)
      /\ DOMAIN u.directory = Row(t) /\ Len(u.all_buckets) = n + 1
      /\ \A c \in 1..n : c # b => u.all_buckets[c] = t.all_buckets[c]
  BY DEF Divided, Row
<1>3. \A i \in Row(t) : /\ i \in Nat /\ t.directory[i] \in 1..n /\ t.directory[i] # n + 1
                        /\ u.directory[i] = IF t.directory[i] = b /\ Ext!BitSet(i, d)
                                            THEN n + 1 ELSE t.directory[i]
  <2>1. \A i \in Row(t) : i \in Nat /\ t.directory[i] \in 1..n
    BY GoodTyped
  <2>2. \A i \in Row(t) : u.directory[i] = IF t.directory[i] = b /\ Ext!BitSet(i, d)
                                           THEN n + 1 ELSE t.directory[i]
    BY DEF Divided
  <2>3. \A c \in 1..n : c # n + 1
    BY <1>1
  <2>4. QED
    BY <2>1, <2>2, <2>3
<1>4. /\ u.all_buckets[b].local_depth = d + 1 /\ u.all_buckets[n + 1].local_depth = d + 1
      /\ u.all_buckets[b].keys = {k \in old.keys : ~Ext!BitSet(Hash[k], d)}
      /\ u.all_buckets[n + 1].keys = {k \in old.keys : Ext!BitSet(Hash[k], d)}
  BY DEF Divided
<1>5. PICK p : EndsIn(t, b, p)
  BY DEF Good, GoodBucket
<1>6. P \in Nat /\ P > 0 /\ Ext!Bit[d + 1] = 2 * P
  BY <1>1, BitPositive, BitIs
<1>7. p \in 0..(P - 1)
  BY <1>5 DEF EndsIn
<1>8. \A a \in Nat : /\ a % Ext!Bit[d + 1] = p <=> a % P = p /\ ~Ext!BitSet(a, d)
                     /\ a % Ext!Bit[d + 1] = p + P <=> a % P = p /\ Ext!BitSet(a, d)
  <2>1. p \in 0..(Ext!Bit[d] - 1)
    BY <1>7
  <2> HIDE DEF d, old
  <2>2. QED
    BY <1>1, <2>1, Halves
<1>9. \A i \in Row(t) : t.directory[i] = b <=> i % P = p
  BY <1>5 DEF EndsIn
<1>10. \A k \in old.keys : k \in Keys /\ Hash[k] \in Nat /\ Hash[k] % P = p
  BY <1>1, <1>5, ExtIsLegal DEF EndsIn
<1>11. \A c \in 1..(n + 1) : u.all_buckets[c] \in ExtBuckets
  BY <1>2 DEF ExtTables
<1>12. /\ Cardinality(u.all_buckets[b].keys) <= BUCKET_CAPACITY
       /\ Cardinality(u.all_buckets[n + 1].keys) <= BUCKET_CAPACITY
  <2>1. IsFiniteSet(old.keys) /\ Cardinality(old.keys) <= BUCKET_CAPACITY
    BY <1>1, ChainedIsLegal, FS_Subset DEF Good, GoodBucket
  <2>2. ASSUME NEW S, S \subseteq old.keys PROVE Cardinality(S) <= BUCKET_CAPACITY
    <3>1. Cardinality(S) <= Cardinality(old.keys) /\ Cardinality(S) \in Nat
      <4> HIDE DEF old
      <4>1. QED
        BY <2>1, <2>2, FS_Subset, FS_CardinalityType
    <3>2. Cardinality(old.keys) \in Nat
      BY <2>1, FS_CardinalityType
    <3>3. QED
      BY <2>1, <3>1, <3>2, ExtIsLegal
  <2>3. u.all_buckets[b].keys \subseteq old.keys /\ u.all_buckets[n + 1].keys \subseteq old.keys
    BY <1>4
  <2>4. QED
    BY <2>2, <2>3
<1> HIDE DEF P
<1>13. GoodBucket(u, b)
  <2>1. EndsIn(u, b, p)
    <3>1. p \in 0..(Ext!Bit[d + 1] - 1)
      BY <1>6, <1>7
    <3>2. \A i \in Row(t) : u.directory[i] = b <=> i % Ext!Bit[d + 1] = p
      <4>1. b # n + 1
        BY <1>1
      <4> HIDE DEF d, n
      <4>2. QED
        BY <1>3, <1>8, <1>9, <4>1
    <3>3. \A k \in u.all_buckets[b].keys : Hash[k] % Ext!Bit[d + 1] = p
      BY <1>4, <1>8, <1>10
    <3>4. QED
      BY <1>2, <1>4, <3>1, <3>2, <3>3 DEF EndsIn
  <2>2. u.all_buckets[b] \in ExtBuckets
    BY <1>1, <1>11
  <2>3. u.all_buckets[b].local_depth <= u.global_depth
    BY <1>1, <1>2, <1>4
  <2>4. QED
    BY <1>12, <2>1, <2>2, <2>3 DEF GoodBucket
<1>14. GoodBucket(u, n + 1)
  <2>1. EndsIn(u, n + 1, p + P)
    <3>1. p + P \in 0..(Ext!Bit[d + 1] - 1)
      BY <1>6, <1>7
    <3>2. \A i \in Row(t) : u.directory[i] = n + 1 <=> i % Ext!Bit[d + 1] = p + P
      <4> HIDE DEF d, n
      <4>1. QED
        BY <1>3, <1>8, <1>9
    <3>3. \A k \in u.all_buckets[n + 1].keys : Hash[k] % Ext!Bit[d + 1] = p + P
      BY <1>4, <1>8, <1>10
    <3>4. QED
      BY <1>2, <1>4, <3>1, <3>2, <3>3 DEF EndsIn
  <2>2. u.all_buckets[n + 1] \in ExtBuckets
    BY <1>1, <1>11
  <2>3. u.all_buckets[n + 1].local_depth <= u.global_depth
    BY <1>1, <1>2, <1>4
  <2>4. QED
    BY <1>12, <2>1, <2>2, <2>3 DEF GoodBucket
<1>15. ASSUME NEW c \in 1..n, c # b PROVE GoodBucket(u, c)
  <2>1. u.all_buckets[c] = t.all_buckets[c]
    BY <1>2, <1>15
  <2>2. GoodBucket(t, c)
    BY DEF Good
  <2>3. PICK q : EndsIn(t, c, q)
    BY <2>2 DEF GoodBucket
  <2>4. \A i \in Row(t) : u.directory[i] = c <=> t.directory[i] = c
    <3>1. c # n + 1
      BY <1>1
    <3>2. QED
      BY <1>3, <1>15, <3>1
  <2>5. EndsIn(u, c, q)
    BY <1>2, <2>1, <2>3, <2>4 DEF EndsIn
  <2>6. QED
    BY <1>2, <2>1, <2>2, <2>5 DEF GoodBucket
<1>16. Good(u)
  <2>1. \A c \in 1..(n + 1) : c \in 1..n \/ c = n + 1
    BY <1>1
  <2>2. \A c \in 1..(n + 1) : GoodBucket(u, c)
    BY <1>13, <1>14, <1>15, <2>1
  <2>3. \A i \in Row(t) : u.directory[i] \in 1..(n + 1)
    BY <1>1, <1>3
  <2>4. u.directory = [i \in Row(t) |-> u.directory[i]]
    BY <1>2 DEF ExtTables
  <2>5. u.directory \in [Row(u) -> 1..(n + 1)]
    BY <1>2, <2>3, <2>4
  <2>6. QED
    BY <1>2, <2>2, <2>5 DEF Good
<1>17. Ext!KeysOf(u) = Ext!KeysOf(t)
  <2>1. DOMAIN t.all_buckets = 1..n /\ DOMAIN u.all_buckets = 1..(n + 1)
    BY <1>2, <1>16, GoodTyped
  <2>2. n + 1 \in 1..(n + 1) /\ 1..(n + 1) = 1..n \cup {n + 1} /\ n + 1 \notin 1..n /\ b \in 1..n
    BY <1>1
  <2>3. ASSUME NEW k, \E c \in 1..n : k \in t.all_buckets[c].keys
        PROVE  \E c \in 1..(n + 1) : k \in u.all_buckets[c].keys
    BY <1>2, <1>4, <2>2, <2>3
  <2>4. ASSUME NEW k, \E c \in 1..(n + 1) : k \in u.all_buckets[c].keys
        PROVE  \E c \in 1..n : k \in t.all_buckets[c].keys
    BY <1>2, <1>4, <2>2, <2>4
  <2>5. QED
    BY <2>1, <2>3, <2>4 DEF Ext!KeysOf
<1>18. ASSUME NEW k \in Keys, Ext!find_bucket(t, k) = b
       PROVE  u.all_buckets[Ext!find_bucket(u, k)].local_depth = d + 1
  <2> DEFINE i == Hash[k] % Ext!Bit[t.global_depth]
  <2>1. i \in Row(t)
    <3>1. Ext!Bit[t.global_depth] \in Nat /\ Ext!Bit[t.global_depth] > 0 /\ Hash[k] \in Nat
      BY <1>1, BitPositive, ExtIsLegal
    <3>2. QED
      BY <3>1 DEF Row
  <2>2. t.directory[i] = b
    BY <1>18 DEF Ext!find_bucket
  <2>3. Ext!find_bucket(u, k) = u.directory[i]
    BY <1>2 DEF Ext!find_bucket
  <2>4. u.directory[i] \in {b, n + 1}
    BY <1>3, <2>1, <2>2
  <2>5. QED
    BY <1>4, <2>3, <2>4
<1>19. QED
  BY <1>16, <1>17, <1>18 DEF SplitOf

LEMMA SplitKeeps ==
  ASSUME NEW t, Good(t), NEW k \in Keys
  PROVE  SplitOf(t, Ext!find_bucket(t, k), Ext!split_bucket(t, Ext!find_bucket(t, k)))
<1>1. PICK b : b = Ext!find_bucket(t, k)
  OBVIOUS
<1>2. b \in 1..Len(t.all_buckets)
  BY <1>1, ExtFinds
<1>3. CASE t.all_buckets[b].local_depth # t.global_depth
  <2>1. Ext!split_bucket(t, b) = Divide(t, b)
    BY <1>3, SplitDivides
  <2>2. QED
    BY <1>1, <1>2, <1>3, <2>1, DivideDivides, DividedIsGood
<1>4. CASE t.all_buckets[b].local_depth = t.global_depth
  <2>1. PICK v : v = Ext!double_directory(t)
    OBVIOUS
  <2>2. Twice(t, v)
    BY <2>1, Doubled
  <2>3. Ext!split_bucket(t, b) = Divide(v, b)
    BY <1>4, <2>1, SplitDivides
  <2>4. /\ Good(v) /\ b \in 1..Len(v.all_buckets) /\ Ext!KeysOf(v) = Ext!KeysOf(t)
        /\ v.all_buckets[b].local_depth # v.global_depth
    <3>1. t.global_depth \in Nat
      BY GoodTyped
    <3>2. QED
      BY <1>2, <1>4, <2>2, <3>1 DEF Twice, Ext!KeysOf
  <2>5. SplitOf(v, b, Divide(v, b))
    BY <2>4, DivideDivides, DividedIsGood
  <2>6. SplitOf(t, b, Divide(v, b))
    BY <2>2, <2>4, <2>5 DEF SplitOf, Twice
  <2>7. QED
    BY <1>1, <2>3, <2>6
<1>5. QED
  BY <1>3, <1>4

\* Bucket b has the keys ks instead of its own.
Rekeyed(t, b, ks, u) ==
  /\ Good(u)
  /\ \A k \in Keys : k \in Ext!KeysOf(u) <=>
       \/ k \in ks
       \/ \E c \in 1..Len(t.all_buckets) : c # b /\ k \in t.all_buckets[c].keys

LEMMA NewKeys ==
  ASSUME NEW t, Good(t), NEW b \in 1..Len(t.all_buckets), NEW ks \in SUBSET Keys,
         Cardinality(ks) <= BUCKET_CAPACITY,
         \A p : EndsIn(t, b, p) =>
           \A k \in ks : Hash[k] % Ext!Bit[t.all_buckets[b].local_depth] = p
  PROVE  Rekeyed(t, b, ks, [t EXCEPT !.all_buckets[b].keys = ks])
<1> DEFINE n == Len(t.all_buckets)
           old == t.all_buckets[b]
           new == [old EXCEPT !.keys = ks]
           bs == [t.all_buckets EXCEPT ![b] = new]
           u == [t EXCEPT !.all_buckets[b].keys = ks]
<1>1. /\ t.global_depth \in Nat /\ n \in Nat /\ t.all_buckets \in Seq(ExtBuckets)
      /\ t \in ExtTables /\ t.directory \in [Row(t) -> 1..n] /\ old \in ExtBuckets
  BY GoodTyped DEF Good
<1>2. /\ new \in ExtBuckets /\ new.keys = ks /\ new.local_depth = old.local_depth
  <2> HIDE DEF old
  <2>1. QED
    BY <1>1 DEF ExtBuckets
<1>3. u = [t EXCEPT !.all_buckets = bs]
  OBVIOUS
<1>4. /\ bs \in Seq(ExtBuckets) /\ Len(bs) = n /\ bs[b] = new
      /\ \A c \in 1..n : c # b => bs[c] = t.all_buckets[c]
  <2> HIDE DEF new
  <2>1. QED
    BY <1>1, <1>2
<1>5. /\ u \in ExtTables /\ u.global_depth = t.global_depth /\ u.directory = t.directory
      /\ u.all_buckets = bs
  <2> HIDE DEF bs, u
  <2>1. QED
    BY <1>1, <1>3, <1>4 DEF ExtTables
<1> HIDE DEF u, bs, new
<1>6. Row(u) = Row(t)
  BY <1>5 DEF Row
<1>7. ASSUME NEW c \in 1..n PROVE GoodBucket(u, c)
  <2>1. GoodBucket(t, c)
    BY DEF Good
  <2>2. PICK p : EndsIn(t, c, p)
    BY <2>1 DEF GoodBucket
  <2>3. CASE c # b
    <3>1. u.all_buckets[c] = t.all_buckets[c]
      BY <1>4, <1>5, <2>3
    <3>2. EndsIn(u, c, p)
      BY <1>5, <1>6, <2>2, <3>1 DEF EndsIn
    <3>3. QED
      BY <1>5, <2>1, <3>1, <3>2 DEF GoodBucket
  <2>4. CASE c = b
    <3>1. u.all_buckets[c] = new
      BY <1>4, <1>5, <2>4
    <3>2. EndsIn(u, c, p)
      BY <1>2, <1>5, <1>6, <2>2, <2>4, <3>1 DEF EndsIn
    <3>3. QED
      BY <1>2, <1>5, <2>1, <2>4, <3>1, <3>2 DEF GoodBucket
  <2>5. QED
    BY <2>3, <2>4
<1>8. Good(u)
  BY <1>1, <1>4, <1>5, <1>6, <1>7 DEF Good
<1>9. ASSUME NEW k \in Keys
      PROVE  k \in Ext!KeysOf(u) <=>
               \/ k \in ks
               \/ \E c \in 1..n : c # b /\ k \in t.all_buckets[c].keys
  <2>1. DOMAIN u.all_buckets = 1..n
    BY <1>4, <1>5, <1>8, GoodTyped
  <2> HIDE DEF n
  <2>2. QED
    BY <1>2, <1>4, <1>5, <2>1 DEF Ext!KeysOf, n
<1>10. QED
  BY <1>8, <1>9 DEF Rekeyed, u

\* A table with exactly the keys ks.
HasKeys(t, ks) == Good(t) /\ Ext!KeysOf(t) = ks /\ ks \subseteq Keys

LEMMA KeysAreKeys ==
  ASSUME NEW t, Good(t)
  PROVE  Ext!KeysOf(t) \subseteq Keys
BY GoodTyped DEF Ext!KeysOf

LEMMA FullIs ==
  ASSUME NEW t, NEW b
  PROVE  Ext!Full(t, b) <=> Cardinality(t.all_buckets[b].keys) >= BUCKET_CAPACITY
BY DEF Ext!Full, Ext!Cardinality, Cardinality

\* The last step of insert, into a bucket with room.
With(t, k) == [t EXCEPT !.all_buckets[Ext!find_bucket(t, k)].keys = @ \cup {k}]

LEMMA KeyEnters ==
  ASSUME NEW t, Good(t), NEW k \in Keys, ~Ext!Full(t, Ext!find_bucket(t, k))
  PROVE  HasKeys(With(t, k), Ext!KeysOf(t) \cup {k})
<1> DEFINE b == Ext!find_bucket(t, k)
           old == t.all_buckets[b].keys
           ks == old \cup {k}
<1>1. b \in 1..Len(t.all_buckets)
  BY ExtFinds
<1>2. DOMAIN t.all_buckets = 1..Len(t.all_buckets) /\ old \subseteq Keys
  BY <1>1, GoodTyped
<1>3. Cardinality(ks) <= BUCKET_CAPACITY
  <2>1. ~(Cardinality(old) >= BUCKET_CAPACITY)
    BY FullIs
  <2> HIDE DEF old
  <2>2. IsFiniteSet(old)
    BY <1>2, ChainedIsLegal, FS_Subset
  <2>3. Cardinality(old) \in Nat
    BY <2>2, FS_CardinalityType
  <2>4. Cardinality(ks) = IF k \in old THEN Cardinality(old) ELSE Cardinality(old) + 1
    BY <2>2, FS_AddElement
  <2>5. QED
    BY <2>1, <2>3, <2>4, ExtIsLegal
<1>4. ASSUME NEW p, EndsIn(t, b, p), NEW l \in ks
      PROVE  Hash[l] % Ext!Bit[t.all_buckets[b].local_depth] = p
  <2>1. CASE l = k
    BY <1>4, <2>1, ExtFinds
  <2>2. CASE l \in old
    BY <1>4, <2>2 DEF EndsIn
  <2>3. QED
    BY <2>1, <2>2
<1>5. With(t, k) = [t EXCEPT !.all_buckets[b].keys = ks]
  BY DEF With
<1>6. ks \in SUBSET Keys
  BY <1>2
<1> HIDE DEF b, ks
<1>7. Rekeyed(t, b, ks, With(t, k))
  BY <1>1, <1>3, <1>4, <1>5, <1>6, NewKeys
<1>8. \A l \in Keys : l \in Ext!KeysOf(With(t, k)) <=> l \in Ext!KeysOf(t) \cup {k}
  BY <1>1, <1>2, <1>7 DEF Rekeyed, ks, Ext!KeysOf
<1>9. Good(With(t, k))
  BY <1>7 DEF Rekeyed
<1>10. QED
  BY <1>8, <1>9, KeysAreKeys DEF HasKeys

\* remove.
Without(t, k) == [t EXCEPT !.all_buckets[Ext!find_bucket(t, k)].keys = @ \ {k}]

LEMMA KeyLeaves ==
  ASSUME NEW t, Good(t), NEW k \in Keys
  PROVE  HasKeys(Without(t, k), Ext!KeysOf(t) \ {k})
<1> DEFINE b == Ext!find_bucket(t, k)
           old == t.all_buckets[b].keys
           ks == old \ {k}
<1>1. b \in 1..Len(t.all_buckets)
  BY ExtFinds
<1>2. DOMAIN t.all_buckets = 1..Len(t.all_buckets) /\ old \subseteq Keys
  BY <1>1, GoodTyped
<1>3. Cardinality(ks) <= BUCKET_CAPACITY
  <2>1. Cardinality(old) <= BUCKET_CAPACITY
    BY <1>1 DEF Good, GoodBucket
  <2> HIDE DEF old
  <2>2. IsFiniteSet(old)
    BY <1>2, ChainedIsLegal, FS_Subset
  <2>3. Cardinality(ks) <= Cardinality(old) /\ Cardinality(ks) \in Nat /\ Cardinality(old) \in Nat
    <3>1. ks \in SUBSET old
      OBVIOUS
    <3> HIDE DEF ks
    <3>2. QED
      BY <2>2, <3>1, FS_Subset, FS_CardinalityType
  <2>4. QED
    BY <2>1, <2>3, ExtIsLegal
<1>4. ASSUME NEW p, EndsIn(t, b, p), NEW l \in ks
      PROVE  Hash[l] % Ext!Bit[t.all_buckets[b].local_depth] = p
  BY <1>4 DEF EndsIn
<1>5. Without(t, k) = [t EXCEPT !.all_buckets[b].keys = ks]
  BY DEF Without
<1>6. ks \in SUBSET Keys
  BY <1>2
<1>7. \A c \in 1..Len(t.all_buckets) : k \in t.all_buckets[c].keys => c = b
  BY ExtFinds
<1> HIDE DEF b, ks
<1>8. Rekeyed(t, b, ks, Without(t, k))
  BY <1>1, <1>3, <1>4, <1>5, <1>6, NewKeys
<1>9. \A l \in Keys : l \in Ext!KeysOf(Without(t, k)) <=> l \in Ext!KeysOf(t) \ {k}
  BY <1>1, <1>2, <1>7, <1>8 DEF Rekeyed, ks, Ext!KeysOf
<1>10. Good(Without(t, k))
  BY <1>8 DEF Rekeyed
<1>11. QED
  BY <1>9, <1>10, KeysAreKeys DEF HasKeys

\* One turn of insert's loop.
Roomier(t, k) ==
  IF Ext!Full(t, Ext!find_bucket(t, k)) THEN Ext!split_bucket(t, Ext!find_bucket(t, k)) ELSE t

After(t, k) ==
  CHOOSE g : g = [n \in 0..HashBits |-> IF n = 0 THEN t ELSE Roomier(g[n - 1], k)]

LEMMA InsertedIs ==
  ASSUME NEW t, NEW k
  PROVE  Ext!Inserted(t, k) = With(After(t, k)[HashBits], k)
BY ZenonT(60) DEF Ext!Inserted, With, After, Roomier

LEMMA RoomierIsGood ==
  ASSUME NEW t, Good(t), NEW k \in Keys
  PROVE  /\ Good(Roomier(t, k)) /\ Ext!KeysOf(Roomier(t, k)) = Ext!KeysOf(t)
         /\ Ext!Full(t, Ext!find_bucket(t, k)) =>
              Roomier(t, k).all_buckets[Ext!find_bucket(Roomier(t, k), k)].local_depth
                = t.all_buckets[Ext!find_bucket(t, k)].local_depth + 1
BY SplitKeeps DEF Roomier, SplitOf

LEMMA AfterIs ==
  ASSUME NEW t, Good(t), NEW k \in Keys
  PROVE  /\ After(t, k)[0] = t
         /\ \A n \in 0..HashBits : Good(After(t, k)[n])
         /\ \A n \in 1..HashBits : After(t, k)[n] = Roomier(After(t, k)[n - 1], k)
<1> DEFINE D == 0..HashBits
           X == {u \in ExtTables : Good(u)}
           step == [n \in D |-> [u \in X |-> Roomier(u, k)]]
           A == After(t, k)
<1>1. HashBits \in Nat
  BY ExtIsLegal
<1>2. \A u \in X : Good(u) /\ Roomier(u, k) \in X
  BY RoomierIsGood DEF Good
<1>3. Segments(D)
  BY <1>1 DEF Segments
<1>4. t \in X
  BY DEF Good
<1> HIDE DEF X
<1>5. \A n \in D : \A u \in X : step[n][u] = Roomier(u, k)
  OBVIOUS
<1> HIDE DEF step, D
<1>6. Maps(D, X, step)
  BY <1>2, <1>5 DEF Maps
<1>7. PICK g : Follows(D, X, t, step, g)
  BY <1>3, <1>4, <1>6, Recursion
<1>8. /\ g \in [D -> X]
      /\ \A n \in D : g[n] = IF n = 0 THEN t ELSE step[n][g[n - 1]]
  BY <1>7 DEF Follows
<1>9. \A n \in D : n # 0 => n - 1 \in D
  BY <1>1 DEF D
<1>10. \A n \in D : g[n] = IF n = 0 THEN t ELSE Roomier(g[n - 1], k)
  BY <1>5, <1>8, <1>9
<1>11. g = [n \in D |-> g[n]]
  BY <1>8
<1>12. g = [n \in D |-> IF n = 0 THEN t ELSE Roomier(g[n - 1], k)]
  BY <1>10, <1>11, Zenon
<1>13. A = [n \in D |-> IF n = 0 THEN t ELSE Roomier(A[n - 1], k)]
  BY <1>12, Zenon DEF After, D
<1> HIDE DEF A
<1>14. A[0] = t /\ \A n \in 1..HashBits : A[n] = Roomier(A[n - 1], k)
  BY <1>1, <1>13 DEF D
<1> DEFINE T == {n \in D : ~Good(A[n])}
<1>15. ASSUME T # {} PROVE FALSE
  <2>1. PICK m \in T : \A n \in T : m <= n
    <3>1. T \subseteq Nat
      BY <1>1 DEF D
    <3> HIDE DEF T
    <3>2. QED
      BY <1>15, <3>1, LeastOf
  <2>2. m \in D /\ ~Good(A[m])
    OBVIOUS
  <2>3. m # 0
    BY <1>14, <2>2
  <2>4. m - 1 \in D /\ ~(m <= m - 1) /\ m \in 1..HashBits
    BY <1>1, <2>2, <2>3 DEF D
  <2>5. Good(A[m - 1])
    BY <2>1, <2>4
  <2>6. Good(Roomier(A[m - 1], k))
    BY <2>5, RoomierIsGood
  <2>7. QED
    BY <1>14, <2>2, <2>4, <2>6
<1>16. QED
  BY <1>14, <1>15 DEF A, D

\* After n turns the bucket has room, or is n bits deep.
RoomAfter(t, k, n) ==
  /\ Ext!KeysOf(After(t, k)[n]) = Ext!KeysOf(t)
  /\ \/ ~Ext!Full(After(t, k)[n], Ext!find_bucket(After(t, k)[n], k))
     \/ After(t, k)[n].all_buckets[Ext!find_bucket(After(t, k)[n], k)].local_depth >= n

LEMMA RoomGrows ==
  ASSUME NEW t, Good(t), NEW k \in Keys, NEW n \in 0..HashBits
  PROVE  RoomAfter(t, k, n)
<1> DEFINE A == After(t, k)
           T == {m \in 0..HashBits : ~RoomAfter(t, k, m)}
<1>1. /\ HashBits \in Nat /\ A[0] = t
      /\ \A m \in 0..HashBits : Good(A[m])
      /\ \A m \in 1..HashBits : A[m] = Roomier(A[m - 1], k)
  BY AfterIs, ExtIsLegal
<1>2. ASSUME T # {} PROVE FALSE
  <2>1. PICK m \in T : \A i \in T : m <= i
    <3>1. T \subseteq Nat
      BY <1>1
    <3> HIDE DEF T
    <3>2. QED
      BY <1>2, <3>1, LeastOf
  <2>2. m \in 0..HashBits /\ ~RoomAfter(t, k, m)
    OBVIOUS
  <2> HIDE DEF A
  <2>3. m # 0
    <3> SUFFICES ASSUME m = 0 PROVE FALSE
      OBVIOUS
    <3>1. Ext!find_bucket(t, k) \in 1..Len(t.all_buckets)
      BY ExtFinds
    <3>2. t.all_buckets[Ext!find_bucket(t, k)].local_depth >= 0
      BY <3>1, GoodTyped
    <3>3. RoomAfter(t, k, 0)
      BY <1>1, <3>2 DEF RoomAfter, A
    <3>4. QED
      BY <2>2, <3>3
  <2>4. m - 1 \in 0..HashBits /\ m \in 1..HashBits /\ ~(m <= m - 1)
    BY <1>1, <2>2, <2>3
  <2>5. RoomAfter(t, k, m - 1)
    BY <2>1, <2>4
  <2>6. PICK u : u = A[m - 1]
    OBVIOUS
  <2>7. Good(u) /\ A[m] = Roomier(u, k)
    BY <1>1, <2>4, <2>6
  <2> DEFINE d == u.all_buckets[Ext!find_bucket(u, k)].local_depth
  <2>8. d \in Nat
    BY <2>7, ExtFinds, GoodTyped
  <2>9. Ext!KeysOf(A[m]) = Ext!KeysOf(t)
    <3>1. Ext!KeysOf(Roomier(u, k)) = Ext!KeysOf(u)
      BY <2>7, RoomierIsGood
    <3>2. Ext!KeysOf(u) = Ext!KeysOf(t)
      BY <2>5, <2>6 DEF RoomAfter, A
    <3>3. QED
      BY <2>7, <3>1, <3>2
  <2>10. CASE ~Ext!Full(u, Ext!find_bucket(u, k))
    <3>1. A[m] = u
      BY <2>7, <2>10 DEF Roomier
    <3>2. QED
      BY <2>2, <2>9, <2>10, <3>1 DEF RoomAfter, A
  <2>11. CASE Ext!Full(u, Ext!find_bucket(u, k))
    <3>1. d >= m - 1
      BY <2>5, <2>6, <2>11 DEF RoomAfter, A
    <3>2. A[m].all_buckets[Ext!find_bucket(A[m], k)].local_depth = d + 1
      <4>1. Roomier(u, k).all_buckets[Ext!find_bucket(Roomier(u, k), k)].local_depth = d + 1
        BY <2>7, <2>11, RoomierIsGood
      <4>2. QED
        BY <2>7, <4>1
    <3> HIDE DEF d
    <3>3. d + 1 >= m
      BY <2>4, <2>8, <3>1
    <3>4. QED
      BY <2>2, <2>9, <3>2, <3>3 DEF RoomAfter, A
  <2>12. QED
    BY <2>10, <2>11
<1>3. QED
  BY <1>2

\* The keys of a bucket that is HashBits deep have one hash value.
LEMMA EnoughRoom ==
  ASSUME NEW t, Good(t), NEW k \in Keys, k \notin Ext!KeysOf(t),
         t.all_buckets[Ext!find_bucket(t, k)].local_depth >= HashBits
  PROVE  ~Ext!Full(t, Ext!find_bucket(t, k))
<1>1. PICK b \in 1..Len(t.all_buckets) : b = Ext!find_bucket(t, k)
  BY ExtFinds
<1> DEFINE ks == t.all_buckets[b].keys
           d == t.all_buckets[b].local_depth
           same == {l \in Keys : Hash[l] = Hash[k]}
<1>2. d \in Nat /\ d >= HashBits /\ HashBits \in Nat /\ ks \subseteq Keys /\ k \notin ks
  <2>1. DOMAIN t.all_buckets = 1..Len(t.all_buckets)
    BY GoodTyped
  <2>2. k \notin ks
    BY <2>1 DEF Ext!KeysOf
  <2>3. QED
    BY <1>1, <2>2, GoodTyped, ExtIsLegal
<1>3. PICK p : EndsIn(t, b, p)
  BY DEF Good, GoodBucket
<1>4. Hash[k] % Ext!Bit[d] = p /\ \A l \in ks : Hash[l] % Ext!Bit[d] = p
  <2>1. Hash[k] % Ext!Bit[d] = p
    BY <1>1, <1>3, ExtFinds
  <2>2. QED
    BY <1>3, <2>1 DEF EndsIn
<1> HIDE DEF ks, d, same
<1>5. \A l \in Keys : Hash[l] \in Nat /\ Hash[l] < Ext!Bit[d]
  <2>1. PICK H \in Nat : H = Ext!Bit[HashBits]
    BY <1>2, BitPositive
  <2>2. PICK e \in Nat : d = HashBits + e
    <3>1. d - HashBits \in Nat /\ d = HashBits + (d - HashBits)
      BY <1>2
    <3>2. QED
      BY <3>1
  <2>3. PICK E \in Nat : E = Ext!Bit[e] /\ E > 0
    BY BitPositive
  <2>4. Ext!Bit[d] = H * E
    BY <1>2, <2>1, <2>2, <2>3, BitAdds
  <2>5. H * E >= H /\ H * E \in Nat
    BY <2>3
  <2>6. \A l \in Keys : Hash[l] \in Nat /\ Hash[l] < H
    BY <2>1, ExtIsLegal
  <2>7. PICK N \in Nat : N = Ext!Bit[d] /\ N >= H
    BY <2>4, <2>5
  <2>8. QED
    BY <2>6, <2>7
<1>6. \A l \in ks : l \in Keys /\ Hash[l] = Hash[k]
  <2>1. PICK B \in Nat : B = Ext!Bit[d] /\ B > 0
    BY <1>2, BitPositive
  <2>2. ASSUME NEW l \in Keys PROVE Hash[l] % B = Hash[l]
    <3>1. PICK h \in Nat : h = Hash[l] /\ h < B
      BY <1>5, <2>1
    <3>2. h % B = h
      BY <2>1, <3>1
    <3>3. QED
      BY <3>1, <3>2
  <2>3. QED
    BY <1>2, <1>4, <2>1, <2>2
<1>7. ks \cup {k} \in SUBSET same
  BY <1>6 DEF same
<1>8. IsFiniteSet(same) /\ IsFiniteSet(ks)
  BY <1>2, ChainedIsLegal, FS_Subset DEF same
<1>9. /\ Cardinality(ks \cup {k}) = Cardinality(ks) + 1
      /\ Cardinality(ks \cup {k}) <= Cardinality(same)
      /\ Cardinality(ks) \in Nat /\ Cardinality(same) \in Nat
  <2>1. Cardinality(ks \cup {k}) = Cardinality(ks) + 1
    BY <1>2, <1>8, FS_AddElement
  <2>2. Cardinality(ks \cup {k}) <= Cardinality(same)
    <3>1. PICK s : s = ks \cup {k}
      OBVIOUS
    <3>2. s \in SUBSET same
      BY <1>7, <3>1
    <3>3. QED
      BY <1>8, <3>1, <3>2, FS_Subset
  <2>3. QED
    BY <1>8, <2>1, <2>2, FS_CardinalityType
<1>10. Cardinality(same) <= BUCKET_CAPACITY
  BY ExtIsLegal DEF same
<1>11. ~(Cardinality(ks) >= BUCKET_CAPACITY)
  BY <1>9, <1>10, ExtIsLegal
<1>12. QED
  BY <1>1, <1>11, FullIs DEF ks

LEMMA InsertedKeeps ==
  ASSUME NEW t, Good(t), NEW k \in Keys, k \notin Ext!KeysOf(t)
  PROVE  HasKeys(Ext!Inserted(t, k), Ext!KeysOf(t) \cup {k})
<1>1. PICK u : u = After(t, k)[HashBits]
  OBVIOUS
<1>2. HashBits \in 0..HashBits
  BY ExtIsLegal
<1>3. Good(u)
  BY <1>1, <1>2, AfterIs
<1>4. RoomAfter(t, k, HashBits)
  BY <1>2, RoomGrows
<1>5. /\ Ext!KeysOf(u) = Ext!KeysOf(t)
      /\ \/ ~Ext!Full(u, Ext!find_bucket(u, k))
         \/ u.all_buckets[Ext!find_bucket(u, k)].local_depth >= HashBits
  BY <1>1, <1>4 DEF RoomAfter
<1>6. ~Ext!Full(u, Ext!find_bucket(u, k))
  BY <1>3, <1>5, EnoughRoom
<1>7. HasKeys(With(u, k), Ext!KeysOf(u) \cup {k})
  BY <1>3, <1>6, KeyEnters
<1>8. Ext!Inserted(t, k) = With(u, k)
  BY <1>1, InsertedIs
<1>9. QED
  BY <1>5, <1>7, <1>8 DEF HasKeys

LEMMA NewIsGood == Good(Ext!NewTable) /\ Ext!KeysOf(Ext!NewTable) = {}
<1> DEFINE t == Ext!NewTable
           b1 == [local_depth |-> 0, keys |-> {}, deleted |-> FALSE]
<1>1. t = [global_depth |-> 0, directory |-> [i \in {0} |-> 1], all_buckets |-> <<b1>>]
  BY DEF Ext!NewTable, Ext!Bucket
<1>2. Ext!Bit[0] = 1 /\ 0..(1 - 1) = {0} /\ 1..1 = {1}
  BY BitIs
<1>3. b1 \in ExtBuckets
  BY DEF ExtBuckets
<1> HIDE DEF b1
<1>4. /\ t.global_depth = 0 /\ t.directory = [i \in {0} |-> 1] /\ t.all_buckets = <<b1>>
      /\ Len(t.all_buckets) = 1 /\ t.all_buckets[1] = b1 /\ DOMAIN t.all_buckets = {1}
  BY <1>1, <1>2
<1>5. [i \in {0} |-> 1] \in [0..(Ext!Bit[0] - 1) -> Nat]
  BY <1>2
<1>6. <<b1>> \in Seq(ExtBuckets)
  BY <1>3
<1>7. t \in ExtTables
  <2>1. [i \in {0} |-> 1] \in UNION {[0..(Ext!Bit[n] - 1) -> Nat] : n \in Nat}
    BY <1>5
  <2>2. QED
    BY <1>1, <1>6, <2>1 DEF ExtTables
<1> HIDE DEF t
<1>8. Row(t) = {0}
  BY <1>2, <1>4 DEF Row
<1>9. b1.local_depth = 0 /\ b1.keys = {}
  BY DEF b1
<1>10. EndsIn(t, 1, 0)
  <2>1. 0 % 1 = 0 /\ 0 \in 0..(1 - 1)
    OBVIOUS
  <2>2. \A i \in Row(t) : t.directory[i] = 1 <=> i % 1 = 0
    BY <1>4, <1>8, <2>1
  <2>3. QED
    BY <1>2, <1>4, <1>9, <2>1, <2>2 DEF EndsIn
<1>11. GoodBucket(t, 1)
  <2>1. Cardinality({}) <= BUCKET_CAPACITY
    BY FS_EmptySet, ExtIsLegal
  <2>2. QED
    BY <1>3, <1>4, <1>9, <1>10, <2>1 DEF GoodBucket
<1>12. Good(t)
  BY <1>2, <1>4, <1>7, <1>8, <1>11 DEF Good
<1>13. Ext!KeysOf(t) = {}
  BY <1>4, <1>9 DEF Ext!KeysOf
<1>14. QED
  BY <1>12, <1>13 DEF t

\* A set of keys in some order.
Lists(ks, q) ==
  /\ q \in [1..Cardinality(ks) -> ks]
  /\ \A i, j \in 1..Cardinality(ks) : q[i] = q[j] => i = j

LEMMA ListOf ==
  ASSUME NEW ks \in SUBSET Keys
  PROVE  Lists(ks, Ext!SetToSeq(ks))
<1>1. Ext!SetToSeq(ks) = CHOOSE q \in [1..Cardinality(ks) -> ks] :
                            \A i, j \in DOMAIN q : q[i] = q[j] => i = j
  BY Zenon DEF Ext!SetToSeq, Ext!Cardinality, Cardinality, Ext!IsInjective
<1>2. IsFiniteSet(ks)
  BY ChainedIsLegal, FS_Subset
<1>3. PICK n \in Nat : ExistsBijection(1..n, ks)
  BY <1>2, FS_NatBijection
<1>4. n = Cardinality(ks)
  BY <1>3, FS_CountingElements
<1>5. \E q \in [1..Cardinality(ks) -> ks] : \A i, j \in DOMAIN q : q[i] = q[j] => i = j
  BY <1>3, <1>4 DEF ExistsBijection, Bijection, Injection, IsInjective
<1>6. PICK q : q = Ext!SetToSeq(ks)
  OBVIOUS
<1>7. q \in [1..Cardinality(ks) -> ks] /\ \A i, j \in DOMAIN q : q[i] = q[j] => i = j
  BY <1>1, <1>5, <1>6
<1>8. QED
  BY <1>6, <1>7 DEF Lists

LEMMA ListHasAll ==
  ASSUME NEW ks \in SUBSET Keys, NEW q, Lists(ks, q)
  PROVE  /\ Cardinality(ks) \in Nat /\ Len(q) = Cardinality(ks)
         /\ \A k \in ks : \E i \in 1..Len(q) : q[i] = k
<1>1. IsFiniteSet(ks) /\ Cardinality(ks) \in Nat
  BY ChainedIsLegal, FS_Subset, FS_CardinalityType
<1>2. PICK n \in Nat : n = Cardinality(ks)
  BY <1>1
<1>3. q \in Injection(1..n, ks)
  BY <1>2 DEF Lists, Injection, IsInjective
<1>4. Cardinality(1..n) = n
  <2>1. Cardinality(1..n) = IF 1 > n THEN 0 ELSE n - 1 + 1
    BY FS_Interval
  <2>2. QED
    BY <2>1
<1>5. q \in Surjection(1..n, ks)
  BY <1>1, <1>2, <1>3, <1>4, FS_Injection
<1>6. q \in [1..n -> ks]
  BY <1>2 DEF Lists
<1>7. Len(q) = n
  BY <1>6
<1>8. QED
  BY <1>1, <1>2, <1>5, <1>7 DEF Surjection

\* The copy constructor's insertions, one by one.
Built(q) ==
  CHOOSE g : g = [n \in 0..Len(q) |->
                    IF n = 0 THEN Ext!NewTable ELSE Ext!Inserted(g[n - 1], q[n])]

LEMMA CopyIs ==
  ASSUME NEW ks
  PROVE  Ext!CopyOf(ks) = Built(Ext!SetToSeq(ks))[Len(Ext!SetToSeq(ks))]
BY ZenonT(60) DEF Ext!CopyOf, Built

\* g inserts the keys of q one after the other.
Inserts(q, g) ==
  /\ g[0] = Ext!NewTable
  /\ \A n \in 1..Len(q) :
       Good(g[n - 1]) /\ q[n] \notin Ext!KeysOf(g[n - 1]) =>
         g[n] = Ext!Inserted(g[n - 1], q[n])

LEMMA Insertions ==
  ASSUME NEW ks \in SUBSET Keys, NEW q, Lists(ks, q), NEW g, Inserts(q, g),
         NEW n \in 0..Len(q)
  PROVE  HasKeys(g[n], {q[i] : i \in 1..n})
<1> DEFINE First(m) == {q[i] : i \in 1..m}
           T == {m \in 0..Len(q) : ~HasKeys(g[m], First(m))}
<1>1. /\ Len(q) \in Nat /\ \A i \in 1..Len(q) : q[i] \in Keys
      /\ \A i, j \in 1..Len(q) : q[i] = q[j] => i = j
  <2>1. Len(q) \in Nat /\ Len(q) = Cardinality(ks)
    BY ListHasAll
  <2>2. QED
    BY <2>1 DEF Lists
<1>2. ASSUME T # {} PROVE FALSE
  <2>1. PICK m \in T : \A i \in T : m <= i
    <3>1. T \subseteq Nat
      BY <1>1
    <3> HIDE DEF T
    <3>2. QED
      BY <1>2, <3>1, LeastOf
  <2>2. m \in 0..Len(q) /\ ~HasKeys(g[m], First(m))
    OBVIOUS
  <2>3. m # 0
    <3>1. First(0) = {}
      OBVIOUS
    <3>2. HasKeys(g[0], {})
      BY NewIsGood DEF HasKeys, Inserts
    <3>3. QED
      BY <2>2, <3>1, <3>2
  <2>4. m - 1 \in 0..Len(q) /\ m \in 1..Len(q) /\ ~(m <= m - 1)
    BY <1>1, <2>2, <2>3
  <2>5. HasKeys(g[m - 1], First(m - 1))
    BY <2>1, <2>4
  <2>6. q[m] \notin First(m - 1) /\ First(m) = First(m - 1) \cup {q[m]}
    <3>1. 1..m = 1..(m - 1) \cup {m} /\ m \notin 1..(m - 1) /\ 1..(m - 1) \subseteq 1..Len(q)
      BY <2>4
    <3>2. QED
      BY <1>1, <2>4, <3>1
  <2> HIDE DEF T, First
  <2>7. Good(g[m - 1]) /\ Ext!KeysOf(g[m - 1]) = First(m - 1) /\ q[m] \in Keys
    BY <1>1, <2>4, <2>5 DEF HasKeys
  <2>8. g[m] = Ext!Inserted(g[m - 1], q[m])
    BY <2>4, <2>6, <2>7 DEF Inserts
  <2>9. HasKeys(Ext!Inserted(g[m - 1], q[m]), First(m - 1) \cup {q[m]})
    BY <2>6, <2>7, InsertedKeeps
  <2>10. QED
    BY <2>2, <2>6, <2>8, <2>9
<1>3. QED
  BY <1>2

LEMMA BuiltInserts ==
  ASSUME NEW ks \in SUBSET Keys, NEW q, Lists(ks, q)
  PROVE  Inserts(q, Built(q))
<1> DEFINE D == 0..Len(q)
           X == {t \in ExtTables : Good(t)}
           Enter(t, k) == IF Ext!Inserted(t, k) \in X THEN Ext!Inserted(t, k) ELSE t
           step == [n \in D |-> [t \in X |-> Enter(t, q[n])]]
           B == Built(q)
<1>1. /\ Len(q) \in Nat /\ \A i \in 1..Len(q) : q[i] \in Keys
      /\ \A i, j \in 1..Len(q) : q[i] = q[j] => i = j
  <2>1. Len(q) \in Nat /\ Len(q) = Cardinality(ks)
    BY ListHasAll
  <2>2. QED
    BY <2>1 DEF Lists
<1>2. Segments(D)
  BY <1>1 DEF Segments
<1>3. \A n \in D : n # 0 => n \in 1..Len(q) /\ n - 1 \in D
  BY <1>1
<1>4. 0 \in D /\ \A n \in 1..Len(q) : n \in D /\ n # 0
  BY <1>1
<1>5. Ext!NewTable \in X /\ \A t : Good(t) <=> t \in X
  BY NewIsGood DEF Good
<1> HIDE DEF X, D
<1>6. \A n \in D : \A t \in X : step[n][t] = Enter(t, q[n]) /\ Enter(t, q[n]) \in X
  OBVIOUS
<1> HIDE DEF step
<1>7. Maps(D, X, step)
  <2> HIDE DEF Enter
  <2>1. QED
    BY <1>6 DEF Maps
<1>8. PICK g : Follows(D, X, Ext!NewTable, step, g)
  BY <1>2, <1>5, <1>7, Recursion
<1>9. /\ g \in [D -> X]
      /\ \A n \in D : g[n] = IF n = 0 THEN Ext!NewTable ELSE step[n][g[n - 1]]
  BY <1>8 DEF Follows
<1>10. \A n \in 1..Len(q) : g[n] = Enter(g[n - 1], q[n])
  <2> HIDE DEF Enter
  <2>1. QED
    BY <1>3, <1>4, <1>6, <1>9
<1>11. Inserts(q, g)
  <2>1. ASSUME NEW n \in 1..Len(q), Good(g[n - 1]), q[n] \notin Ext!KeysOf(g[n - 1])
        PROVE  g[n] = Ext!Inserted(g[n - 1], q[n])
    <3>1. Good(Ext!Inserted(g[n - 1], q[n]))
      BY <1>1, <2>1, InsertedKeeps DEF HasKeys
    <3>2. QED
      BY <1>5, <1>10, <3>1
  <2>2. QED
    BY <1>4, <1>9, <2>1 DEF Inserts
<1>12. ASSUME NEW n \in 1..Len(q) PROVE g[n] = Ext!Inserted(g[n - 1], q[n])
  <2>1. n - 1 \in 0..Len(q) /\ \A i \in 1..(n - 1) : i \in 1..Len(q) /\ i # n
    BY <1>1
  <2>2. HasKeys(g[n - 1], {q[i] : i \in 1..(n - 1)})
    BY <1>11, <2>1, Insertions
  <2>3. q[n] \notin {q[i] : i \in 1..(n - 1)}
    BY <1>1, <2>1
  <2>4. QED
    BY <1>11, <2>2, <2>3 DEF Inserts, HasKeys
<1>13. g = [n \in D |-> IF n = 0 THEN Ext!NewTable ELSE Ext!Inserted(g[n - 1], q[n])]
  <2>1. g = [n \in D |-> g[n]]
    BY <1>9
  <2>2. \A n \in D : g[n] = IF n = 0 THEN Ext!NewTable ELSE Ext!Inserted(g[n - 1], q[n])
    BY <1>3, <1>9, <1>12
  <2>3. QED
    BY <2>1, <2>2, Zenon
<1>14. B = [n \in D |-> IF n = 0 THEN Ext!NewTable ELSE Ext!Inserted(B[n - 1], q[n])]
  BY <1>13, Zenon DEF Built, D
<1> HIDE DEF B
<1>15. B[0] = Ext!NewTable /\ \A n \in 1..Len(q) : B[n] = Ext!Inserted(B[n - 1], q[n])
  BY <1>4, <1>14
<1>16. QED
  BY <1>15 DEF Inserts, B

\* A copy has the keys of the original.
LEMMA CopyHasKeys ==
  ASSUME NEW ks \in SUBSET Keys
  PROVE  HasKeys(Ext!CopyOf(ks), ks)
<1>1. PICK q : q = Ext!SetToSeq(ks)
  OBVIOUS
<1>2. Lists(ks, q)
  BY <1>1, ListOf
<1>3. Len(q) \in Nat /\ Len(q) \in 0..Len(q) /\ Len(q) = Cardinality(ks)
  BY <1>2, ListHasAll
<1>4. HasKeys(Built(q)[Len(q)], {q[i] : i \in 1..Len(q)})
  BY <1>2, <1>3, BuiltInserts, Insertions
<1>5. {q[i] : i \in 1..Len(q)} = ks
  <2>1. \A i \in 1..Len(q) : q[i] \in ks
    BY <1>2, <1>3 DEF Lists
  <2>2. QED
    BY <1>2, <2>1, ListHasAll
<1>6. QED
  BY <1>1, <1>4, <1>5, CopyIs

-----------------------------------------------------------------------------
(* The bag of the keys, and the steps.                                     *)

ExtInv == Good(Ext!This)

OneEach(ks) == [k \in Keys |-> IF k \in ks THEN 1 ELSE 0]
ExtBag(t) ==
  [k \in Keys |-> Cardinality({b \in DOMAIN t.all_buckets : k \in t.all_buckets[b].keys})]

LEMMA ExtBagIs ==
  ASSUME NEW t, NEW ks, HasKeys(t, ks)
  PROVE  ExtBag(t) = OneEach(ks)
<1>1. Good(t) /\ Ext!KeysOf(t) = ks
  BY DEF HasKeys
<1>2. DOMAIN t.all_buckets = 1..Len(t.all_buckets)
  BY <1>1, GoodTyped
<1>3. ASSUME NEW k \in Keys
      PROVE  Cardinality({b \in DOMAIN t.all_buckets : k \in t.all_buckets[b].keys})
               = IF k \in ks THEN 1 ELSE 0
  <2> DEFINE S == {b \in DOMAIN t.all_buckets : k \in t.all_buckets[b].keys}
  <2>1. \A b, c \in S : b = c
    BY <1>1, <1>2, ExtFinds
  <2>2. k \in ks <=> S # {}
    BY <1>1 DEF Ext!KeysOf
  <2> HIDE DEF S
  <2>3. S = {} => Cardinality(S) = 0
    BY FS_EmptySet
  <2>4. ASSUME S # {} PROVE Cardinality(S) = 1
    <3>1. PICK b : b \in S
      BY <2>4
    <3>2. S = {b}
      BY <2>1, <3>1
    <3>3. QED
      BY <3>2, FS_Singleton
  <2>5. Cardinality(S) = IF k \in ks THEN 1 ELSE 0
    BY <2>2, <2>3, <2>4
  <2>6. QED
    BY <2>5 DEF S
<1>4. QED
  BY <1>3 DEF ExtBag, OneEach

LEMMA ExtContents == Ext!Contents = ExtBag(Ext!This) /\ Ext!Contents' = ExtBag(Ext!This')
BY DEF Ext!Contents, ExtBag, Ext!This, Ext!Cardinality, Cardinality

LEMMA ExtBecomes ==
  ASSUME NEW t, NEW ks, HasKeys(t, ks), Ext!Become(t)
  PROVE  ExtInv' /\ Ext!Contents' = OneEach(ks)
<1>1. t = [global_depth |-> t.global_depth, directory |-> t.directory,
           all_buckets |-> t.all_buckets]
  BY DEF HasKeys, Good, ExtTables
<1>2. Ext!This' = t
  BY <1>1 DEF Ext!Become, Ext!This
<1>3. ExtBag(t) = OneEach(ks) /\ Good(t)
  BY ExtBagIs DEF HasKeys
<1>4. QED
  BY <1>2, <1>3, ExtContents DEF ExtInv

LEMMA ExtInit == Ext!Init => ExtInv
<1> SUFFICES ASSUME Ext!Init PROVE ExtInv
  OBVIOUS
<1>1. Ext!This = Ext!NewTable
  BY DEF Ext!Init, Ext!This, Ext!NewTable
<1>2. QED
  BY <1>1, NewIsGood DEF ExtInv

\* A bag of single keys, with one key more or less.
LEMMA OneMore ==
  ASSUME NEW ks, NEW k \in Keys
  PROVE  /\ OneEach(ks) \in [Keys -> Nat] /\ OneEach(ks)[k] = IF k \in ks THEN 1 ELSE 0
         /\ k \notin ks => OneEach(ks \cup {k}) = [OneEach(ks) EXCEPT ![k] = @ + 1]
         /\ k \in ks => OneEach(ks \ {k}) = [OneEach(ks) EXCEPT ![k] = @ - 1]
<1> DEFINE B == OneEach(ks)
<1>1. B \in [Keys -> Nat] /\ \A l \in Keys : B[l] = IF l \in ks THEN 1 ELSE 0
  BY DEF OneEach
<1> HIDE DEF B
<1>2. /\ B[k] = 0 => [B EXCEPT ![k] = @ + 1] = [l \in Keys |-> IF l = k THEN 1 ELSE B[l]]
      /\ B[k] = 1 => [B EXCEPT ![k] = @ - 1] = [l \in Keys |-> IF l = k THEN 0 ELSE B[l]]
  BY <1>1, Once
<1>3. /\ OneEach(ks \cup {k}) = [l \in Keys |-> IF l = k THEN 1 ELSE B[l]]
      /\ OneEach(ks \ {k}) = [l \in Keys |-> IF l = k THEN 0 ELSE B[l]]
  BY <1>1 DEF OneEach
<1>4. QED
  BY <1>1, <1>2, <1>3 DEF B

\* A step keeps the invariant, and is a step of the table that is a set.
LEMMA ExtStep ==
  ASSUME ExtInv, Ext!Next
  PROVE  ExtInv' /\ [Ext!AsTable!Next]_<<Ext!Contents, reply>>
<1> DEFINE C == Ext!Contents
<1>1. PICK t : t = Ext!This
  OBVIOUS
<1>2. PICK ks : ks = Ext!KeysOf(t)
  OBVIOUS
<1>3. HasKeys(t, ks) /\ Good(t)
  BY <1>1, <1>2, KeysAreKeys DEF ExtInv, HasKeys
<1>4. C = OneEach(ks)
  BY <1>1, <1>3, ExtBagIs, ExtContents
<1> HIDE DEF C
<1>5. \A k \in Keys : /\ Ext!Has(Ext!This, k) <=> k \in ks
                      /\ C[k] = IF k \in ks THEN 1 ELSE 0
  BY <1>1, <1>2, <1>3, <1>4, ExtHas, OneMore
<1>6. ASSUME NEW u, NEW l, HasKeys(u, l), Ext!Become(u)
      PROVE  ExtInv' /\ C' = OneEach(l)
  BY <1>6, ExtBecomes DEF C
<1>7. CASE Ext!undefined
  <2>1. /\ global_depth' = global_depth /\ directory' = directory
        /\ all_buckets' = all_buckets /\ reply' = reply
    BY <1>7 DEF Ext!undefined, Ext!vars
  <2>2. ExtInv' /\ C' = C
    BY <2>1 DEF ExtInv, Ext!This, C, Ext!Contents
  <2>3. QED
    BY <2>1, <2>2 DEF C
<1>8. ASSUME NEW k \in Keys, Ext!insert(k)
      PROVE  ExtInv' /\ Ext!AsTable!Next
  <2>1. CASE k \in ks
    <3>1. Ext!Become(t) /\ reply' = "no"
      BY <1>1, <1>5, <1>8, <2>1 DEF Ext!insert
    <3>2. ExtInv' /\ C' = C
      BY <1>3, <1>4, <1>6, <3>1
    <3>3. C[k] > 0
      BY <1>5, <2>1
    <3>4. Ext!AsTable!insert(k)
      BY <3>1, <3>2, <3>3 DEF Ext!AsTable!insert, C
    <3>5. QED
      BY <3>2, <3>4 DEF Ext!AsTable!Next
  <2>2. CASE k \notin ks
    <3>1. PICK u : u = Ext!Inserted(t, k)
      OBVIOUS
    <3>2. Ext!Become(u) /\ reply' = "yes"
      BY <1>1, <1>5, <1>8, <2>2, <3>1 DEF Ext!insert
    <3>3. HasKeys(u, ks \cup {k})
      BY <1>2, <1>3, <2>2, <3>1, InsertedKeeps
    <3>4. ExtInv' /\ C' = OneEach(ks \cup {k})
      BY <1>6, <3>2, <3>3
    <3>5. C[k] = 0 /\ C' = [C EXCEPT ![k] = @ + 1]
      BY <1>4, <2>2, <3>4, OneMore
    <3>6. Ext!AsTable!Add(k)
      BY <3>5 DEF Ext!AsTable!Add, Ext!AsTable!Kept, C
    <3>7. Ext!AsTable!insert(k)
      BY <3>2, <3>5, <3>6 DEF Ext!AsTable!insert, C
    <3>8. QED
      BY <3>4, <3>7 DEF Ext!AsTable!Next
  <2>3. QED
    BY <2>1, <2>2
<1>9. ASSUME NEW k \in Keys, Ext!search(k)
      PROVE  ExtInv' /\ Ext!AsTable!Next
  <2>1. Ext!Become(t) /\ reply' = IF k \in ks THEN "yes" ELSE "no"
    BY <1>1, <1>5, <1>9 DEF Ext!search
  <2>2. ExtInv' /\ C' = C
    BY <1>3, <1>4, <1>6, <2>1
  <2>3. Ext!AsTable!search(k)
    BY <1>5, <2>1, <2>2 DEF Ext!AsTable!search, C
  <2>4. QED
    BY <2>2, <2>3 DEF Ext!AsTable!Next
<1>10. ASSUME NEW k \in Keys, Ext!remove(k)
       PROVE  ExtInv' /\ Ext!AsTable!Next
  <2>1. PICK u : u = Without(t, k)
    OBVIOUS
  <2>2. Ext!Become(u) /\ reply' = IF k \in ks THEN "yes" ELSE "no"
    BY <1>1, <1>5, <1>10, <2>1 DEF Ext!remove, Without
  <2>3. HasKeys(u, ks \ {k})
    BY <1>2, <1>3, <2>1, KeyLeaves
  <2>4. ExtInv' /\ C' = OneEach(ks \ {k})
    BY <1>6, <2>2, <2>3
  <2>5. CASE k \in ks
    <3>1. C[k] > 0
      BY <1>5, <2>5
    <3>2. C' = [C EXCEPT ![k] = @ - 1]
      BY <1>4, <2>4, <2>5, OneMore
    <3>3. Ext!AsTable!remove(k)
      BY <2>2, <2>5, <3>1, <3>2 DEF Ext!AsTable!remove, Ext!AsTable!Kept, C
    <3>4. QED
      BY <2>4, <3>3 DEF Ext!AsTable!Next
  <2>6. CASE k \notin ks
    <3>1. ks \ {k} = ks
      BY <2>6
    <3>2. C[k] = 0 /\ C' = C
      BY <1>4, <1>5, <2>4, <2>6, <3>1
    <3>3. Ext!AsTable!remove(k)
      BY <2>2, <2>6, <3>2 DEF Ext!AsTable!remove, C
    <3>4. QED
      BY <2>4, <3>3 DEF Ext!AsTable!Next
  <2>7. QED
    BY <2>5, <2>6
<1>11. ASSUME NEW l \in SUBSET Keys, Ext!assign(l)
       PROVE  ExtInv' /\ Ext!AsTable!Next
  <2>1. Ext!Become(Ext!CopyOf(l)) /\ reply' = "yes"
    BY <1>11 DEF Ext!assign
  <2>2. ExtInv' /\ C' = OneEach(l)
    BY <1>6, <2>1, CopyHasKeys
  <2>3. Ext!AsTable!assign(l)
    BY <2>1, <2>2 DEF Ext!AsTable!assign, OneEach, C
  <2>4. QED
    BY <2>2, <2>3 DEF Ext!AsTable!Next
<1>12. ASSUME Ext!clear \/ Ext!move_away
       PROVE  ExtInv' /\ Ext!AsTable!Next
  <2>1. Ext!Become(Ext!NewTable) /\ reply' = "yes"
    BY <1>12 DEF Ext!clear, Ext!move_away
  <2>2. HasKeys(Ext!NewTable, {})
    BY NewIsGood DEF HasKeys
  <2>3. ExtInv' /\ C' = OneEach({})
    BY <1>6, <2>1, <2>2
  <2>4. OneEach({}) = [k \in Keys |-> 0]
    BY DEF OneEach
  <2>5. Ext!AsTable!clear
    BY <2>1, <2>3, <2>4 DEF Ext!AsTable!clear, Ext!AsTable!Empty, C
  <2>6. QED
    BY <2>3, <2>5 DEF Ext!AsTable!Next
<1>13. ASSUME Ext!copy
       PROVE  ExtInv' /\ Ext!AsTable!Next
  <2>1. Ext!Become(Ext!CopyOf(ks)) /\ reply' = "yes"
    BY <1>1, <1>2, <1>13 DEF Ext!copy
  <2>2. ks \in SUBSET Keys
    BY <1>3 DEF HasKeys
  <2>3. ExtInv' /\ C' = C
    BY <1>4, <1>6, <2>1, <2>2, CopyHasKeys
  <2>4. Ext!AsTable!copy
    BY <2>1, <2>3 DEF Ext!AsTable!copy, C
  <2>5. QED
    BY <2>3, <2>4 DEF Ext!AsTable!Next
<1>14. QED
  BY <1>7, <1>8, <1>9, <1>10, <1>11, <1>12, <1>13 DEF Ext!Next

LEMMA ExtAlways == Spec => [](kind = "extendible" => ExtInv)
<1>1. Init => (kind = "extendible" => ExtInv)
  BY ExtInit DEF Init, ArraysInit, TablesInit
<1>2. (kind = "extendible" => ExtInv) /\ [Next]_vars => (kind = "extendible" => ExtInv)'
  <2> SUFFICES ASSUME kind = "extendible" => ExtInv, [Next]_vars, kind' = "extendible"
               PROVE  ExtInv'
    OBVIOUS
  <2>1. CASE Next
    <3>1. kind = "extendible" /\ ExtInv
      BY <2>1 DEF Next
    <3>2. Ext!Next
      BY <2>1, <3>1 DEF Next
    <3>3. QED
      BY <3>1, <3>2, ExtStep
  <2>2. CASE UNCHANGED vars
    <3>1. /\ global_depth' = global_depth /\ directory' = directory
          /\ all_buckets' = all_buckets /\ kind' = kind
      BY <2>2 DEF vars, tableVars
    <3>2. ExtInv
      BY <3>1
    <3>3. QED
      BY <3>1, <3>2 DEF ExtInv, Ext!This
  <2>3. QED
    BY <2>1, <2>2
<1>3. QED
  BY <1>1, <1>2, PTL DEF Spec

\* The slots of a bucket are p, p + 2^d, p + 2 * 2^d and so on.
LEMMA SlotCount ==
  ASSUME NEW t, Good(t), NEW b \in 1..Len(t.all_buckets)
  PROVE  Cardinality({i \in Row(t) : t.directory[i] = b})
           = Ext!Bit[t.global_depth - t.all_buckets[b].local_depth]
<1> DEFINE d == t.all_buckets[b].local_depth
           S == {i \in Row(t) : t.directory[i] = b}
<1>1. d \in Nat /\ t.global_depth - d \in Nat /\ d + (t.global_depth - d) = t.global_depth
  <2>1. d \in Nat /\ t.global_depth \in Nat /\ d <= t.global_depth
    BY GoodTyped
  <2>2. QED
    BY <2>1
<1>2. PICK P \in Nat : P = Ext!Bit[d] /\ P > 0
  BY <1>1, BitPositive
<1>3. PICK Q \in Nat : Q = Ext!Bit[t.global_depth - d]
  BY <1>1, BitPositive
<1>4. Row(t) = 0..(P * Q - 1)
  <2>1. PICK e \in Nat : e = t.global_depth - d /\ d + e = t.global_depth
    BY <1>1
  <2>2. Ext!Bit[d + e] = P * Q
    BY <1>1, <1>2, <1>3, <2>1, BitAdds
  <2>3. QED
    BY <2>1, <2>2 DEF Row
<1>5. PICK p : EndsIn(t, b, p)
  BY DEF Good, GoodBucket
<1>6. p \in 0..(P - 1) /\ \A i \in Row(t) : t.directory[i] = b <=> i % P = p
  BY <1>2, <1>5 DEF EndsIn
<1> HIDE DEF d
<1> DEFINE F == [j \in 0..(Q - 1) |-> P * j + p]
<1>7. ASSUME NEW j \in 0..(Q - 1) PROVE P * j + p \in S
  <2>1. j + 1 <= Q /\ j \in Nat
    OBVIOUS
  <2>2. P * (j + 1) <= P * Q /\ P * (j + 1) = P * j + P /\ P * j \in Nat /\ P * Q \in Nat
    BY <2>1
  <2>3. P * j + p \in 0..(P * Q - 1)
    BY <1>6, <2>2
  <2>4. (P * j + p) % P = p
    BY <1>2, <1>6, <2>1, Remainder
  <2>5. QED
    BY <1>4, <1>6, <2>3, <2>4
<1>8. ASSUME NEW i \in S PROVE \E j \in 0..(Q - 1) : P * j + p = i
  <2>1. i \in Nat /\ i < P * Q /\ i % P = p
    BY <1>4, <1>6
  <2>2. PICK q \in Nat, s \in 0..(P - 1) : i = P * q + s /\ i % P = s
    <3>1. PICK q, s : Parts(i, P, q, s)
      BY <1>2, <2>1, Division
    <3>2. q \in Nat /\ s \in 0..(P - 1) /\ i = P * q + s /\ i % P = s
      BY <3>1 DEF Parts
    <3>3. QED
      BY <3>2
  <2>3. ~(Q <= q)
    <3> SUFFICES ASSUME Q <= q PROVE FALSE
      OBVIOUS
    <3>1. P * Q <= P * q
      OBVIOUS
    <3>2. P * q \in Nat /\ P * Q \in Nat
      OBVIOUS
    <3>3. QED
      BY <2>1, <2>2, <3>1, <3>2
  <2>4. q \in 0..(Q - 1)
    BY <2>3
  <2>5. QED
    BY <2>1, <2>2, <2>4
<1>9. ASSUME NEW i \in 0..(Q - 1), NEW j \in 0..(Q - 1), P * i + p = P * j + p
      PROVE  i = j
  <2>1. i \in Nat /\ j \in Nat
    OBVIOUS
  <2>2. (P * i + p) \div P = i /\ (P * j + p) \div P = j
    BY <1>2, <1>6, <2>1, Remainder
  <2>3. QED
    BY <1>9, <2>2
<1> HIDE DEF S
<1>10. F \in Bijection(0..(Q - 1), S)
  <2>1. F \in [0..(Q - 1) -> S]
    BY <1>7
  <2>2. \A i, j \in DOMAIN F : F[i] = F[j] => i = j
    BY <1>9
  <2>3. \A i \in S : \E j \in 0..(Q - 1) : F[j] = i
    BY <1>8
  <2> HIDE DEF F
  <2>4. QED
    BY <2>1, <2>2, <2>3 DEF Bijection, Injection, Surjection, IsInjective
<1>11. IsFiniteSet(0..(Q - 1)) /\ Cardinality(0..(Q - 1)) = Q
  BY Slots
<1>12. Cardinality(S) = Q
  <2> HIDE DEF F
  <2>1. QED
    BY <1>10, <1>11, FS_Bijection DEF ExistsBijection
<1>13. QED
  BY <1>3, <1>12 DEF S, d

(***************************************************************************)
(* ExtendibleHashTable, through splits, doublings, removals and copies: a  *)
(* bucket of local depth d has the 2^(global_depth - d) slots that agree   *)
(* with its keys in their low d bits, and never more keys than it has room *)
(* for.                                                                    *)
(***************************************************************************)
THEOREM DirectoryStaysRight == Spec => []DirectoryAgrees
<1>1. (kind = "extendible" => ExtInv) => DirectoryAgrees
  <2> SUFFICES ASSUME kind = "extendible", ExtInv PROVE Ext!DirectoryAgrees
    BY DEF DirectoryAgrees
  <2>1. PICK t : t = Ext!This
    OBVIOUS
  <2>2. /\ Good(t) /\ t.global_depth = global_depth /\ t.directory = directory
        /\ t.all_buckets = all_buckets
    BY <2>1 DEF ExtInv, Ext!This
  <2>3. DOMAIN directory = Row(t) /\ DOMAIN all_buckets = 1..Len(t.all_buckets)
    BY <2>2, GoodTyped
  <2>4. Row(t) = 0..(Ext!Bit[global_depth] - 1)
    BY <2>2 DEF Row
  <2>5. ASSUME NEW b \in 1..Len(t.all_buckets)
        PROVE  LET d == all_buckets[b].local_depth
                   slots == {i \in DOMAIN directory : directory[i] = b}
               IN  /\ d <= global_depth
                   /\ Ext!Cardinality(slots) = Ext!Bit[global_depth - d]
                   /\ Ext!Cardinality(all_buckets[b].keys) <= BUCKET_CAPACITY
                   /\ \A i \in slots, j \in slots : i % Ext!Bit[d] = j % Ext!Bit[d]
                   /\ \A i \in slots, k \in all_buckets[b].keys :
                        Hash[k] % Ext!Bit[d] = i % Ext!Bit[d]
    <3> DEFINE d == all_buckets[b].local_depth
               slots == {i \in DOMAIN directory : directory[i] = b}
    <3>1. Cardinality(slots) = Ext!Bit[global_depth - d]
      BY <2>2, <2>3, SlotCount
    <3>2. d <= global_depth /\ Cardinality(all_buckets[b].keys) <= BUCKET_CAPACITY
      BY <2>2 DEF Good, GoodBucket
    <3>3. PICK p : EndsIn(t, b, p)
      BY <2>2 DEF Good, GoodBucket
    <3>4. /\ \A i \in slots : i % Ext!Bit[d] = p
          /\ \A k \in all_buckets[b].keys : Hash[k] % Ext!Bit[d] = p
      BY <2>2, <2>3, <3>3 DEF EndsIn
    <3>5. /\ Ext!Cardinality(slots) = Cardinality(slots)
          /\ Ext!Cardinality(all_buckets[b].keys) = Cardinality(all_buckets[b].keys)
      BY DEF Ext!Cardinality, Cardinality
    <3>6. QED
      BY <3>1, <3>2, <3>4, <3>5
  <2>6. QED
    BY <2>3, <2>4, <2>5 DEF Ext!DirectoryAgrees
<1>2. QED
  BY <1>1, ExtAlways, PTL

(***************************************************************************)
(* ExtendibleHashTable is a set of keys: its insertions, removals,         *)
(* searches, copies and assignments are steps of TableSpec, with the same  *)
(* answers.                                                                *)
(***************************************************************************)
THEOREM ExtendibleTableIsTable ==
  Spec => [][kind = "extendible" => [Ext!AsTable!Next]_<<Ext!Contents, reply>>]_vars
<1>1. ASSUME kind = "extendible" => ExtInv, [Next]_vars
      PROVE  [kind = "extendible" => [Ext!AsTable!Next]_<<Ext!Contents, reply>>]_vars
  <2>1. CASE Next
    <3> SUFFICES ASSUME kind = "extendible"
                 PROVE  [Ext!AsTable!Next]_<<Ext!Contents, reply>>
      OBVIOUS
    <3>1. Ext!Next
      BY <2>1 DEF Next
    <3>2. QED
      BY <1>1, <3>1, ExtStep
  <2>2. CASE UNCHANGED vars
    BY <2>2
  <2>3. QED
    BY <1>1, <2>1, <2>2
<1>2. QED
  BY <1>1, ExtAlways, PTL DEF Spec

(***************************************************************************)
(* All three hash tables are the abstract table, whatever they grow to,    *)
(* shrink to, rehash, split or copy.                                       *)
(***************************************************************************)
THEOREM AllTablesAreTables == Spec => HashTablesAreTables
BY ChainedTableIsTable, OpenTableIsTable, ExtendibleTableIsTable, PTL DEF HashTablesAreTables

-----------------------------------------------------------------------------
Dyn == INSTANCE DynDequeProofs
Fix == INSTANCE FixedDequeProofs WITH CAP <- MIN_SIZE
Lru == INSTANCE LRUCacheProofs WITH Keys <- CacheKeys

-----------------------------------------------------------------------------
(* The instances of a buffer in Structures and in its proofs are the same. *)

LEMMA DynLegal == Dyn!Legal
BY BuffersAreLegal
   DEF Deque!Legal, Deque!RawIsNoItem, Deque!MinSizeGrows, Deque!WordIsLarge,
       Dyn!Legal, Dyn!RawIsNoItem, Dyn!MinSizeGrows, Dyn!WordIsLarge

LEMMA DynInit == Deque!Init => Dyn!Init
BY DEF Deque!Init, Deque!RawArray, Dyn!Init, Dyn!RawArray

LEMMA DynNext ==
  /\ Deque!Next => Dyn!Next
  /\ Deque!QueueNext => Dyn!QueueNext
<1>1. ASSUME NEW x \in Items
      PROVE  /\ Deque!push_back(x) <=> Dyn!push_back(x)
             /\ Deque!push_front(x) <=> Dyn!push_front(x)
  BY DEF Deque!push_back, Deque!push_front, Deque!Push, Deque!Store, Deque!Packed,
         Deque!Less, Deque!GrownCap, Deque!After, Deque!Before,
         Dyn!push_back, Dyn!push_front, Dyn!Push, Dyn!Store, Dyn!Packed,
         Dyn!Less, Dyn!GrownCap, Dyn!After, Dyn!Before
<1>2. /\ Deque!pop_back <=> Dyn!pop_back
      /\ Deque!pop_front <=> Dyn!pop_front
  BY DEF Deque!pop_back, Deque!pop_front, Deque!Underflow, Deque!Pop, Deque!Slot,
         Deque!Store, Deque!Packed, Deque!Less, Deque!ShrunkCap, Deque!After,
         Deque!Before, Dyn!pop_back, Dyn!pop_front, Dyn!Underflow, Dyn!Pop,
         Dyn!Slot, Dyn!Store, Dyn!Packed, Dyn!Less, Dyn!ShrunkCap, Dyn!After,
         Dyn!Before
<1>3. (Deque!front <=> Dyn!front) /\ (Deque!back <=> Dyn!back)
  BY DEF Deque!front, Deque!back, Deque!Underflow, Deque!Peek, Deque!Slot,
         Dyn!front, Dyn!back, Dyn!Underflow, Dyn!Peek, Dyn!Slot
<1>4. (Deque!clear <=> Dyn!clear) /\ (Deque!move_away <=> Dyn!move_away)
  BY DEF Deque!clear, Deque!move_away, Deque!RawArray,
         Dyn!clear, Dyn!move_away, Dyn!RawArray
<1>5. /\ Deque!copy_queue <=> Dyn!copy_queue
      /\ Deque!copy_deque <=> Dyn!copy_deque
  BY DEF Deque!copy_deque, Deque!copy_queue, Deque!Packed, Deque!Contents,
         Deque!Slot, Deque!Less, Dyn!copy_deque, Dyn!copy_queue, Dyn!Packed,
         Dyn!Contents, Dyn!Slot, Dyn!Less
<1>6. QED
  BY <1>1, <1>2, <1>3, <1>4, <1>5
     DEF Deque!Next, Deque!QueueNext, Deque!put, Deque!get, Deque!rear,
         Dyn!Next, Dyn!QueueNext, Dyn!put, Dyn!get, Dyn!rear

LEMMA DynSays ==
  /\ Dyn!LiveRange => Deque!LiveRange
  /\ Dyn!RoomLeft => Deque!RoomLeft
  /\ Dyn!TypeOK => Deque!TypeOK
BY DEF Deque!LiveRange, Deque!RoomLeft, Deque!TypeOK,
       Dyn!LiveRange, Dyn!RoomLeft, Dyn!TypeOK

LEMMA DynAsDeque ==
  [Dyn!AsDeque!Next]_(Dyn!AsDeque!vars) => [Deque!AsDeque!Next]_(Deque!AsDeque!vars)
<1>1. Dyn!Contents = Deque!Contents /\ Dyn!Contents' = Deque!Contents'
  BY DEF Dyn!Contents, Dyn!Slot, Deque!Contents, Deque!Slot
<1>2. QED
  BY <1>1 DEF
    Deque!AsDeque!Next, Deque!AsDeque!vars, Deque!AsDeque!push_back,
    Deque!AsDeque!push_front, Deque!AsDeque!Push, Deque!AsDeque!pop_back,
    Deque!AsDeque!pop_front, Deque!AsDeque!Underflow, Deque!AsDeque!front,
    Deque!AsDeque!back, Deque!AsDeque!Empty, Deque!AsDeque!Copied,
    Dyn!AsDeque!Next, Dyn!AsDeque!vars, Dyn!AsDeque!push_back,
    Dyn!AsDeque!push_front, Dyn!AsDeque!Push, Dyn!AsDeque!pop_back,
    Dyn!AsDeque!pop_front, Dyn!AsDeque!Underflow, Dyn!AsDeque!front,
    Dyn!AsDeque!back, Dyn!AsDeque!Empty, Dyn!AsDeque!Copied

LEMMA FixLegal == Fix!Legal
BY BuffersAreLegal
   DEF FDeque!Legal, FDeque!RawIsNoItem, FDeque!CapPositive, FDeque!WordIsLarge,
       Fix!Legal, Fix!RawIsNoItem, Fix!CapPositive, Fix!WordIsLarge

LEMMA FixInit == FDeque!Init => Fix!Init
BY DEF FDeque!Init, Fix!Init

LEMMA FixNext ==
  /\ FDeque!Next => Fix!Next
  /\ FDeque!QueueNext => Fix!QueueNext
<1>1. ASSUME NEW x \in Items
      PROVE  /\ FDeque!push_back(x) <=> Fix!push_back(x)
             /\ FDeque!push_front(x) <=> Fix!push_front(x)
  BY DEF FDeque!push_back, FDeque!push_front, FDeque!Push, FDeque!Unchanged,
         FDeque!After, FDeque!Before, Fix!push_back, Fix!push_front, Fix!Push,
         Fix!Unchanged, Fix!After, Fix!Before
<1>2. /\ FDeque!pop_back <=> Fix!pop_back
      /\ FDeque!pop_front <=> Fix!pop_front
  BY DEF FDeque!pop_back, FDeque!pop_front, FDeque!Unchanged, FDeque!Pop,
         FDeque!Slot, FDeque!After, FDeque!Before, Fix!pop_back, Fix!pop_front,
         Fix!Unchanged, Fix!Pop, Fix!Slot, Fix!After, Fix!Before
<1>3. (FDeque!front <=> Fix!front) /\ (FDeque!back <=> Fix!back)
  BY DEF FDeque!front, FDeque!back, FDeque!Unchanged, FDeque!Peek, FDeque!Slot,
         Fix!front, Fix!back, Fix!Unchanged, Fix!Peek, Fix!Slot
<1>4. (FDeque!clear <=> Fix!clear) /\ (FDeque!move_away <=> Fix!move_away)
  BY DEF FDeque!clear, FDeque!move_away, Fix!clear, Fix!move_away
<1>5. /\ FDeque!copy_queue <=> Fix!copy_queue
      /\ FDeque!copy_deque <=> Fix!copy_deque
  BY DEF FDeque!copy_deque, FDeque!copy_queue, FDeque!Contents, FDeque!Slot,
         FDeque!Less, Fix!copy_deque, Fix!copy_queue, Fix!Contents, Fix!Slot,
         Fix!Less
<1>6. QED
  BY <1>1, <1>2, <1>3, <1>4, <1>5
     DEF FDeque!Next, FDeque!QueueNext, FDeque!put, FDeque!get, FDeque!rear,
         Fix!Next, Fix!QueueNext, Fix!put, Fix!get, Fix!rear

LEMMA FixAsDeque ==
  [Fix!AsDeque!Next]_(Fix!AsDeque!vars)
    => [FDeque!AsDeque!Next]_(FDeque!AsDeque!vars)
<1>1. Fix!Contents = FDeque!Contents /\ Fix!Contents' = FDeque!Contents'
  BY DEF Fix!Contents, Fix!Slot, FDeque!Contents, FDeque!Slot
<1>2. QED
  BY <1>1 DEF
    FDeque!AsDeque!Next, FDeque!AsDeque!vars, FDeque!AsDeque!push_back,
    FDeque!AsDeque!push_front, FDeque!AsDeque!Push, FDeque!AsDeque!pop_back,
    FDeque!AsDeque!pop_front, FDeque!AsDeque!Underflow, FDeque!AsDeque!front,
    FDeque!AsDeque!back, FDeque!AsDeque!Empty, FDeque!AsDeque!Copied,
    Fix!AsDeque!Next, Fix!AsDeque!vars, Fix!AsDeque!push_back,
    Fix!AsDeque!push_front, Fix!AsDeque!Push, Fix!AsDeque!pop_back,
    Fix!AsDeque!pop_front, Fix!AsDeque!Underflow, Fix!AsDeque!front,
    Fix!AsDeque!back, Fix!AsDeque!Empty, Fix!AsDeque!Copied

-----------------------------------------------------------------------------
(* The caches, likewise. *)

LEMMA LruLegal == Lru!Legal
BY CachesAreLegal
   DEF Cache!Legal, Cache!CapsNat, Cache!NodesFinite, Cache!NoneIsNoNode,
       Cache!NodeType, Lru!Legal, Lru!CapsNat, Lru!NodesFinite,
       Lru!NoneIsNoNode, Lru!NodeType, Cache!IsFiniteSet, Lru!IsFiniteSet

LEMMA LruInit == Cache!Init => Lru!Init
BY DEF Cache!Init, Cache!NoIndex, Lru!Init, Lru!NoIndex

LEMMA LruCardinality == \A S : Lru!Cardinality(S) = Cache!Cardinality(S)
BY DEF Lru!Cardinality, Cache!Cardinality

LEMMA LruLists ==
  /\ \A o : Lru!ListOf(o) = Cache!ListOf(o)
  /\ \A o : Lru!ListOf(o)' = Cache!ListOf(o)'
BY LruCardinality DEF Lru!ListOf, Lru!ListIn, Cache!ListOf, Cache!ListIn

LEMMA LruNext == Cache!Next => Lru!Next
<1>1. \A o : Lru!destroy_all(o) = Cache!destroy_all(o)
  BY LruLists DEF Lru!destroy_all, Lru!Elements, Cache!destroy_all, Cache!Elements
<1>2. ASSUME NEW c \in Caches, NEW k \in CacheKeys, NEW v \in Values
      PROVE  Cache!put_impl(c, k, v) <=> Lru!put_impl(c, k, v)
  <2>1. \A m, n : /\ Cache!unlink(m, n) = Lru!unlink(m, n)
                  /\ Cache!push_front(m, n) = Lru!push_front(m, n)
    <3>1. \A m, n : Cache!unlink(m, n) = Lru!unlink(m, n)
      BY DEF Cache!unlink, Lru!unlink
    <3>2. \A m, n : Cache!push_front(m, n) = Lru!push_front(m, n)
      BY DEF Cache!push_front, Lru!push_front
    <3>3. QED
      BY <3>1, <3>2
  <2>2. \A m : Cache!evict_tail(m) = Lru!evict_tail(m)
    BY <2>1 DEF Cache!evict_tail, Lru!evict_tail
  <2>3. \A m : Cache!Apply(c, m) <=> Lru!Apply(c, m)
    BY DEF Cache!Apply, Lru!Apply
  <2>4. Cache!Mem(c) = Lru!Mem(c)
    BY DEF Cache!Mem, Lru!Mem
  <2>5. Cache!PutExisting(c, k, v) <=> Lru!PutExisting(c, k, v)
    BY <2>1, <2>3, <2>4 DEF Cache!PutExisting, Lru!PutExisting
  <2>6. Cache!PutNew(c, k, v) <=> Lru!PutNew(c, k, v)
    <3> DEFINE full == cache[c].cap > 0 /\ cache[c].num_items = cache[c].cap
               m == IF full THEN Cache!evict_tail(Cache!Mem(c)) ELSE Cache!Mem(c)
               q == IF full THEN Lru!evict_tail(Lru!Mem(c)) ELSE Lru!Mem(c)
               node == [key |-> k, value |-> v, prev |-> None, next |-> None]
               added(p, n) == [p EXCEPT !.obj.index[k] = n, !.obj.num_items = @ + 1]
    <3>1. m = q
      BY <2>2, <2>4
    <3>2. Lru!PutNew(c, k, v) <=>
            /\ cache[c].index[k] = None
            /\ \E n \in Nodes :
                 /\ q.heap[n] = None
                 /\ Lru!Apply(c, added(Lru!push_front([q EXCEPT !.heap[n] = node], n), n))
      BY ZenonT(30) DEF Lru!PutNew
    <3>3. Cache!PutNew(c, k, v) <=>
            /\ cache[c].index[k] = None
            /\ \E n \in Nodes :
                 /\ m.heap[n] = None
                 /\ Cache!Apply(c, added(Cache!push_front([m EXCEPT !.heap[n] = node], n), n))
      BY ZenonT(30) DEF Cache!PutNew
    <3> HIDE DEF m, q, node, added
    <3>4. QED
      BY <2>1, <2>3, <3>1, <3>2, <3>3, ZenonT(30)
  <2>7. QED
    BY <2>5, <2>6 DEF Cache!put_impl, Lru!put_impl, Cache!Usable, Lru!Usable
<1>3. ASSUME NEW c \in Caches, NEW k \in CacheKeys
      PROVE  Cache!get(c, k) <=> Lru!get(c, k)
  <2>1. \A m, n : /\ Cache!unlink(m, n) = Lru!unlink(m, n)
                  /\ Cache!push_front(m, n) = Lru!push_front(m, n)
    <3>1. \A m, n : Cache!unlink(m, n) = Lru!unlink(m, n)
      BY DEF Cache!unlink, Lru!unlink
    <3>2. \A m, n : Cache!push_front(m, n) = Lru!push_front(m, n)
      BY DEF Cache!push_front, Lru!push_front
    <3>3. QED
      BY <3>1, <3>2
  <2>2. \A m : Cache!Apply(c, m) <=> Lru!Apply(c, m)
    BY DEF Cache!Apply, Lru!Apply
  <2>3. Cache!Mem(c) = Lru!Mem(c) /\ (Cache!Usable(c) <=> Lru!Usable(c))
    BY DEF Cache!Mem, Lru!Mem, Cache!Usable, Lru!Usable
  <2>4. QED
    BY <2>1, <2>2, <2>3 DEF Cache!get, Lru!get
<1>4. ASSUME NEW c \in Caches
      PROVE  Cache!clear(c) <=> Lru!clear(c)
  BY <1>1 DEF Cache!clear, Cache!NoIndex, Lru!clear, Lru!NoIndex
<1>5. ASSUME NEW c \in Caches, NEW s \in Caches
      PROVE  /\ Cache!move_construct(c, s) <=> Lru!move_construct(c, s)
             /\ Cache!move_assign(c, s) <=> Lru!move_assign(c, s)
  BY <1>1 DEF Cache!move_construct, Cache!move_assign, Cache!Usable, Cache!NoIndex,
              Lru!move_construct, Lru!move_assign, Lru!Usable, Lru!NoIndex
<1>6. QED
  BY <1>2, <1>3, <1>4, <1>5 DEF Cache!Next, Lru!Next

LEMMA LruSays ==
  /\ Lru!TypeOK => Cache!TypeOK
  /\ Lru!ListAndIndexAgree => Cache!ListAndIndexAgree
  /\ Lru!NodesOwnedOnce => Cache!NodesOwnedOnce
<1>1. Lru!TypeOK => Cache!TypeOK
  BY LruCardinality DEF Lru!TypeOK, Lru!NodeType, Cache!TypeOK, Cache!NodeType
<1>2. ASSUME NEW c \in Caches, Lru!Consistent(c) PROVE Cache!Consistent(c)
  <2> DEFINE s == Cache!ListOf(cache[c])
             e == Cache!Elements(s)
  <2>1. /\ Lru!ListOf(cache[c]) = s /\ Lru!Elements(s) = e
        /\ Lru!Cardinality(e) = Cache!Cardinality(e)
    BY LruLists, LruCardinality DEF Lru!Elements, Cache!Elements
  <2> HIDE DEF s, e
  <2>2. /\ cache[c].num_items = Len(s) /\ Cache!Cardinality(e) = Len(s)
        /\ cache[c].tail = IF Len(s) = 0 THEN None ELSE s[Len(s)]
        /\ \A i \in 1..Len(s) :
             /\ heap[s[i]] # None
             /\ heap[s[i]].prev = IF i = 1 THEN None ELSE s[i - 1]
             /\ heap[s[i]].next = IF i = Len(s) THEN None ELSE s[i + 1]
        /\ \A k \in CacheKeys : cache[c].index[k] # None =>
             cache[c].index[k] \in e /\ heap[cache[c].index[k]].key = k
        /\ \A m \in e : cache[c].index[heap[m].key] = m
    BY <1>2, <2>1 DEF Lru!Consistent
  <2>3. QED
    BY <2>2 DEF Cache!Consistent, s, e
<1>3. \A c \in Caches : Lru!Listed(c) = Cache!Listed(c)
  BY LruLists DEF Lru!Listed, Lru!Elements, Cache!Listed, Cache!Elements
<1>4. Lru!NodesOwnedOnce => Cache!NodesOwnedOnce
  BY <1>3, LruCardinality DEF Lru!NodesOwnedOnce, Cache!NodesOwnedOnce
<1>5. QED
  BY <1>1, <1>2, <1>4 DEF Lru!ListAndIndexAgree, Cache!ListAndIndexAgree

LEMMA LruAsLRU ==
  /\ Lru!LRU!Init => Cache!LRU!Init
  /\ [Lru!LRU!Next]_(Lru!LRU!vars) => [Cache!LRU!Next]_(Cache!LRU!vars)
<1>1. Lru!Entries = Cache!Entries /\ Lru!Entries' = Cache!Entries'
  BY LruLists DEF Lru!Entries, Cache!Entries
<1>2. Lru!LRU!Init => Cache!LRU!Init
  BY <1>1 DEF Lru!LRU!Init, Cache!LRU!Init
<1>3. ASSUME NEW c \in Caches
      PROVE  /\ \A e, s : Lru!LRU!Uses(c, e, s) <=> Cache!LRU!Uses(c, e, s)
             /\ \A s, i : Lru!LRU!WithoutAt(s, i) = Cache!LRU!WithoutAt(s, i)
             /\ \A s, k : Lru!LRU!Holds(s, k) <=> Cache!LRU!Holds(s, k)
  BY <1>1 DEF Lru!LRU!Uses, Lru!LRU!WithoutAt, Lru!LRU!Holds,
              Cache!LRU!Uses, Cache!LRU!WithoutAt, Cache!LRU!Holds
<1>4. ASSUME NEW c \in Caches, NEW k \in CacheKeys, NEW v \in Values
      PROVE  Lru!LRU!put(c, k, v) => Cache!LRU!put(c, k, v)
  BY <1>1, <1>3 DEF Lru!LRU!put, Cache!LRU!put
<1>5. ASSUME NEW c \in Caches, NEW k \in CacheKeys
       PROVE  Lru!LRU!get(c, k) => Cache!LRU!get(c, k)
  BY <1>1, <1>3 DEF Lru!LRU!get, Cache!LRU!get
<1>6. ASSUME NEW c \in Caches, NEW s \in Caches
      PROVE  /\ Lru!LRU!clear(c) => Cache!LRU!clear(c)
             /\ Lru!LRU!move(c, s) => Cache!LRU!move(c, s)
  BY <1>1 DEF Lru!LRU!clear, Lru!LRU!move, Cache!LRU!clear, Cache!LRU!move
<1>7. Lru!LRU!Next => Cache!LRU!Next
  <2> SUFFICES ASSUME Lru!LRU!Next PROVE Cache!LRU!Next
    OBVIOUS
  <2>1. PICK c \in Caches :
          \/ \E k \in CacheKeys, v \in Values : Lru!LRU!put(c, k, v)
          \/ \E k \in CacheKeys : Lru!LRU!get(c, k)
          \/ Lru!LRU!clear(c)
          \/ \E s \in Caches \ {c} : Lru!LRU!move(c, s)
    BY DEF Lru!LRU!Next
  <2>2. CASE \E k \in CacheKeys, v \in Values : Lru!LRU!put(c, k, v)
    BY <1>4, <2>2 DEF Cache!LRU!Next
  <2>3. CASE \E k \in CacheKeys : Lru!LRU!get(c, k)
    <3>1. PICK k \in CacheKeys : Lru!LRU!get(c, k)
      BY <2>3
    <3>2. Cache!LRU!get(c, k)
      BY <1>5, <3>1
    <3>3. QED
      BY <3>2 DEF Cache!LRU!Next
  <2>4. CASE Lru!LRU!clear(c)
    BY <1>6, <2>4 DEF Cache!LRU!Next
  <2>5. CASE \E s \in Caches \ {c} : Lru!LRU!move(c, s)
    BY <1>6, <2>5 DEF Cache!LRU!Next
  <2>6. QED
    BY <2>1, <2>2, <2>3, <2>4, <2>5
<1>8. Lru!LRU!vars = Cache!LRU!vars /\ Lru!LRU!vars' = Cache!LRU!vars'
  BY <1>1 DEF Lru!LRU!vars, Cache!LRU!vars
<1>9. QED
  BY <1>2, <1>7, <1>8

-----------------------------------------------------------------------------
(* The buffers. *)

BuffersInv ==
  /\ kind \in ArrayKinds
  /\ kind = "DynDeque" => Dyn!DInv
  /\ kind = "DynQueue" => Dyn!QInv
  /\ kind = "FixedDeque" => Fix!DInv
  /\ kind = "FixedQueue" => Fix!QInv

LEMMA BuffersInit1 == Init => BuffersInv
<1> SUFFICES ASSUME Init PROVE BuffersInv
  OBVIOUS
<1>1. kind \in ArrayKinds /\ BuffersInit
  BY DEF Init, ArraysInit
<1>2. ASSUME kind \in {"DynDeque", "DynQueue"}
      PROVE  Dyn!DInv
  <2>1. Deque!Init
    BY <1>1, <1>2 DEF BuffersInit, Buffers, Fixed
  <2>2. QED
    BY <2>1, DynLegal, DynInit, Dyn!InitStep DEF Dyn!DInv
<1>3. ASSUME kind \in {"FixedDeque", "FixedQueue"}
      PROVE  Fix!DInv
  <2>1. FDeque!Init
    BY <1>1, <1>3 DEF BuffersInit, Fixed
  <2>2. QED
    BY <2>1, FixLegal, FixInit, Fix!InitStep DEF Fix!DInv
<1>4. QED
  BY <1>1, <1>2, <1>3 DEF BuffersInv, Dyn!DInv, Dyn!QInv, Fix!DInv, Fix!QInv

\* A step of Structures is a step of the buffer that is followed.
LEMMA BuffersNext ==
  ASSUME kind \in ArrayKinds, [Next]_vars
  PROVE  /\ kind' = kind
         /\ kind = "DynDeque" => [Dyn!Next]_(Dyn!vars)
         /\ kind = "DynQueue" => [Dyn!QueueNext]_(Dyn!vars)
         /\ kind = "FixedDeque" => [Fix!Next]_(Fix!vars)
         /\ kind = "FixedQueue" => [Fix!QueueNext]_(Fix!vars)
<1>1. CASE Next
  BY <1>1, DynNext, FixNext DEF Next
<1>2. CASE UNCHANGED vars
  BY <1>2 DEF vars, bufferVars, Dyn!vars, Fix!vars
<1>3. QED
  BY <1>1, <1>2

\* Each buffer keeps its invariant and steps as a sequence.
LEMMA BuffersStep ==
  ASSUME ~CopyEmpty, BuffersInv, [Next]_vars
  PROVE  /\ BuffersInv'
         /\ kind \in Buffers \ Fixed => [Deque!AsDeque!Next]_(Deque!AsDeque!vars)
         /\ kind \in Fixed => [FDeque!AsDeque!Next]_(FDeque!AsDeque!vars)
<1>1. /\ kind \in ArrayKinds
      /\ kind' = kind
      /\ kind = "DynDeque" => [Dyn!Next]_(Dyn!vars)
      /\ kind = "DynQueue" => [Dyn!QueueNext]_(Dyn!vars)
      /\ kind = "FixedDeque" => [Fix!Next]_(Fix!vars)
      /\ kind = "FixedQueue" => [Fix!QueueNext]_(Fix!vars)
  BY BuffersNext DEF BuffersInv
<1>2. kind = "DynDeque" => Dyn!DInv' /\ [Dyn!AsDeque!Next]_(Dyn!AsDeque!vars)
  BY <1>1, DynLegal, Dyn!DequeStep DEF BuffersInv
<1>3. kind = "DynQueue" => Dyn!QInv' /\ [Dyn!AsDeque!Next]_(Dyn!AsDeque!vars)
  BY <1>1, DynLegal, Dyn!QueueStep DEF BuffersInv
<1>4. kind = "FixedDeque" => Fix!DInv' /\ [Fix!AsDeque!Next]_(Fix!AsDeque!vars)
  BY <1>1, FixLegal, Fix!DequeStep DEF BuffersInv
<1>5. kind = "FixedQueue" => Fix!QInv' /\ [Fix!AsDeque!Next]_(Fix!AsDeque!vars)
  BY <1>1, FixLegal, Fix!QueueStep DEF BuffersInv
<1>6. BuffersInv'
  BY <1>1, <1>2, <1>3, <1>4, <1>5 DEF BuffersInv
<1>7. kind \in Buffers \ Fixed => kind = "DynDeque" \/ kind = "DynQueue"
  BY DEF Buffers, Fixed
<1>8. kind \in Fixed => kind = "FixedDeque" \/ kind = "FixedQueue"
  BY DEF Fixed
<1>9. QED
  BY <1>2, <1>3, <1>4, <1>5, <1>6, <1>7, <1>8, DynAsDeque, FixAsDeque

\* The invariant of the buffers, for every bound on the items, capacity and
\* width of the index type.
THEOREM BuffersInvariance ==
  ASSUME ~CopyEmpty
  PROVE  Spec => []BuffersInv
<1>1. BuffersInv /\ [Next]_vars => BuffersInv'
  BY BuffersStep
<1>2. QED
  BY <1>1, BuffersInit1, PTL DEF Spec

LEMMA BuffersSay ==
  ASSUME BuffersInv, kind \in Buffers \ Fixed
  PROVE  Deque!LiveRange /\ Deque!RoomLeft /\ Deque!TypeOK
<1>1. Dyn!Shape
  BY DEF BuffersInv, Buffers, Fixed, Dyn!DInv, Dyn!QInv
<1>2. QED
  BY <1>1, DynLegal, DynSays, Dyn!ShapeSays

\* No push constructs over a live item, no pop or destructor misses one, no resize
\* leaks one, and the buffer has always grown before it is full.
THEOREM SlotsStayRight ==
  ASSUME ~CopyEmpty
  PROVE  Spec => []DynSlotsRight
<1>1. BuffersInv => DynSlotsRight
  BY BuffersSay DEF DynSlotsRight, DynLiveRange
<1>2. QED
  BY <1>1, BuffersInvariance, PTL

\* Every operation of the four buffers does to the items, in order, what
\* DequeSpec says, and returns or throws what it says.
THEOREM BuffersAreSequences ==
  ASSUME ~CopyEmpty
  PROVE  Spec => BuffersAreDeques
<1>1. BuffersInv /\ [Next]_vars
        => [/\ kind \in Buffers \ Fixed => [Deque!AsDeque!Next]_(Deque!AsDeque!vars)
            /\ kind \in Fixed => [FDeque!AsDeque!Next]_(FDeque!AsDeque!vars)]_vars
  BY BuffersStep
<1>2. QED
  BY <1>1, BuffersInvariance, PTL DEF Spec, BuffersAreDeques

-----------------------------------------------------------------------------
(* The caches. *)

CachesInv == kind \in ArrayKinds /\ (kind = "LRUCache" => Lru!CacheInv)

LEMMA CachesInit1 ==
  Init => CachesInv /\ (kind = "LRUCache" => Cache!LRU!Init)
<1> SUFFICES ASSUME Init
             PROVE  CachesInv /\ (kind = "LRUCache" => Cache!LRU!Init)
  OBVIOUS
<1>1. kind \in ArrayKinds /\ CachesInit
  BY DEF Init, ArraysInit
<1>2. ASSUME kind = "LRUCache" PROVE Lru!CacheInv /\ Lru!LRU!Init
  BY <1>1, <1>2, LruLegal, LruInit, Lru!InitStep DEF CachesInit
<1>3. QED
  BY <1>1, <1>2, LruAsLRU DEF CachesInv

LEMMA CachesStep ==
  ASSUME CachesInv, [Next]_vars
  PROVE  /\ CachesInv'
         /\ kind = "LRUCache" => [Cache!LRU!Next]_(Cache!LRU!vars)
<1>1. kind \in ArrayKinds /\ kind' = kind
  BY DEF CachesInv, Next, vars
<1>2. ASSUME kind = "LRUCache"
      PROVE  Lru!CacheInv' /\ [Lru!LRU!Next]_(Lru!LRU!vars)
  <2>1. [Lru!Next]_(Lru!vars)
    <3>1. CASE Next
      BY <1>2, <3>1, LruNext DEF Next
    <3>2. CASE UNCHANGED vars
      BY <3>2 DEF vars, cacheVars, Lru!vars
    <3>3. QED
      BY <3>1, <3>2
  <2>2. QED
    BY <1>2, <2>1, LruLegal, Lru!NextStep DEF CachesInv
<1>3. QED
  BY <1>1, <1>2, LruAsLRU DEF CachesInv

\* The invariant of the caches, for any number of caches, keys and nodes and
\* any capacities.
THEOREM CachesInvariance == Spec => []CachesInv
<1>1. CachesInv /\ [Next]_vars => CachesInv'
  BY CachesStep
<1>2. QED
  BY <1>1, CachesInit1, PTL DEF Spec

\* After any puts, gets, evictions, clears and moves, index and list of a cache
\* have the same entries.
THEOREM ListsAndIndexesAgree == Spec => []ListAndIndexAgree
<1>1. CachesInv => ListAndIndexAgree
  BY LruLegal, LruSays, Lru!InvConsistent
     DEF CachesInv, ListAndIndexAgree, Lru!ListAndIndexAgree
<1>2. QED
  BY <1>1, CachesInvariance, PTL

\* No cache leaks a node and no two delete the same one.
THEOREM EveryNodeOwnedOnce == Spec => []NodesOwnedOnce
<1>1. CachesInv => NodesOwnedOnce
  BY LruLegal, LruSays, Lru!InvOwned DEF CachesInv, NodesOwnedOnce
<1>2. QED
  BY <1>1, CachesInvariance, PTL

\* The caches of lrucache.hpp drop what was used longest ago, and only when full.
THEOREM CachesAreLRU == Spec => ImplementsLRU
<1>1. CachesInv /\ [Next]_vars
        => [kind = "LRUCache" => [Cache!LRU!Next]_(Cache!LRU!vars)]_vars
  BY CachesStep
<1>2. QED
  BY <1>1, CachesInit1, CachesInvariance, PTL DEF Spec, ImplementsLRU

\* The members of the buffers and the caches keep the types of their declarations.
THEOREM TypesKept ==
  ASSUME ~CopyEmpty
  PROVE  Spec => []TypeOK
<1>1. BuffersInv => (kind \in Buffers \ Fixed => Deque!TypeOK)
  BY BuffersSay
<1>2. CachesInv => (kind = "LRUCache" => Cache!TypeOK)
  BY LruLegal, LruSays, Lru!InvType DEF CachesInv
<1>3. BuffersInv /\ CachesInv => TypeOK
  BY <1>1, <1>2 DEF TypeOK
<1>4. QED
  BY <1>3, BuffersInvariance, CachesInvariance, PTL

=============================================================================
