--------------------------- MODULE UnionFindProofs ---------------------------
(***************************************************************************)
(* What is proved of the two forests of union-find, as the specification   *)
(* of Structures runs them: they are the partitions that the calls ask     *)
(* for, and they stay low.  First what stands in for induction, which      *)
(* StructuresProofs uses as well.                                          *)
(***************************************************************************)
EXTENDS Structures, FiniteSetTheorems, FunctionTheorems, WellFoundedInduction, TLAPS

LEMMA LeastOf ==
  ASSUME NEW T, T \subseteq Nat, T # {}
  PROVE  \E m \in T : \A n \in T : m <= n
<1>1. PICK m \in T : \A n \in T : ~(<<n, m>> \in OpToRel(<, Nat))
  BY NatLessThanWellFounded, WFMin
<1>2. \A n \in T : ~(n < m)
  BY <1>1 DEF OpToRel
<1>3. QED
  BY <1>2

\* What 0 has and n + 1 has with n, all have.
LEMMA Upwards ==
  ASSUME NEW N \in Nat, NEW S, 0 \in S, \A n \in 0..(N - 1) : n \in S => n + 1 \in S
  PROVE  \A n \in 0..N : n \in S
<1> DEFINE T == {n \in 0..N : n \notin S}
<1>1. ASSUME T # {} PROVE FALSE
  <2>1. PICK m \in T : \A n \in T : m <= n
    <3>1. T \subseteq Nat
      OBVIOUS
    <3> HIDE DEF T
    <3>2. QED
      BY <1>1, <3>1, LeastOf
  <2>2. m \in 0..N /\ m \notin S /\ m # 0
    OBVIOUS
  <2>3. m - 1 \in 0..(N - 1) /\ ~(m <= m - 1) /\ (m - 1) + 1 = m /\ m - 1 \in 0..N
    BY <2>2
  <2>4. m - 1 \in S
    BY <2>1, <2>3
  <2>5. QED
    BY <2>2, <2>3, <2>4
<1>2. QED
  BY <1>1

-----------------------------------------------------------------------------
(* A recursion over the numbers up to any n of D has a solution, by the    *)
(* least n for which it would have none.                                   *)

Solves(D, X, b, step, n, g) ==
  /\ g \in [0..n -> X]
  /\ \A i \in 0..n : g[i] = IF i = 0 THEN b ELSE step[i][g[i - 1]]

\* D has the numbers below its own; step leads from X to X; g is the recursion.
Segments(D) == D \subseteq Nat /\ \A n \in D : 0..n \subseteq D
Maps(D, X, step) == \A n \in D : \A x \in X : step[n][x] \in X
Follows(D, X, b, step, g) ==
  g \in [D -> X] /\ \A n \in D : g[n] = IF n = 0 THEN b ELSE step[n][g[n - 1]]

LEMMA OneSolution ==
  ASSUME NEW D, NEW X, NEW b, NEW step, NEW m \in Nat, NEW n \in Nat, m <= n,
         NEW g, Solves(D, X, b, step, m, g), NEW h, Solves(D, X, b, step, n, h)
  PROVE  \A i \in 0..m : g[i] = h[i]
<1> DEFINE T == {i \in 0..m : g[i] # h[i]}
<1>1. SUFFICES ASSUME T # {} PROVE FALSE
  OBVIOUS
<1>2. PICK i \in T : \A j \in T : i <= j
  <2>1. T \subseteq Nat
    OBVIOUS
  <2> HIDE DEF T
  <2>2. QED
    BY <1>1, <2>1, LeastOf
<1>3. i \in Nat /\ i \in 0..m /\ i \in 0..n /\ g[i] # h[i]
  OBVIOUS
<1>4. i # 0
  BY <1>3 DEF Solves
<1>5. i - 1 \in 0..m /\ ~(i <= i - 1)
  BY <1>3, <1>4
<1>6. g[i - 1] = h[i - 1]
  BY <1>2, <1>5
<1>7. QED
  BY <1>3, <1>4, <1>6 DEF Solves

LEMMA Recursion ==
  ASSUME NEW D, Segments(D), NEW X, NEW b \in X, NEW step, Maps(D, X, step)
  PROVE  \E g : Follows(D, X, b, step, g)
<1> DEFINE T == {n \in D : \A g : ~Solves(D, X, b, step, n, g)}
           V(n) == CHOOSE g : Solves(D, X, b, step, n, g)
           G == [n \in D |-> V(n)[n]]
<1>0. /\ D \subseteq Nat /\ \A n \in D : 0..n \subseteq D
      /\ \A n \in D : \A x \in X : step[n][x] \in X
  BY DEF Segments, Maps
<1>1. ASSUME T # {} PROVE FALSE
  <2>1. PICK m \in T : \A n \in T : m <= n
    <3>1. T \subseteq Nat
      BY <1>0
    <3> HIDE DEF T
    <3>2. QED
      BY <1>1, <3>1, LeastOf
  <2>2. m \in Nat /\ m \in D /\ \A g : ~Solves(D, X, b, step, m, g)
    BY <1>0
  <2>3. m # 0
    <3> SUFFICES ASSUME m = 0 PROVE FALSE
      OBVIOUS
    <3>1. Solves(D, X, b, step, m, [i \in 0..0 |-> b])
      BY DEF Solves
    <3>2. QED
      BY <2>2, <3>1
  <2>4. m - 1 \in D /\ ~(m <= m - 1) /\ m - 1 \in Nat
    <3>1. m - 1 \in 0..m
      BY <2>2, <2>3
    <3>2. 0..m \subseteq D
      BY <1>0, <2>2
    <3>3. QED
      BY <2>2, <3>1, <3>2
  <2>5. PICK g : Solves(D, X, b, step, m - 1, g)
    BY <2>1, <2>4
  <2> DEFINE h == [i \in 0..m |-> IF i = m THEN step[m][g[m - 1]] ELSE g[i]]
  <2>6. m - 1 \in 0..(m - 1) /\ \A i \in 0..m : i = m \/ i \in 0..(m - 1)
    BY <2>2, <2>3
  <2>7. g[m - 1] \in X /\ step[m][g[m - 1]] \in X
    BY <1>0, <2>2, <2>5, <2>6 DEF Solves
  <2>8. h \in [0..m -> X]
    BY <2>5, <2>6, <2>7 DEF Solves
  <2>9. ASSUME NEW i \in 0..m
        PROVE  h[i] = IF i = 0 THEN b ELSE step[i][h[i - 1]]
    <3>1. CASE i = m
      <4>1. m - 1 \in 0..m /\ m - 1 # m
        BY <2>2, <2>3
      <4>2. h[m - 1] = g[m - 1]
        BY <4>1
      <4>3. h[m] = step[m][g[m - 1]]
        BY <2>2
      <4>4. QED
        BY <2>3, <3>1, <4>2, <4>3
    <3>2. CASE i # m
      <4>1. i \in 0..(m - 1) /\ (i # 0 => i - 1 \in 0..m /\ i - 1 # m)
        BY <2>2, <3>2
      <4>2. h[i] = g[i] /\ (i # 0 => h[i - 1] = g[i - 1])
        BY <3>2, <4>1
      <4>3. g[i] = IF i = 0 THEN b ELSE step[i][g[i - 1]]
        BY <2>5, <4>1 DEF Solves
      <4>4. QED
        BY <4>2, <4>3
    <3>3. QED
      BY <3>1, <3>2
  <2> HIDE DEF h
  <2>10. Solves(D, X, b, step, m, h)
    BY <2>8, <2>9 DEF Solves
  <2>11. QED
    BY <2>2, <2>10
<1>2. ASSUME NEW n \in D PROVE Solves(D, X, b, step, n, V(n))
  <2>1. \E g : Solves(D, X, b, step, n, g)
    BY <1>1
  <2>2. QED
    BY <2>1
<1> HIDE DEF V
<1>3. \A n \in D : n \in Nat /\ n \in 0..n
  BY <1>0
<1>4. G \in [D -> X]
  BY <1>2, <1>3 DEF Solves
<1>5. ASSUME NEW n \in D PROVE G[n] = IF n = 0 THEN b ELSE step[n][G[n - 1]]
  <2>1. V(n)[n] = IF n = 0 THEN b ELSE step[n][V(n)[n - 1]]
    BY <1>2, <1>3 DEF Solves
  <2>2. CASE n = 0
    BY <2>1, <2>2
  <2>3. CASE n # 0
    <3>1. n - 1 \in 0..n /\ n - 1 \in 0..(n - 1) /\ n - 1 \in Nat /\ n - 1 <= n
      BY <1>3, <2>3
    <3>2. n - 1 \in D
      BY <1>0, <3>1
    <3>3. V(n - 1)[n - 1] = V(n)[n - 1]
      BY <1>2, <1>3, <3>1, <3>2, OneSolution
    <3>4. QED
      BY <2>1, <2>3, <3>2, <3>3
  <2>4. QED
    BY <2>2, <2>3
<1> HIDE DEF G
<1>6. QED
  BY <1>4, <1>5 DEF Follows

LEMMA TwoToDef ==
  Union!TwoTo = CHOOSE g : g = [n \in Nat |-> IF n = 0 THEN 1 ELSE 2 * g[n - 1]]
  BY ZenonT(30) DEF Union!TwoTo

LEMMA TwoToMaps ==
  /\ Union!TwoTo \in [Nat -> Nat]
  /\ Union!TwoTo[0] = 1
  /\ \A n \in Nat : Union!TwoTo[n + 1] = 2 * Union!TwoTo[n]
<1> DEFINE step == [n \in Nat |-> [x \in Nat |-> 2 * x]]
<1>1. PICK g \in [Nat -> Nat] : \A n \in Nat : g[n] = IF n = 0 THEN 1 ELSE step[n][g[n - 1]]
  <2>1. \A n \in Nat : \A x \in Nat : step[n][x] \in Nat
    OBVIOUS
  <2>2. Nat \subseteq Nat /\ \A n \in Nat : 0..n \subseteq Nat
    OBVIOUS
  <2>3. Segments(Nat) /\ Maps(Nat, Nat, step) /\ 1 \in Nat
    BY <2>1, <2>2 DEF Segments, Maps
  <2> HIDE DEF step
  <2>4. PICK g : Follows(Nat, Nat, 1, step, g)
    BY <2>3, Recursion
  <2>5. QED
    BY <2>4 DEF Follows
<1>2. ASSUME NEW n \in Nat PROVE g[n] = IF n = 0 THEN 1 ELSE 2 * g[n - 1]
  <2>1. n # 0 => n - 1 \in Nat
    OBVIOUS
  <2>2. QED
    BY <1>1, <2>1
<1>3. g = [n \in Nat |-> IF n = 0 THEN 1 ELSE 2 * g[n - 1]]
  BY <1>2
<1> DEFINE B == Union!TwoTo
<1>4. B = [n \in Nat |-> IF n = 0 THEN 1 ELSE 2 * B[n - 1]]
  BY <1>3, TwoToDef
<1> HIDE DEF B
<1>5. B[0] = 1 /\ \A n \in Nat : B[n + 1] = 2 * B[n]
  <2>1. B[0] = 1
    BY <1>4
  <2>2. ASSUME NEW n \in Nat PROVE B[n + 1] = 2 * B[n]
    <3>1. n + 1 \in Nat /\ n + 1 # 0 /\ (n + 1) - 1 = n
      OBVIOUS
    <3>2. B[n + 1] = 2 * B[(n + 1) - 1]
      BY <1>4, <3>1
    <3>3. QED
      BY <3>1, <3>2
  <2>3. QED
    BY <2>1, <2>2
<1> DEFINE T == {n \in Nat : B[n] \notin Nat}
<1>6. ASSUME T # {} PROVE FALSE
  <2>1. PICK m \in T : \A n \in T : m <= n
    <3>1. T \subseteq Nat
      OBVIOUS
    <3> HIDE DEF T
    <3>2. QED
      BY <1>6, <3>1, LeastOf
  <2>2. m \in Nat /\ B[m] \notin Nat
    OBVIOUS
  <2>3. m # 0
    BY <1>5, <2>2
  <2>4. m - 1 \in Nat /\ ~(m <= m - 1) /\ m = (m - 1) + 1
    BY <2>2, <2>3
  <2>5. B[m - 1] \in Nat
    BY <2>1, <2>4
  <2>6. QED
    BY <1>5, <2>2, <2>4, <2>5
<1>7. B \in [Nat -> Nat]
  BY <1>4, <1>6
<1>8. QED
  BY <1>5, <1>7 DEF B

-----------------------------------------------------------------------------
(* Forests: the ways up end, since something grows along them. *)

\* m grows on the way from an index to its root, and is below the number of indices.
Climbs(id, m) ==
  /\ id \in Seq(Nat) /\ m \in [1..Len(id) -> Nat]
  /\ \A i \in 1..Len(id) : /\ id[i] \in 1..Len(id) /\ m[i] < Len(id)
                           /\ id[i] # i => m[i] < m[id[i]]

LEMMA Climbing ==
  ASSUME NEW id, NEW m, Climbs(id, m)
  PROVE  /\ id \in Seq(Nat) /\ Len(id) \in Nat /\ DOMAIN id = 1..Len(id)
         /\ \A i \in 1..Len(id) : /\ id[i] \in 1..Len(id) /\ m[i] \in Nat /\ m[i] < Len(id)
                                  /\ id[i] # i => m[i] < m[id[i]]
<1>1. id \in Seq(Nat) /\ m \in [1..Len(id) -> Nat]
  BY DEF Climbs
<1>2. Len(id) \in Nat /\ DOMAIN id = 1..Len(id)
  BY <1>1
<1>3. \A i \in 1..Len(id) : m[i] \in Nat
  BY <1>1
<1>4. QED
  BY <1>1, <1>2, <1>3 DEF Climbs

LEMMA WayDef ==
  ASSUME NEW id, NEW i
  PROVE  Union!Way(id, i) =
           CHOOSE g : g = [n \in 0..Len(id) |-> IF n = 0 THEN i ELSE id[g[n - 1]]]
BY ZenonT(30) DEF Union!Way

LEMMA WayIs ==
  ASSUME NEW id, NEW m, Climbs(id, m), NEW i \in 1..Len(id)
  PROVE  /\ Union!Way(id, i) \in [0..Len(id) -> 1..Len(id)]
         /\ Union!Way(id, i)[0] = i
         /\ \A n \in 1..Len(id) : Union!Way(id, i)[n] = id[Union!Way(id, i)[n - 1]]
<1> DEFINE N == Len(id)
           D == 0..N
           X == 1..N
           step == [n \in D |-> [x \in X |-> id[x]]]
           W == Union!Way(id, i)
<1>1. N \in Nat /\ \A x \in X : id[x] \in X
  BY Climbing
<1>2. Segments(D) /\ Maps(D, X, step) /\ i \in X
  <2>1. \A n \in D : \A x \in X : step[n][x] \in X
    BY <1>1
  <2>2. D \subseteq Nat /\ \A n \in D : 0..n \subseteq D
    BY <1>1
  <2> HIDE DEF step
  <2>3. QED
    BY <2>1, <2>2 DEF Segments, Maps
<1>3. PICK g : Follows(D, X, i, step, g)
  <2> HIDE DEF D, X, step
  <2>1. QED
    BY <1>2, Recursion
<1>4. g \in [D -> X] /\ \A n \in D : g[n] = IF n = 0 THEN i ELSE step[n][g[n - 1]]
  BY <1>3 DEF Follows
<1>5. ASSUME NEW n \in D PROVE g[n] = IF n = 0 THEN i ELSE id[g[n - 1]]
  <2>1. n # 0 => n - 1 \in D
    BY <1>1
  <2>2. QED
    BY <1>4, <2>1
<1>6. g = [n \in D |-> IF n = 0 THEN i ELSE id[g[n - 1]]]
  BY <1>4, <1>5
<1>7. W = [n \in D |-> IF n = 0 THEN i ELSE id[W[n - 1]]]
  BY <1>6, WayDef
<1> HIDE DEF W
<1>8. W \in [D -> X]
  <2>1. \A n \in D : W[n] = IF n = 0 THEN i ELSE id[W[n - 1]]
    BY <1>7
  <2> DEFINE S == {n \in D : W[n] \in X}
  <2>2. 0 \in S
    BY <1>1, <2>1
  <2>3. ASSUME NEW n \in 0..(N - 1), n \in S PROVE n + 1 \in S
    <3>1. n + 1 \in D /\ n + 1 # 0 /\ (n + 1) - 1 = n
      BY <1>1
    <3>2. W[n + 1] = id[W[n]]
      BY <2>1, <3>1
    <3>3. QED
      BY <1>1, <2>3, <3>1, <3>2
  <2>4. \A n \in D : W[n] \in X
    <3>1. \A n \in 0..N : n \in S
      <4> HIDE DEF S
      <4>1. QED
        BY <1>1, <2>2, <2>3, Upwards
    <3>2. QED
      BY <3>1
  <2>5. QED
    BY <1>7, <2>4
<1>9. \A n \in 1..N : n \in D /\ n # 0
  BY <1>1
<1>10. 0 \in D
  BY <1>1
<1>11. W[0] = i /\ \A n \in 1..N : W[n] = id[W[n - 1]]
  BY <1>7, <1>9, <1>10
<1>12. QED
  BY <1>8, <1>11 DEF W

\* R leads from every index to its root.
Leads(id, R) ==
  \A i \in 1..Len(id) : /\ R[i] \in 1..Len(id)
                        /\ id[i] = i => R[i] = i
                        /\ R[id[i]] = R[i]

RootsOf(id) == [i \in 1..Len(id) |-> Union!RelFind(id, i)]

\* The way ends at a root; any other function of the kind gives the same root.
LEMMA WayEnds ==
  ASSUME NEW id, NEW m, Climbs(id, m), NEW i \in 1..Len(id)
  PROVE  LET v == Union!RelFind(id, i)
         IN  v \in 1..Len(id) /\ id[v] = v /\ (id[i] = i => v = i) /\ m[i] <= m[v]
<1> DEFINE W == Union!Way(id, i)
           N == Len(id)
           S == {n \in 0..N : /\ id[W[n]] = W[n] \/ m[W[n]] >= n
                              /\ id[i] = i => W[n] = i
                              /\ m[i] <= m[W[n]]}
<1>1. /\ N \in Nat /\ N > 0 /\ m[i] \in Nat
      /\ \A j \in 1..N : /\ id[j] \in 1..N /\ m[j] \in Nat /\ m[j] < N
                         /\ id[j] # j => m[j] < m[id[j]]
  BY Climbing
<1>2. W \in [0..N -> 1..N] /\ W[0] = i /\ \A n \in 1..N : W[n] = id[W[n - 1]]
  BY WayIs
<1>3. Union!RelFind(id, i) = W[N]
  BY DEF Union!RelFind
<1> HIDE DEF W, N
<1>4. ASSUME NEW n \in 0..(N - 1), n \in S PROVE n + 1 \in S
  <2>1. n \in 0..N /\ n \in Nat /\ n + 1 \in 1..N /\ n + 1 \in 0..N /\ (n + 1) - 1 = n
    BY <1>1
  <2>2. W[n + 1] = id[W[n]] /\ W[n] \in 1..N /\ W[n + 1] \in 1..N
    BY <1>2, <2>1
  <2>3. /\ id[W[n]] = W[n] \/ m[W[n]] >= n
        /\ id[i] = i => W[n] = i
        /\ m[i] <= m[W[n]]
    BY <1>4
  <2>4. m[W[n]] \in Nat /\ m[W[n + 1]] \in Nat
    BY <1>1, <2>2
  <2>5. CASE id[W[n]] = W[n]
    BY <2>1, <2>2, <2>3, <2>5
  <2>6. CASE id[W[n]] # W[n]
    <3>1. m[W[n]] < m[W[n + 1]] /\ m[W[n]] >= n /\ id[i] # i
      BY <1>1, <2>2, <2>3, <2>6
    <3>2. m[W[n + 1]] >= n + 1 /\ m[i] <= m[W[n + 1]]
      BY <1>1, <2>1, <2>3, <2>4, <3>1
    <3>3. QED
      BY <2>1, <3>1, <3>2
  <2>7. QED
    BY <2>5, <2>6
<1>5. 0 \in S
  <2>1. 0 \in 0..N /\ m[i] >= 0 /\ m[i] <= m[i]
    BY <1>1
  <2>2. QED
    BY <1>2, <2>1
<1>6. N \in S
  <2> HIDE DEF S
  <2>1. N \in 0..N
    BY <1>1
  <2>2. QED
    BY <1>1, <1>4, <1>5, <2>1, Upwards
<1>7. W[N] \in 1..N
  BY <1>1, <1>2
<1>8. id[W[N]] = W[N]
  <2>1. ~(m[W[N]] >= N)
    BY <1>1, <1>7
  <2>2. QED
    BY <1>6, <2>1
<1>9. QED
  BY <1>3, <1>6, <1>7, <1>8 DEF N

LEMMA OneRoot ==
  ASSUME NEW id, NEW m, Climbs(id, m), NEW R, Leads(id, R), NEW i \in 1..Len(id)
  PROVE  Union!RelFind(id, i) = R[i]
<1> DEFINE W == Union!Way(id, i)
           N == Len(id)
           S == {n \in 0..N : R[W[n]] = R[i]}
<1>1. N \in Nat
  BY Climbing
<1>2. W \in [0..N -> 1..N] /\ W[0] = i /\ \A n \in 1..N : W[n] = id[W[n - 1]]
  BY WayIs
<1>3. Union!RelFind(id, i) = W[N]
  BY DEF Union!RelFind
<1>4. id[W[N]] = W[N]
  BY <1>3, WayEnds
<1>5. \A j \in 1..N : (id[j] = j => R[j] = j) /\ R[id[j]] = R[j]
  BY DEF Leads
<1> HIDE DEF W, N
<1>6. ASSUME NEW n \in 0..(N - 1), n \in S PROVE n + 1 \in S
  <2>1. n \in 0..N /\ n + 1 \in 1..N /\ n + 1 \in 0..N /\ (n + 1) - 1 = n
    BY <1>1
  <2>2. W[n + 1] = id[W[n]] /\ W[n] \in 1..N
    BY <1>2, <2>1
  <2>3. QED
    BY <1>5, <1>6, <2>1, <2>2
<1>7. 0 \in S /\ N \in 0..N /\ W[N] \in 1..N
  BY <1>1, <1>2
<1>8. N \in S
  <2> HIDE DEF S
  <2>1. QED
    BY <1>1, <1>6, <1>7, Upwards
<1>9. QED
  BY <1>3, <1>4, <1>5, <1>7, <1>8

LEMMA RootsLead ==
  ASSUME NEW id, NEW m, Climbs(id, m)
  PROVE  Leads(id, RootsOf(id))
<1> SUFFICES ASSUME NEW i \in 1..Len(id)
             PROVE  /\ RootsOf(id)[i] \in 1..Len(id)
                    /\ id[i] = i => RootsOf(id)[i] = i
                    /\ RootsOf(id)[id[i]] = RootsOf(id)[i]
  BY DEF Leads
<1> DEFINE N == Len(id)
           V == Union!Way(id, i)
           W == Union!Way(id, id[i])
           S == {n \in 0..(N - 1) : W[n] = V[n + 1]}
<1>1. N \in Nat /\ N > 0 /\ id[i] \in 1..N
  BY DEF Climbs
<1>2. V \in [0..N -> 1..N] /\ V[0] = i /\ \A n \in 1..N : V[n] = id[V[n - 1]]
  BY WayIs
<1>3. W \in [0..N -> 1..N] /\ W[0] = id[i] /\ \A n \in 1..N : W[n] = id[W[n - 1]]
  BY <1>1, WayIs
<1>4. Union!RelFind(id, i) = V[N] /\ Union!RelFind(id, id[i]) = W[N]
  BY DEF Union!RelFind
<1>5. id[V[N]] = V[N]
  BY <1>4, WayEnds
<1>6. RootsOf(id)[i] = V[N] /\ RootsOf(id)[id[i]] = W[N]
  BY <1>1, <1>4 DEF RootsOf
<1>7. V[N] \in 1..N /\ (id[i] = i => V[N] = i)
  BY <1>4, WayEnds
<1> HIDE DEF V, W, N
<1>8. \A n \in 0..(N - 1) : n \in S
  <2>1. 0 \in S
    <3>1. 0 \in 0..(N - 1) /\ 0 + 1 \in 1..N /\ (0 + 1) - 1 = 0
      BY <1>1
    <3>2. QED
      BY <1>2, <1>3, <3>1
  <2>2. ASSUME NEW n \in 0..((N - 1) - 1), n \in S PROVE n + 1 \in S
    <3>1. /\ n + 1 \in 0..(N - 1) /\ n + 1 \in 1..N /\ (n + 1) - 1 = n
          /\ (n + 1) + 1 \in 1..N /\ ((n + 1) + 1) - 1 = n + 1
      BY <1>1
    <3>2. W[n + 1] = id[W[n]] /\ V[(n + 1) + 1] = id[V[n + 1]]
      BY <1>2, <1>3, <3>1
    <3>3. QED
      BY <2>2, <3>1, <3>2
  <2>3. N - 1 \in Nat
    BY <1>1
  <2> HIDE DEF S
  <2>4. QED
    BY <2>1, <2>2, <2>3, Upwards
<1>9. N - 1 \in 0..(N - 1) /\ (N - 1) + 1 = N /\ N \in 1..N
  BY <1>1
<1>10. W[N - 1] = V[N]
  BY <1>8, <1>9
<1>11. W[N] = V[N]
  BY <1>3, <1>5, <1>9, <1>10
<1>12. QED
  BY <1>6, <1>7, <1>11 DEF N

\* Every other node of a way is hung higher: m still grows, and the roots are the same.
LEMMA Halved ==
  ASSUME NEW id, NEW m, Climbs(id, m), NEW i \in 1..Len(id)
  PROVE  LET halved == [id EXCEPT ![i] = id[id[i]]]
         IN  /\ Climbs(halved, m) /\ Len(halved) = Len(id)
             /\ \A j \in 1..Len(id) : Union!RelFind(halved, j) = Union!RelFind(id, j)
<1> DEFINE h == [id EXCEPT ![i] = id[id[i]]]
           N == Len(id)
           R == RootsOf(id)
<1>1. /\ id \in Seq(Nat) /\ N \in Nat /\ DOMAIN id = 1..N
      /\ \A j \in 1..N : /\ id[j] \in 1..N /\ m[j] \in Nat /\ m[j] < N
                         /\ id[j] # j => m[j] < m[id[j]]
  BY Climbing
<1>2. id[i] \in 1..N /\ id[id[i]] \in 1..N /\ id[id[i]] \in Nat
  BY <1>1
<1>3. h \in Seq(Nat) /\ Len(h) = N
  BY <1>1, <1>2
<1>4. \A j \in 1..N : h[j] = IF j = i THEN id[id[i]] ELSE id[j]
  BY <1>1
<1>5. ASSUME NEW j \in 1..N PROVE h[j] \in 1..N /\ (h[j] # j => m[j] < m[h[j]])
  <2>1. CASE j # i
    BY <1>1, <1>4, <2>1
  <2>2. CASE j = i
    <3>1. h[j] = id[id[i]]
      BY <1>4, <2>2
    <3>2. CASE id[i] = i
      BY <1>1, <1>2, <2>2, <3>1, <3>2
    <3>3. CASE id[i] # i /\ id[id[i]] = id[i]
      BY <1>1, <1>2, <2>2, <3>1, <3>3
    <3>4. CASE id[i] # i /\ id[id[i]] # id[i]
      <4>1. m[i] < m[id[i]] /\ m[id[i]] < m[id[id[i]]]
        BY <1>1, <1>2, <3>4
      <4>2. m[i] \in Nat /\ m[id[i]] \in Nat /\ m[id[id[i]]] \in Nat
        BY <1>1, <1>2
      <4>3. QED
        BY <1>2, <2>2, <3>1, <4>1, <4>2
    <3>5. QED
      BY <3>2, <3>3, <3>4
  <2>3. QED
    BY <2>1, <2>2
<1>6. Leads(id, R)
  BY RootsLead
<1> HIDE DEF h, R
<1>7. Climbs(h, m)
  <2>1. m \in [1..N -> Nat]
    BY DEF Climbs
  <2>2. QED
    BY <1>1, <1>3, <1>5, <2>1 DEF Climbs
<1>8. Leads(h, R)
  <2> SUFFICES ASSUME NEW j \in 1..N
               PROVE  R[j] \in 1..N /\ (h[j] = j => R[j] = j) /\ R[h[j]] = R[j]
    BY <1>3 DEF Leads
  <2>1. \A l \in 1..N : R[l] \in 1..N /\ (id[l] = l => R[l] = l) /\ R[id[l]] = R[l]
    BY <1>6 DEF Leads
  <2>2. R[h[j]] = R[j]
    BY <1>2, <1>4, <2>1
  <2>3. ASSUME h[j] = j PROVE id[j] = j
    <3>1. CASE j # i
      BY <1>4, <2>3, <3>1
    <3>2. CASE j = i
      <4> SUFFICES ASSUME id[i] # i PROVE FALSE
        BY <3>2
      <4>1. id[id[i]] = i
        BY <1>4, <2>3, <3>2
      <4>2. m[i] < m[id[i]] /\ m[id[i]] < m[i] /\ m[i] \in Nat /\ m[id[i]] \in Nat
        BY <1>1, <1>2, <4>1
      <4>3. QED
        BY <4>2
    <3>3. QED
      BY <3>1, <3>2
  <2>4. QED
    BY <2>1, <2>2, <2>3
<1>9. ASSUME NEW j \in 1..N PROVE Union!RelFind(h, j) = Union!RelFind(id, j)
  <2>1. Union!RelFind(h, j) = R[j]
    BY <1>3, <1>7, <1>8, OneRoot
  <2>2. R[j] = Union!RelFind(id, j)
    BY DEF R, RootsOf
  <2>3. QED
    BY <2>1, <2>2
<1>10. QED
  BY <1>3, <1>7, <1>9 DEF h

\* A step of find_root, and all of them.
HalfWay(w) ==
  LET halved == [w.parent EXCEPT ![w.root] = w.parent[w.parent[w.root]]]
  IN  [parent |-> halved, root |-> halved[w.root]]

Halving(id, i) ==
  CHOOSE g : g = [n \in 0..Len(id) |-> IF n = 0 THEN [parent |-> id, root |-> i]
                                       ELSE HalfWay(g[n - 1])]

LEMMA FindRootIs ==
  ASSUME NEW id, NEW i
  PROVE  Union!find_root(id, i) = Halving(id, i)[Len(id)]
BY ZenonT(60) DEF Union!find_root, Halving, HalfWay

\* The same forest, higher up.
SameRoots(id, m, i, w) ==
  /\ Climbs(w.parent, m) /\ Len(w.parent) = Len(id)
  /\ w.root \in 1..Len(id) /\ Union!RelFind(id, w.root) = Union!RelFind(id, i)
  /\ \A j \in 1..Len(id) : Union!RelFind(w.parent, j) = Union!RelFind(id, j)

LEMMA HalfWaySame ==
  ASSUME NEW id, NEW m, NEW i, NEW w, SameRoots(id, m, i, w)
  PROVE  /\ SameRoots(id, m, i, HalfWay(w))
         /\ IF w.parent[w.root] = w.root
            THEN HalfWay(w).root = w.root /\ HalfWay(w).parent[w.root] = w.root
            ELSE m[w.root] < m[HalfWay(w).root]
<1> DEFINE p == w.parent
           x == w.root
           h == [p EXCEPT ![x] = p[p[x]]]
           N == Len(id)
<1>1. /\ Climbs(p, m) /\ Len(p) = N /\ x \in 1..N
      /\ Union!RelFind(id, x) = Union!RelFind(id, i)
      /\ \A j \in 1..N : Union!RelFind(p, j) = Union!RelFind(id, j)
  BY DEF SameRoots
<1>2. HalfWay(w).parent = h /\ HalfWay(w).root = h[x]
  BY DEF HalfWay
<1>3. /\ p \in Seq(Nat) /\ DOMAIN p = 1..N /\ N \in Nat
      /\ \A j \in 1..N : /\ p[j] \in 1..N /\ m[j] \in Nat /\ m[j] < N
                         /\ p[j] # j => m[j] < m[p[j]]
  <2>1. Climbs(p, m) /\ Len(p) = N
    BY <1>1
  <2> HIDE DEF p, N
  <2>2. QED
    BY <2>1, Climbing
<1> HIDE DEF p, x, N
<1>4. /\ Climbs(h, m) /\ Len(h) = N
      /\ \A j \in 1..N : Union!RelFind(h, j) = Union!RelFind(p, j)
  BY <1>1, Halved
<1>5. h[x] = p[p[x]] /\ p[x] \in 1..N /\ p[p[x]] \in 1..N
  BY <1>1, <1>3
<1> HIDE DEF h
<1>6. Leads(p, RootsOf(p))
  BY <1>1, RootsLead
<1>7. Union!RelFind(p, p[p[x]]) = Union!RelFind(p, x)
  <2>1. \A j \in 1..N : RootsOf(p)[j] = Union!RelFind(p, j)
    BY <1>1 DEF RootsOf
  <2>2. \A j \in 1..N : RootsOf(p)[p[j]] = RootsOf(p)[j]
    BY <1>1, <1>6 DEF Leads
  <2>3. QED
    BY <1>1, <1>5, <2>1, <2>2
<1>8. SameRoots(id, m, i, HalfWay(w))
  <2>1. Union!RelFind(id, h[x]) = Union!RelFind(id, i)
    BY <1>1, <1>5, <1>7
  <2>2. QED
    BY <1>1, <1>2, <1>4, <1>5, <2>1 DEF SameRoots, N
<1>9. CASE p[x] = x
  <2>1. h[x] = x
    BY <1>5, <1>9
  <2>2. QED
    BY <1>2, <1>8, <1>9, <2>1 DEF p, x
<1>10. CASE p[x] # x
  <2>1. m[x] \in Nat /\ m[p[x]] \in Nat /\ m[p[p[x]]] \in Nat
    BY <1>1, <1>3, <1>5
  <2>2. m[x] < m[p[x]] /\ (p[p[x]] # p[x] => m[p[x]] < m[p[p[x]]])
    BY <1>1, <1>3, <1>5, <1>10
  <2>3. m[x] < m[p[p[x]]]
    <3>1. CASE p[p[x]] = p[x]
      BY <2>2, <3>1
    <3>2. CASE p[p[x]] # p[x]
      BY <2>1, <2>2, <3>2
    <3>3. QED
      BY <3>1, <3>2
  <2>4. m[x] < m[h[x]]
    BY <1>5, <2>3
  <2>5. QED
    BY <1>2, <1>8, <1>10, <2>4 DEF p, x
<1>11. QED
  BY <1>9, <1>10

LEMMA HalvingIs ==
  ASSUME NEW id, NEW m, Climbs(id, m), NEW i \in 1..Len(id)
  PROVE  /\ Halving(id, i)[0] = [parent |-> id, root |-> i]
         /\ \A n \in 1..Len(id) : Halving(id, i)[n] = HalfWay(Halving(id, i)[n - 1])
         /\ \A n \in 0..Len(id) : SameRoots(id, m, i, Halving(id, i)[n])
<1> DEFINE D == 0..Len(id)
           X == {w \in [parent : Seq(Nat), root : Nat] : SameRoots(id, m, i, w)}
           b == [parent |-> id, root |-> i]
           step == [n \in D |-> [w \in X |-> HalfWay(w)]]
           A == Halving(id, i)
<1>1. Len(id) \in Nat /\ id \in Seq(Nat) /\ i \in Nat
  BY DEF Climbs
<1>2. ASSUME NEW w \in X PROVE HalfWay(w) \in X
  <2>1. SameRoots(id, m, i, HalfWay(w))
    <3>1. SameRoots(id, m, i, w)
      OBVIOUS
    <3>2. QED
      BY <3>1, HalfWaySame
  <2>2. HalfWay(w).parent \in Seq(Nat) /\ HalfWay(w).root \in Nat
    <3>1. HalfWay(w).root \in 1..Len(id) /\ Climbs(HalfWay(w).parent, m)
      BY <2>1 DEF SameRoots
    <3>2. HalfWay(w).parent \in Seq(Nat)
      BY <3>1, Climbing
    <3>3. QED
      BY <1>1, <3>1, <3>2
  <2>3. HalfWay(w) = [parent |-> HalfWay(w).parent, root |-> HalfWay(w).root]
    BY DEF HalfWay
  <2>4. HalfWay(w) \in [parent : Seq(Nat), root : Nat]
    BY <2>2, <2>3
  <2>5. QED
    BY <2>1, <2>4
<1>3. Segments(D)
  BY <1>1 DEF Segments
<1>4. b \in X
  <2>1. b.parent = id /\ b.root = i /\ b \in [parent : Seq(Nat), root : Nat]
    BY <1>1
  <2>2. SameRoots(id, m, i, b)
    BY <2>1 DEF SameRoots
  <2>3. QED
    BY <2>1, <2>2
<1>5. \A w \in X : SameRoots(id, m, i, w)
  OBVIOUS
<1> HIDE DEF X, b
<1>6. \A n \in D : \A w \in X : step[n][w] = HalfWay(w)
  OBVIOUS
<1> HIDE DEF step, D
<1>7. Maps(D, X, step)
  BY <1>2, <1>6 DEF Maps
<1>8. PICK g : Follows(D, X, b, step, g)
  BY <1>3, <1>4, <1>7, Recursion
<1>9. g \in [D -> X] /\ \A n \in D : g[n] = IF n = 0 THEN b ELSE step[n][g[n - 1]]
  BY <1>8 DEF Follows
<1>10. \A n \in D : n # 0 => n - 1 \in D
  BY <1>1 DEF D
<1>11. \A n \in D : g[n] = IF n = 0 THEN b ELSE HalfWay(g[n - 1])
  BY <1>6, <1>9, <1>10
<1>12. g = [n \in D |-> g[n]]
  BY <1>9
<1>13. g = [n \in D |-> IF n = 0 THEN b ELSE HalfWay(g[n - 1])]
  BY <1>11, <1>12, Zenon
<1>14. A = [n \in D |-> IF n = 0 THEN b ELSE HalfWay(A[n - 1])]
  BY <1>13, Zenon DEF Halving, D, b
<1> HIDE DEF A
<1>15. A[0] = b /\ \A n \in 1..Len(id) : A[n] = HalfWay(A[n - 1])
  <2>1. 0 \in D /\ \A n \in 1..Len(id) : n \in D /\ n # 0
    BY <1>1 DEF D
  <2> HIDE DEF b
  <2>2. QED
    BY <1>14, <2>1, ZenonT(30)
<1> DEFINE S == {n \in D : A[n] \in X}
<1>16. \A n \in D : n \in S
  <2>1. 0 \in S
    BY <1>1, <1>4, <1>15 DEF D
  <2>2. ASSUME NEW n \in 0..(Len(id) - 1), n \in S PROVE n + 1 \in S
    <3>1. n + 1 \in 1..Len(id) /\ (n + 1) - 1 = n /\ n + 1 \in D
      BY <1>1 DEF D
    <3>2. A[n + 1] = HalfWay(A[n])
      BY <1>15, <3>1
    <3>3. QED
      BY <1>2, <2>2, <3>1, <3>2
  <2> HIDE DEF S
  <2>3. QED
    BY <1>1, <2>1, <2>2, Upwards DEF D
<1>17. QED
  BY <1>5, <1>15, <1>16 DEF A, D, b

\* find_root finds the root that the ways lead to, and moves none.
LEMMA FindsRoot ==
  ASSUME NEW id, NEW m, Climbs(id, m), NEW i \in 1..Len(id)
  PROVE  /\ Union!find_root(id, i).root = Union!RelFind(id, i)
         /\ SameRoots(id, m, i, Union!find_root(id, i))
<1> DEFINE A == Halving(id, i)
           N == Len(id)
           AtRoot(w) == w.parent[w.root] = w.root
           S == {n \in 0..N : AtRoot(A[n]) \/ m[A[n].root] >= n}
<1>1. /\ A[0] = [parent |-> id, root |-> i]
      /\ \A n \in 1..N : A[n] = HalfWay(A[n - 1])
      /\ \A n \in 0..N : SameRoots(id, m, i, A[n])
  BY HalvingIs
<1>2. N \in Nat /\ \A j \in 1..N : m[j] \in Nat /\ m[j] < N
  BY Climbing
<1>3. Union!find_root(id, i) = A[N]
  BY FindRootIs
<1> HIDE DEF A, N
<1>4. \A n \in 0..N : A[n].root \in 1..N /\ m[A[n].root] \in Nat
  BY <1>1, <1>2 DEF SameRoots, N
<1>5. \A n \in 0..N : n \in S
  <2>1. 0 \in S
    BY <1>2, <1>4
  <2>2. ASSUME NEW n \in 0..(N - 1), n \in S PROVE n + 1 \in S
    <3>1. n \in 0..N /\ n + 1 \in 1..N /\ n + 1 \in 0..N /\ (n + 1) - 1 = n /\ n \in Nat
      BY <1>2
    <3>2. A[n + 1] = HalfWay(A[n])
      BY <1>1, <3>1
    <3>3. SameRoots(id, m, i, A[n])
      BY <1>1, <3>1
    <3>4. AtRoot(A[n]) \/ m[A[n].root] >= n
      BY <2>2
    <3>5. m[A[n].root] \in Nat /\ m[A[n + 1].root] \in Nat
      BY <1>4, <3>1
    <3>6. IF AtRoot(A[n])
          THEN HalfWay(A[n]).root = A[n].root /\ HalfWay(A[n]).parent[A[n].root] = A[n].root
          ELSE m[A[n].root] < m[HalfWay(A[n]).root]
      BY <3>3, HalfWaySame
    <3> HIDE DEF S
    <3>7. CASE AtRoot(A[n])
      BY <3>1, <3>2, <3>6, <3>7 DEF S
    <3>8. CASE ~AtRoot(A[n])
      BY <3>1, <3>2, <3>4, <3>5, <3>6, <3>8 DEF S
    <3>9. QED
      BY <3>7, <3>8
  <2> HIDE DEF S
  <2>3. QED
    BY <1>2, <2>1, <2>2, Upwards
<1>6. N \in 0..N
  BY <1>2
<1>7. AtRoot(A[N])
  <2>1. m[A[N].root] < N /\ m[A[N].root] \in Nat
    BY <1>2, <1>4, <1>6
  <2>2. QED
    BY <1>2, <1>5, <1>6, <2>1
<1>8. SameRoots(id, m, i, A[N])
  BY <1>1, <1>6
<1>9. A[N].root = Union!RelFind(id, i)
  <2> DEFINE p == A[N].parent
             x == A[N].root
  <2>1. /\ Climbs(p, m) /\ Len(p) = N /\ x \in 1..N
        /\ Union!RelFind(id, x) = Union!RelFind(id, i)
        /\ Union!RelFind(p, x) = Union!RelFind(id, x)
    BY <1>8 DEF SameRoots, N
  <2>2. p[x] = x
    BY <1>7
  <2> HIDE DEF p, x
  <2>3. Union!RelFind(p, x) = x
    BY <2>1, <2>2, WayEnds
  <2>4. QED
    BY <2>1, <2>3 DEF x
<1>10. QED
  BY <1>3, <1>8, <1>9

\* The cells into which R divides the keys.
Cell(key, R, i) == {key[j] : j \in {l \in DOMAIN key : R[l] = R[i]}}
Cells(key, R) == {Cell(key, R, i) : i \in DOMAIN key}

Distinct(key) == \A i, j \in DOMAIN key : key[i] = key[j] => i = j

LEMMA PartitionIs ==
  ASSUME NEW o, DOMAIN o.key_of \subseteq 1..Len(o.parent)
  PROVE  Union!Partition(o) = Cells(o.key_of, RootsOf(o.parent))
<1> DEFINE key == o.key_of
           D == DOMAIN o.key_of
           R == RootsOf(o.parent)
           Tree(v) == {i \in D : Union!RelFind(o.parent, i) = v}
           T == {Tree(v) : v \in {Union!RelFind(o.parent, i) : i \in D}}
<1>1. Union!Trees(o) = T
  BY DEF Union!Trees
<1>2. \A i \in D : R[i] = Union!RelFind(o.parent, i)
  BY DEF RootsOf
<1> HIDE DEF R
<1>3. \A i \in D : Tree(R[i]) = {l \in D : R[l] = R[i]}
  BY <1>2
<1>4. T = {{l \in D : R[l] = R[i]} : i \in D}
  <2>1. T = {Tree(R[i]) : i \in D}
    BY <1>2
  <2> HIDE DEF Tree, T
  <2>2. QED
    BY <1>3, <2>1
<1> HIDE DEF T, Tree
<1>5. Union!Partition(o) = {{key[j] : j \in t} : t \in T}
  BY <1>1 DEF Union!Partition
<1>6. Union!Partition(o) = {{key[j] : j \in {l \in D : R[l] = R[i]}} : i \in D}
  <2> DEFINE KeysOf(t) == {key[j] : j \in t}
             Group(i) == {l \in D : R[l] = R[i]}
  <2>1. Union!Partition(o) = {KeysOf(t) : t \in T} /\ T = {Group(i) : i \in D}
    BY <1>4, <1>5
  <2> HIDE DEF KeysOf, Group
  <2>2. {KeysOf(t) : t \in {Group(i) : i \in D}} = {KeysOf(Group(i)) : i \in D}
    OBVIOUS
  <2>3. QED
    BY <2>1, <2>2 DEF KeysOf, Group
<1>7. QED
  BY <1>6 DEF Cells, Cell, R

LEMMA CellsSame ==
  ASSUME NEW key, NEW R, NEW Q,
         \A i, j \in DOMAIN key : R[i] = R[j] <=> Q[i] = Q[j]
  PROVE  Cells(key, R) = Cells(key, Q)
<1>1. ASSUME NEW i \in DOMAIN key PROVE Cell(key, R, i) = Cell(key, Q, i)
  <2>1. {l \in DOMAIN key : R[l] = R[i]} = {l \in DOMAIN key : Q[l] = Q[i]}
    OBVIOUS
  <2>2. QED
    BY <2>1 DEF Cell
<1>2. QED
  BY <1>1 DEF Cells

LEMMA CellHas ==
  ASSUME NEW key, Distinct(key), NEW R, NEW i \in DOMAIN key, NEW j \in DOMAIN key
  PROVE  key[j] \in Cell(key, R, i) <=> R[j] = R[i]
BY DEF Cell, Distinct

LEMMA OneCell ==
  ASSUME NEW key, Distinct(key), NEW R, NEW i \in DOMAIN key, NEW S \in Cells(key, R)
  PROVE  key[i] \in S <=> S = Cell(key, R, i)
<1>1. PICK l \in DOMAIN key : S = Cell(key, R, l)
  BY DEF Cells
<1>2. ASSUME key[i] \in S PROVE S = Cell(key, R, i)
  <2>1. R[i] = R[l]
    BY <1>1, <1>2, CellHas
  <2>2. QED
    BY <1>1, <2>1 DEF Cell
<1>3. key[i] \in Cell(key, R, i)
  BY CellHas
<1>4. QED
  BY <1>2, <1>3

LEMMA BlockIs ==
  ASSUME NEW key, Distinct(key), NEW R, NEW i \in DOMAIN key
  PROVE  Union!BlockOf(Cells(key, R), key[i]) = Cell(key, R, i)
<1>1. Cell(key, R, i) \in Cells(key, R)
  BY DEF Cells
<1>2. \A S \in Cells(key, R) : key[i] \in S <=> S = Cell(key, R, i)
  BY OneCell
<1> DEFINE P == Cells(key, R)
           C == Cell(key, R, i)
<1> HIDE DEF P, C
<1>3. Union!BlockOf(P, key[i]) = CHOOSE S \in P : key[i] \in S
  BY DEF Union!BlockOf
<1>4. C \in P /\ \A S \in P : key[i] \in S <=> S = C
  BY <1>1, <1>2 DEF P, C
<1>5. (CHOOSE S \in P : key[i] \in S) = C
  BY <1>4
<1>6. QED
  BY <1>3, <1>5 DEF P, C

LEMMA TogetherIs ==
  ASSUME NEW key, Distinct(key), NEW R, NEW i \in DOMAIN key, NEW j \in DOMAIN key
  PROVE  (\E S \in Cells(key, R) : {key[i], key[j]} \subseteq S) <=> R[i] = R[j]
<1>1. Cell(key, R, j) \in Cells(key, R)
  BY DEF Cells
<1>2. key[i] \in Cell(key, R, j) <=> R[i] = R[j]
  BY CellHas
<1>3. key[j] \in Cell(key, R, j)
  BY CellHas
<1>4. \A S \in Cells(key, R) : key[j] \in S <=> S = Cell(key, R, j)
  BY OneCell
<1>5. QED
  BY <1>1, <1>2, <1>3, <1>4

LEMMA WithHas ==
  ASSUME NEW key, NEW R, NEW k
  PROVE  (\E S \in Cells(key, R) : k \in S) <=> \E i \in DOMAIN key : key[i] = k
<1>1. ASSUME NEW S \in Cells(key, R), k \in S PROVE \E i \in DOMAIN key : key[i] = k
  <2>1. PICK i \in DOMAIN key : S = Cell(key, R, i)
    BY DEF Cells
  <2>2. QED
    BY <1>1, <2>1 DEF Cell
<1>2. ASSUME NEW i \in DOMAIN key, key[i] = k PROVE \E S \in Cells(key, R) : k \in S
  <2>1. k \in Cell(key, R, i) /\ Cell(key, R, i) \in Cells(key, R)
    BY <1>2 DEF Cell, Cells
  <2>2. QED
    BY <2>1
<1>3. QED
  BY <1>1, <1>2

\* k is a new key, which Q sets apart from those of R.
Apart(key, k, R, Q) ==
  /\ \A i \in 1..Len(key) : key[i] # k /\ Q[i] # Q[Len(key) + 1]
  /\ \A i, j \in 1..Len(key) : R[i] = R[j] <=> Q[i] = Q[j]

LEMMA CellsAppend ==
  ASSUME NEW X, NEW key \in Seq(X), NEW k \in X, NEW R, NEW Q, Apart(key, k, R, Q)
  PROVE  Cells(Append(key, k), Q) = Cells(key, R) \cup {{k}}
<1> DEFINE n == Len(key)
           more == Append(key, k)
<1>1. /\ n \in Nat /\ DOMAIN key = 1..n /\ DOMAIN more = 1..(n + 1)
      /\ (\A i \in 1..n : more[i] = key[i]) /\ more[n + 1] = k
  OBVIOUS
<1>2. /\ \A i \in 1..n : key[i] # k /\ Q[i] # Q[n + 1]
      /\ \A i, j \in 1..n : R[i] = R[j] <=> Q[i] = Q[j]
  BY DEF Apart
<1>3. 1..(n + 1) = (1..n) \cup {n + 1} /\ n + 1 \notin 1..n
  BY <1>1
<1> HIDE DEF n, more
<1>4. ASSUME NEW i \in 1..n PROVE Cell(more, Q, i) = Cell(key, R, i)
  <2>1. {l \in DOMAIN more : Q[l] = Q[i]} = {l \in 1..n : Q[l] = Q[i]}
    BY <1>2, <1>1, <1>3
  <2>2. {l \in 1..n : Q[l] = Q[i]} = {l \in DOMAIN key : R[l] = R[i]}
    BY <1>2, <1>1
  <2>3. Cell(more, Q, i) = {more[j] : j \in {l \in 1..n : Q[l] = Q[i]}}
    BY <2>1 DEF Cell
  <2>4. {more[j] : j \in {l \in 1..n : Q[l] = Q[i]}} = {key[j] : j \in {l \in 1..n : Q[l] = Q[i]}}
    BY <1>1
  <2>5. QED
    BY <2>2, <2>3, <2>4 DEF Cell
<1>5. Cell(more, Q, n + 1) = {k}
  <2>1. {l \in DOMAIN more : Q[l] = Q[n + 1]} = {n + 1}
    BY <1>2, <1>1, <1>3
  <2>2. QED
    BY <1>1, <2>1 DEF Cell
<1>6. Cells(more, Q) = {Cell(more, Q, i) : i \in (1..n) \cup {n + 1}}
  BY <1>1, <1>3 DEF Cells
<1>7. Cells(key, R) = {Cell(key, R, i) : i \in 1..n}
  BY <1>1 DEF Cells
<1>8. QED
  BY <1>4, <1>5, <1>6, <1>7 DEF more

\* Q puts together the cells of a and of b, and else nothing.
Joined(key, R, Q, a, b) ==
  \A i, j \in DOMAIN key :
    Q[i] = Q[j] <=> \/ R[i] = R[j]
                    \/ R[i] \in {R[a], R[b]} /\ R[j] \in {R[a], R[b]}

LEMMA CellsMerge ==
  ASSUME NEW key, Distinct(key), NEW R, NEW Q, NEW a \in DOMAIN key, NEW b \in DOMAIN key,
         Joined(key, R, Q, a, b)
  PROVE  Cells(key, Q) = Union!Merged(Cells(key, R), key[a], key[b])
<1> DEFINE A == Cell(key, R, a)
           B == Cell(key, R, b)
           P == Cells(key, R)
<1>0. \A i, j \in DOMAIN key :
        Q[i] = Q[j] <=> \/ R[i] = R[j]
                        \/ R[i] \in {R[a], R[b]} /\ R[j] \in {R[a], R[b]}
  BY DEF Joined
<1>1. Union!Merged(P, key[a], key[b]) = (P \ {A, B}) \cup {A \cup B}
  BY BlockIs DEF Union!Merged
<1>2. ASSUME NEW i \in DOMAIN key, R[i] \in {R[a], R[b]} PROVE Cell(key, Q, i) = A \cup B
  <2>1. {l \in DOMAIN key : Q[l] = Q[i]}
          = {l \in DOMAIN key : R[l] = R[a]} \cup {l \in DOMAIN key : R[l] = R[b]}
    BY <1>0, <1>2
  <2>2. QED
    BY <2>1 DEF Cell
<1>3. ASSUME NEW i \in DOMAIN key, R[i] \notin {R[a], R[b]}
      PROVE  Cell(key, Q, i) = Cell(key, R, i) /\ Cell(key, R, i) \notin {A, B}
  <2>1. {l \in DOMAIN key : Q[l] = Q[i]} = {l \in DOMAIN key : R[l] = R[i]}
    BY <1>0, <1>3
  <2>2. Cell(key, Q, i) = Cell(key, R, i)
    BY <2>1 DEF Cell
  <2>3. key[i] \in Cell(key, R, i) /\ key[i] \notin A /\ key[i] \notin B
    BY <1>3, CellHas
  <2>4. QED
    BY <2>2, <2>3
<1>4. ASSUME NEW i \in DOMAIN key, R[i] \in {R[a], R[b]} PROVE Cell(key, R, i) \in {A, B}
  BY <1>4 DEF Cell
<1> HIDE DEF A, B
<1>5. ASSUME NEW S \in Cells(key, Q) PROVE S \in (P \ {A, B}) \cup {A \cup B}
  <2>1. PICK i \in DOMAIN key : S = Cell(key, Q, i)
    BY DEF Cells
  <2>2. Cell(key, R, i) \in P
    BY DEF Cells
  <2>3. QED
    BY <1>2, <1>3, <2>1, <2>2
<1>6. ASSUME NEW S \in P \ {A, B} PROVE S \in Cells(key, Q)
  <2>1. PICK i \in DOMAIN key : S = Cell(key, R, i)
    BY DEF Cells
  <2>2. S = Cell(key, Q, i)
    BY <1>3, <1>4, <2>1
  <2>3. QED
    BY <2>2 DEF Cells
<1>7. A \cup B \in Cells(key, Q)
  <2>1. A \cup B = Cell(key, Q, a)
    BY <1>2
  <2>2. QED
    BY <2>1 DEF Cells
<1> HIDE DEF P
<1>8. Cells(key, Q) = (P \ {A, B}) \cup {A \cup B}
  BY <1>5, <1>6, <1>7
<1>9. QED
  BY <1>1, <1>8 DEF P

LEMMA Intervals ==
  /\ \A n \in Nat : IsFiniteSet(1..n) /\ Cardinality(1..n) = n
  /\ \A n, m \in Nat : n <= m => /\ IsFiniteSet((n + 1)..m)
                                 /\ Cardinality((n + 1)..m) = m - n
<1>1. ASSUME NEW n \in Nat PROVE IsFiniteSet(1..n) /\ Cardinality(1..n) = n
  <2>1. Cardinality(1..n) = IF 1 > n THEN 0 ELSE n - 1 + 1
    BY FS_Interval
  <2>2. IsFiniteSet(1..n)
    BY FS_Interval
  <2>3. QED
    BY <2>1, <2>2
<1>2. ASSUME NEW n \in Nat, NEW m \in Nat, n <= m
      PROVE  IsFiniteSet((n + 1)..m) /\ Cardinality((n + 1)..m) = m - n
  <2>1. Cardinality((n + 1)..m) = IF n + 1 > m THEN 0 ELSE m - (n + 1) + 1
    BY FS_Interval
  <2>2. IsFiniteSet((n + 1)..m)
    BY FS_Interval
  <2>3. QED
    BY <1>2, <2>1, <2>2
<1>3. QED
  BY <1>1, <1>2

TreeOf(id, v) == {i \in 1..Len(id) : Union!RelFind(id, i) = v}

LEMMA TreesFinite ==
  ASSUME NEW id, NEW m, Climbs(id, m), NEW v
  PROVE  /\ IsFiniteSet(TreeOf(id, v)) /\ Cardinality(TreeOf(id, v)) \in Nat
         /\ Cardinality(TreeOf(id, v)) <= Len(id)
<1>1. Len(id) \in Nat
  BY Climbing
<1>2. IsFiniteSet(1..Len(id)) /\ Cardinality(1..Len(id)) = Len(id)
  BY <1>1, Intervals
<1>3. TreeOf(id, v) \subseteq 1..Len(id)
  BY DEF TreeOf
<1>4. IsFiniteSet(TreeOf(id, v)) /\ Cardinality(TreeOf(id, v)) <= Cardinality(1..Len(id))
  BY <1>2, <1>3, FS_Subset
<1>5. QED
  BY <1>2, <1>4, FS_CardinalityType

\* A root b that is hung below another root a: its tree becomes part of a's.
Hangs(id, linked, a, b) == linked = [id EXCEPT ![b] = a]

Linked(id, linked, a, b) ==
  /\ Len(linked) = Len(id)
  /\ \A i \in 1..Len(id) :
       Union!RelFind(linked, i) =
         IF Union!RelFind(id, i) = b THEN a ELSE Union!RelFind(id, i)
  /\ TreeOf(linked, a) = TreeOf(id, a) \cup TreeOf(id, b)
  /\ \A v \in 1..Len(id) : v \notin {a, b} => TreeOf(linked, v) = TreeOf(id, v)
  /\ TreeOf(id, a) \cap TreeOf(id, b) = {}
  /\ \A i \in 1..Len(id) : linked[i] = i <=> id[i] = i /\ i # b

LEMMA RootsLinked ==
  ASSUME NEW id, NEW m, Climbs(id, m), NEW a \in 1..Len(id), NEW b \in 1..Len(id),
         a # b, id[a] = a, id[b] = b,
         NEW h, Hangs(id, h, a, b), NEW n, Climbs(h, n)
  PROVE  Linked(id, h, a, b)
<1> DEFINE N == Len(id)
           R == RootsOf(id)
           Q == [i \in 1..N |-> IF R[i] = b THEN a ELSE R[i]]
<1>1. id \in Seq(Nat) /\ N \in Nat /\ DOMAIN id = 1..N /\ \A i \in 1..N : id[i] \in 1..N
  BY Climbing
<1>2. h \in Seq(Nat) /\ Len(h) = N /\ \A i \in 1..N : h[i] = IF i = b THEN a ELSE id[i]
  BY <1>1 DEF Hangs
<1>3. \A i \in 1..N : R[i] \in 1..N /\ (id[i] = i => R[i] = i) /\ R[id[i]] = R[i]
  BY RootsLead DEF Leads
<1>4. \A i \in 1..N : R[i] = Union!RelFind(id, i)
  BY DEF RootsOf
<1> HIDE DEF R
<1>6. Leads(h, Q)
  <2> SUFFICES ASSUME NEW i \in 1..N
               PROVE  Q[i] \in 1..N /\ (h[i] = i => Q[i] = i) /\ Q[h[i]] = Q[i]
    BY <1>2 DEF Leads
  <2>1. Q[i] \in 1..N
    BY <1>3
  <2>2. CASE i = b
    <3>1. h[i] = a /\ R[a] = a /\ R[b] = b
      BY <1>2, <1>3, <2>2
    <3>2. Q[a] = a /\ Q[b] = a
      BY <3>1
    <3>3. QED
      BY <2>1, <2>2, <3>1, <3>2
  <2>3. CASE i # b
    <3>1. h[i] = id[i] /\ id[i] \in 1..N /\ R[id[i]] = R[i]
      BY <1>1, <1>2, <1>3, <2>3
    <3>2. Q[id[i]] = Q[i]
      BY <3>1
    <3>3. ASSUME id[i] = i PROVE Q[i] = i
      <4>1. R[i] = i
        BY <1>3, <3>3
      <4>2. QED
        BY <2>3, <4>1
    <3>4. QED
      BY <2>1, <3>1, <3>2, <3>3
  <2>4. QED
    BY <2>2, <2>3
<1>7. \A i \in 1..N : Union!RelFind(h, i) = Q[i]
  <2> HIDE DEF Q
  <2>1. QED
    BY <1>2, <1>6, OneRoot
<1>8. \A i \in 1..N : Union!RelFind(h, i) = IF Union!RelFind(id, i) = b THEN a
                                            ELSE Union!RelFind(id, i)
  BY <1>4, <1>7
<1>9. TreeOf(h, a) = TreeOf(id, a) \cup TreeOf(id, b)
  BY <1>2, <1>8 DEF TreeOf
<1>10. \A v \in 1..N : v \notin {a, b} => TreeOf(h, v) = TreeOf(id, v)
  BY <1>2, <1>8 DEF TreeOf
<1>11. TreeOf(id, a) \cap TreeOf(id, b) = {}
  BY DEF TreeOf
<1>12. \A i \in 1..N : h[i] = i <=> id[i] = i /\ i # b
  BY <1>2
<1>13. QED
  BY <1>2, <1>8, <1>9, <1>10, <1>11, <1>12 DEF Linked

\* The way of i is at its root after Depth steps, and not before.
LEMMA DepthIs ==
  ASSUME NEW o, NEW m, Climbs(o.parent, m), NEW i \in 1..Len(o.parent)
  PROVE  LET d == Union!Depth(o, i)
             way == Union!Way(o.parent, i)
         IN  /\ d \in 0..Len(o.parent) /\ way[d] = Union!RelFind(o.parent, i)
             /\ \A n \in 0..(d - 1) : o.parent[way[n]] # way[n]
<1> DEFINE id == o.parent
           N == Len(id)
           W == Union!Way(id, i)
           T == {n \in 0..N : id[W[n]] = W[n]}
           d == Union!Depth(o, i)
<1>1. N \in Nat
  BY Climbing
<1>2. W \in [0..N -> 1..N] /\ W[0] = i /\ \A n \in 1..N : W[n] = id[W[n - 1]]
  <2>1. Climbs(id, m) /\ i \in 1..Len(id)
    OBVIOUS
  <2> HIDE DEF id
  <2>2. QED
    BY <2>1, WayIs
<1>3. Union!RelFind(id, i) = W[N] /\ id[W[N]] = W[N]
  BY WayEnds DEF Union!RelFind
<1>4. PICK l \in T : \A n \in T : l <= n
  <2>1. N \in T
    BY <1>1, <1>3
  <2>2. T \subseteq Nat
    BY <1>1
  <2> HIDE DEF T
  <2>3. QED
    BY <2>1, <2>2, LeastOf
<1>5. d = CHOOSE n \in DOMAIN W : id[W[n]] = W[n] /\ \A k \in 0..(n - 1) : id[W[k]] # W[k]
  BY DEF Union!Depth
<1> HIDE DEF d, W, N
<1>6. DOMAIN W = 0..N
  BY <1>2
<1>7. l \in DOMAIN W /\ id[W[l]] = W[l] /\ \A k \in 0..(l - 1) : id[W[k]] # W[k]
  <2>1. l \in 0..N /\ id[W[l]] = W[l] /\ \A n \in T : l <= n
    BY <1>4
  <2>2. ASSUME NEW k \in 0..(l - 1) PROVE k \in 0..N /\ ~(l <= k)
    BY <1>1, <2>1
  <2>3. QED
    BY <1>6, <2>1, <2>2
<1>8. d \in 0..N /\ id[W[d]] = W[d] /\ \A k \in 0..(d - 1) : id[W[k]] # W[k]
  BY <1>5, <1>6, <1>7
<1> DEFINE S == {n \in 0..N : n < d \/ W[n] = W[d]}
<1>9. N \in S
  <2>1. 0 \in S
    <3>1. 0 \in 0..N /\ (0 < d \/ 0 = d)
      BY <1>1, <1>8
    <3>2. QED
      BY <3>1
  <2>2. ASSUME NEW n \in 0..(N - 1), n \in S PROVE n + 1 \in S
    <3>1. n + 1 \in 0..N /\ n + 1 \in 1..N /\ (n + 1) - 1 = n /\ n \in Nat /\ d \in Nat
      BY <1>1, <1>8
    <3>2. CASE n < d
      <4>1. n + 1 < d \/ n + 1 = d
        BY <3>1, <3>2
      <4>2. QED
        BY <3>1, <4>1
    <3>3. CASE W[n] = W[d]
      BY <1>2, <1>8, <3>1, <3>3
    <3>4. QED
      BY <2>2, <3>2, <3>3
  <2>3. N \in 0..N
    BY <1>1
  <2> HIDE DEF S
  <2>4. QED
    BY <1>1, <2>1, <2>2, <2>3, Upwards
<1>10. W[d] = W[N]
  <2>1. d <= N /\ d \in Nat
    BY <1>1, <1>8
  <2>2. N < d \/ W[N] = W[d]
    BY <1>9
  <2>3. QED
    BY <1>1, <2>1, <2>2
<1>11. QED
  BY <1>3, <1>8, <1>10 DEF d, W, N

LEMMA IndexIs ==
  ASSUME NEW o, NEW i \in DOMAIN o.key_of, Distinct(o.key_of)
  PROVE  Union!IndexOf(o, o.key_of[i]) = i
BY DEF Union!IndexOf, Distinct

LEMMA HasIs ==
  ASSUME NEW o, NEW k
  PROVE  /\ Union!Has(o, k) <=> \E i \in DOMAIN o.key_of : o.key_of[i] = k
         /\ Union!Has(o, k) => /\ Union!IndexOf(o, k) \in DOMAIN o.key_of
                               /\ o.key_of[Union!IndexOf(o, k)] = k
<1>1. Union!Has(o, k) <=> \E i \in DOMAIN o.key_of : o.key_of[i] = k
  BY DEF Union!Has, Union!ToSet
<1>2. QED
  BY <1>1 DEF Union!IndexOf

LEMMA TwoToIs ==
  /\ Union!TwoTo[0] = 1
  /\ \A n \in Nat : Union!TwoTo[n] \in Nat /\ Union!TwoTo[n + 1] = 2 * Union!TwoTo[n]
BY TwoToMaps

LEMMA TwoToGrows ==
  ASSUME NEW N \in Nat
  PROVE  \A n \in 0..N : Union!TwoTo[n] \in Nat /\ n < Union!TwoTo[n]
                         /\ Union!TwoTo[n] <= Union!TwoTo[N]
<1> DEFINE B == Union!TwoTo
           S == {n \in 0..N : n < B[n]}
           U == {n \in 0..N : B[N - n] <= B[N]}
<1>1. /\ B[0] = 1
      /\ \A n \in Nat : B[n] \in Nat /\ B[n + 1] = 2 * B[n]
  BY TwoToIs
<1> HIDE DEF B
<1>2. ASSUME NEW n \in 0..(N - 1), n \in S PROVE n + 1 \in S
  <2>1. n + 1 \in 0..N /\ n \in Nat /\ n < B[n] /\ B[n] \in Nat /\ B[n + 1] = 2 * B[n]
    BY <1>1, <1>2
  <2>2. n + 1 < B[n + 1]
    BY <2>1
  <2>3. QED
    BY <2>1, <2>2
<1>3. 0 \in S
  BY <1>1
<1>4. ASSUME NEW n \in 0..(N - 1), n \in U PROVE n + 1 \in U
  <2> DEFINE k == N - (n + 1)
  <2>1. n + 1 \in 0..N /\ k \in Nat /\ N - n = k + 1 /\ B[N - n] <= B[N]
    BY <1>4
  <2> HIDE DEF k
  <2>2. B[k + 1] = 2 * B[k] /\ B[k] \in Nat /\ B[N] \in Nat
    BY <1>1, <2>1
  <2>3. B[k] <= B[N]
    BY <2>1, <2>2
  <2>4. QED
    BY <2>1, <2>3 DEF k
<1>5. 0 \in U
  <2>1. N - 0 = N /\ B[N] \in Nat
    BY <1>1
  <2>2. QED
    BY <2>1
<1> HIDE DEF S, U
<1>6. \A n \in 0..N : n \in S
  BY <1>2, <1>3, Upwards
<1>7. \A n \in 0..N : n \in U
  BY <1>4, <1>5, Upwards
<1>8. ASSUME NEW n \in 0..N PROVE B[n] <= B[N]
  <2>1. N - n \in 0..N /\ N - (N - n) = n
    OBVIOUS
  <2>2. QED
    BY <1>7, <2>1 DEF U
<1>9. QED
  BY <1>1, <1>6, <1>8 DEF S, B

-----------------------------------------------------------------------------
(* DisjointSet. *)

\* Ranks grow towards the roots, and a root of rank k has at least 2^k indices below it.
RankInv(o) ==
  /\ o \in [key_of : Seq(Members), parent : Seq(Nat), rnk : Seq(Nat)]
  /\ Len(o.parent) = Len(o.key_of) /\ Len(o.rnk) = Len(o.key_of)
  /\ Distinct(o.key_of)
  /\ Climbs(o.parent, o.rnk)
  /\ \A v \in 1..Len(o.parent) :
       o.parent[v] = v => Union!TwoTo[o.rnk[v]] <= Cardinality(TreeOf(o.parent, v))

LEMMA RankTyped ==
  ASSUME NEW o, RankInv(o)
  PROVE  /\ o.key_of \in Seq(Members) /\ o.parent \in Seq(Nat) /\ o.rnk \in Seq(Nat)
         /\ o = [key_of |-> o.key_of, parent |-> o.parent, rnk |-> o.rnk]
         /\ Len(o.key_of) \in Nat /\ Len(o.parent) = Len(o.key_of) /\ Len(o.rnk) = Len(o.key_of)
         /\ DOMAIN o.key_of = 1..Len(o.parent) /\ Distinct(o.key_of) /\ Climbs(o.parent, o.rnk)
         /\ Union!Partition(o) = Cells(o.key_of, RootsOf(o.parent))
<1>1. /\ o \in [key_of : Seq(Members), parent : Seq(Nat), rnk : Seq(Nat)]
      /\ Len(o.parent) = Len(o.key_of) /\ Len(o.rnk) = Len(o.key_of)
      /\ Distinct(o.key_of) /\ Climbs(o.parent, o.rnk)
  BY DEF RankInv
<1>2. o.key_of \in Seq(Members) /\ o.parent \in Seq(Nat) /\ o.rnk \in Seq(Nat)
  BY <1>1
<1>3. o = [key_of |-> o.key_of, parent |-> o.parent, rnk |-> o.rnk]
  BY <1>1
<1>4. Len(o.key_of) \in Nat /\ DOMAIN o.key_of = 1..Len(o.parent)
  BY <1>1, <1>2
<1>5. Union!Partition(o) = Cells(o.key_of, RootsOf(o.parent))
  BY <1>4, PartitionIs
<1>6. QED
  BY <1>1, <1>2, <1>3, <1>4, <1>5

\* Ways may change where roots do not.
LEMMA RootsKept ==
  ASSUME NEW o, RankInv(o), NEW p, Climbs(p, o.rnk), Len(p) = Len(o.parent),
         \A i \in 1..Len(p) : Union!RelFind(p, i) = Union!RelFind(o.parent, i)
  PROVE  /\ RankInv([o EXCEPT !.parent = p])
         /\ Union!Partition([o EXCEPT !.parent = p]) = Union!Partition(o)
<1> DEFINE g == [o EXCEPT !.parent = p]
           N == Len(o.parent)
<1>1. /\ o.key_of \in Seq(Members) /\ o.rnk \in Seq(Nat) /\ p \in Seq(Nat)
      /\ o = [key_of |-> o.key_of, parent |-> o.parent, rnk |-> o.rnk]
      /\ Len(o.key_of) = N /\ Len(o.rnk) = N /\ DOMAIN o.key_of = 1..N /\ Distinct(o.key_of)
      /\ Climbs(o.parent, o.rnk)
  BY RankTyped, Climbing
<1>2. g.key_of = o.key_of /\ g.parent = p /\ g.rnk = o.rnk
  BY <1>1
<1>3. g = [key_of |-> o.key_of, parent |-> p, rnk |-> o.rnk]
  BY <1>1
<1>4. g \in [key_of : Seq(Members), parent : Seq(Nat), rnk : Seq(Nat)]
  BY <1>1, <1>3
<1> HIDE DEF g
<1>5. \A v : TreeOf(p, v) = TreeOf(o.parent, v)
  BY DEF TreeOf
<1>6. ASSUME NEW v \in 1..N, p[v] = v
      PROVE  Union!TwoTo[o.rnk[v]] <= Cardinality(TreeOf(p, v))
  <2>1. Union!RelFind(p, v) = v
    BY <1>6, WayEnds
  <2>2. Union!RelFind(o.parent, v) = v
    BY <2>1
  <2>3. o.parent[v] = v
    BY <1>1, <2>2, WayEnds
  <2>4. QED
    BY <1>5, <2>3 DEF RankInv
<1>7. RankInv(g)
  BY <1>1, <1>2, <1>4, <1>6 DEF RankInv
<1>8. RootsOf(p) = RootsOf(o.parent)
  BY DEF RootsOf
<1>9. Union!Partition(g) = Union!Partition(o)
  BY <1>2, <1>7, <1>8, RankTyped
<1>10. QED
  BY <1>7, <1>9 DEF g

LEMMA RootsAre ==
  ASSUME NEW o, RankInv(o), NEW a, NEW b, Union!Has(o, a), Union!Has(o, b)
  PROVE  LET v == Union!Roots(o, a, b)
         IN  /\ v.a = Union!RelFind(o.parent, Union!IndexOf(o, a))
             /\ v.b = Union!RelFind(o.parent, Union!IndexOf(o, b))
             /\ Climbs(v.parent, o.rnk) /\ Len(v.parent) = Len(o.parent)
             /\ \A i \in 1..Len(o.parent) :
                  Union!RelFind(v.parent, i) = Union!RelFind(o.parent, i)
<1> DEFINE i == Union!IndexOf(o, a)
           j == Union!IndexOf(o, b)
           m == o.rnk
           ra == Union!find_root(o.parent, i)
           rb == Union!find_root(ra.parent, j)
           N == Len(o.parent)
<1>1. i \in 1..N /\ j \in 1..N /\ Climbs(o.parent, m)
  BY HasIs, RankTyped
<1>2. /\ Union!Roots(o, a, b).a = ra.root /\ Union!Roots(o, a, b).b = rb.root
      /\ Union!Roots(o, a, b).parent = rb.parent
  BY DEF Union!Roots
<1> HIDE DEF i, j, m, ra, rb, N
<1>3. ra.root = Union!RelFind(o.parent, i) /\ SameRoots(o.parent, m, i, ra)
  BY <1>1, FindsRoot DEF ra, N
<1>4. /\ Climbs(ra.parent, m) /\ Len(ra.parent) = N
      /\ \A l \in 1..N : Union!RelFind(ra.parent, l) = Union!RelFind(o.parent, l)
  BY <1>3 DEF SameRoots, N
<1>5. rb.root = Union!RelFind(ra.parent, j) /\ SameRoots(ra.parent, m, j, rb)
  BY <1>1, <1>4, FindsRoot DEF rb
<1>6. /\ Climbs(rb.parent, m) /\ Len(rb.parent) = N
      /\ \A l \in 1..N : Union!RelFind(rb.parent, l) = Union!RelFind(ra.parent, l)
  BY <1>4, <1>5 DEF SameRoots
<1>7. QED
  BY <1>1, <1>2, <1>3, <1>4, <1>5, <1>6 DEF i, j, m, N

LEMMA FindIs ==
  ASSUME NEW o, RankInv(o), NEW k, Union!Has(o, k)
  PROVE  /\ RankInv(Union!find(o, k))
         /\ Union!Partition(Union!find(o, k)) = Union!Partition(o)
         /\ Union!Found(o, k) = o.key_of[Union!RelFind(o.parent, Union!IndexOf(o, k))]
<1> DEFINE i == Union!IndexOf(o, k)
           v == Union!find_root(o.parent, i)
<1>1. i \in 1..Len(o.parent) /\ Climbs(o.parent, o.rnk)
  BY HasIs, RankTyped
<1>2. v.root = Union!RelFind(o.parent, i) /\ SameRoots(o.parent, o.rnk, i, v)
  BY <1>1, FindsRoot
<1>3. Union!find(o, k) = [o EXCEPT !.parent = v.parent]
  BY DEF Union!find
<1>4. Union!Found(o, k) = o.key_of[v.root]
  BY DEF Union!Found
<1> HIDE DEF i, v
<1>5. /\ Climbs(v.parent, o.rnk) /\ Len(v.parent) = Len(o.parent)
      /\ \A l \in 1..Len(o.parent) : Union!RelFind(v.parent, l) = Union!RelFind(o.parent, l)
  BY <1>2 DEF SameRoots
<1>6. QED
  BY <1>2, <1>3, <1>4, <1>5, RootsKept DEF i

LEMMA SameSetIs ==
  ASSUME NEW o, RankInv(o), NEW a, NEW b, Union!Has(o, a), Union!Has(o, b)
  PROVE  /\ RankInv(Union!same_set(o, a, b))
         /\ Union!Partition(Union!same_set(o, a, b)) = Union!Partition(o)
<1> DEFINE p == Union!Roots(o, a, b).parent
<1>1. /\ Climbs(p, o.rnk) /\ Len(p) = Len(o.parent)
      /\ \A i \in 1..Len(p) : Union!RelFind(p, i) = Union!RelFind(o.parent, i)
  BY RootsAre
<1>2. Union!same_set(o, a, b) = [o EXCEPT !.parent = p]
  BY DEF Union!same_set
<1> HIDE DEF p
<1>3. QED
  BY <1>1, <1>2, RootsKept

LEMMA MakeSetIs ==
  ASSUME NEW o, RankInv(o), NEW k \in Members
  PROVE  /\ RankInv(Union!make_set(o, k))
         /\ Union!Partition(Union!make_set(o, k)) = Union!With(Union!Partition(o), k)
<1> DEFINE key == o.key_of
           id == o.parent
           m == o.rnk
           N == Len(id)
           R == RootsOf(id)
<1>1. /\ key \in Seq(Members) /\ id \in Seq(Nat) /\ m \in Seq(Nat) /\ N \in Nat
      /\ Len(key) = N /\ Len(m) = N /\ DOMAIN key = 1..N /\ Distinct(key) /\ Climbs(id, m)
      /\ Union!Partition(o) = Cells(key, R)
  BY RankTyped
<1>2. Union!With(Union!Partition(o), k) = IF Union!Has(o, k) THEN Cells(key, R)
                                          ELSE Cells(key, R) \cup {{k}}
  <2>1. (\E S \in Cells(key, R) : k \in S) <=> Union!Has(o, k)
    BY WithHas, HasIs
  <2>2. QED
    BY <1>1, <2>1 DEF Union!With
<1>3. CASE Union!Has(o, k)
  BY <1>1, <1>2, <1>3 DEF Union!make_set
<1>4. CASE ~Union!Has(o, k)
  <2> DEFINE more == Append(key, k)
             up == Append(id, N + 1)
             n == Append(m, 0)
             g == [key_of |-> more, rnk |-> n, parent |-> up]
             Q == [i \in 1..(N + 1) |-> IF i = N + 1 THEN N + 1 ELSE R[i]]
  <2>1. Union!make_set(o, k) = g
    BY <1>4 DEF Union!make_set
  <2>2. \A i \in 1..N : key[i] # k
    BY <1>1, <1>4, HasIs
  <2>3. /\ more \in Seq(Members) /\ Len(more) = N + 1 /\ DOMAIN more = 1..(N + 1)
        /\ (\A i \in 1..N : more[i] = key[i]) /\ more[N + 1] = k
    BY <1>1
  <2>4. /\ up \in Seq(Nat) /\ Len(up) = N + 1
        /\ (\A i \in 1..N : up[i] = id[i]) /\ up[N + 1] = N + 1
    BY <1>1
  <2>5. /\ n \in Seq(Nat) /\ Len(n) = N + 1 /\ n \in [1..(N + 1) -> Nat]
        /\ (\A i \in 1..N : n[i] = m[i]) /\ n[N + 1] = 0
    <3>1. m \in Seq(Nat) /\ Len(m) = N /\ N \in Nat
      BY <1>1
    <3> HIDE DEF m, N
    <3>2. n \in Seq(Nat) /\ Len(n) = N + 1
      BY <3>1
    <3>3. (\A i \in 1..N : n[i] = m[i]) /\ n[N + 1] = 0
      BY <3>1
    <3> HIDE DEF n
    <3>4. n \in [1..(N + 1) -> Nat]
      BY <3>2
    <3>5. QED
      BY <3>2, <3>3, <3>4
  <2>6. /\ \A i \in 1..N : i \in 1..(N + 1) /\ i # N + 1
        /\ \A i \in 1..(N + 1) : i \in 1..N \/ i = N + 1
        /\ N + 1 \in 1..(N + 1)
    BY <1>1
  <2>7. \A i \in 1..N : /\ id[i] \in 1..N /\ m[i] \in Nat /\ m[i] < N
                        /\ id[i] # i => m[i] < m[id[i]]
    BY <1>1, Climbing
  <2>8. Leads(id, R)
    BY <1>1, RootsLead
  <2>9. g.key_of = more /\ g.parent = up /\ g.rnk = n
    OBVIOUS
  <2>10. g \in [key_of : Seq(Members), parent : Seq(Nat), rnk : Seq(Nat)]
    BY <2>3, <2>4, <2>5
  <2> HIDE DEF more, up, n, g
  <2>11. Climbs(up, n)
    <3> SUFFICES ASSUME NEW i \in 1..(N + 1)
                 PROVE  /\ up[i] \in 1..(N + 1) /\ n[i] < N + 1
                        /\ up[i] # i => n[i] < n[up[i]]
      BY <2>4, <2>5 DEF Climbs
    <3>1. CASE i = N + 1
      BY <1>1, <2>4, <2>5, <2>6, <3>1
    <3>2. CASE i \in 1..N
      <4>1. up[i] = id[i] /\ n[i] = m[i] /\ id[i] \in 1..N /\ n[id[i]] = m[id[i]]
        BY <2>4, <2>5, <2>7, <3>2
      <4>2. m[i] < N + 1
        BY <1>1, <2>7, <3>2
      <4>3. QED
        BY <2>6, <2>7, <3>2, <4>1, <4>2
    <3>3. QED
      BY <2>6, <3>1, <3>2
  <2>12. \A i \in 1..N : R[i] \in 1..N /\ (id[i] = i => R[i] = i) /\ R[id[i]] = R[i]
    BY <2>8 DEF Leads
  <2>13. Leads(up, Q)
    <3> SUFFICES ASSUME NEW i \in 1..(N + 1)
                 PROVE  Q[i] \in 1..(N + 1) /\ (up[i] = i => Q[i] = i) /\ Q[up[i]] = Q[i]
      BY <2>4 DEF Leads
    <3>1. CASE i = N + 1
      BY <2>4, <2>6, <3>1
    <3>2. CASE i \in 1..N
      <4>1. up[i] = id[i] /\ id[i] \in 1..N /\ Q[i] = R[i] /\ Q[id[i]] = R[id[i]]
        BY <2>4, <2>6, <2>7, <3>2
      <4>2. QED
        BY <2>6, <2>12, <3>2, <4>1
    <3>3. QED
      BY <2>6, <3>1, <3>2
  <2>14. \A i \in 1..(N + 1) : Union!RelFind(up, i) = Q[i]
    BY <2>4, <2>11, <2>13, OneRoot
  <2>15. \A i \in 1..N : Q[i] = R[i] /\ R[i] = Union!RelFind(id, i) /\ R[i] # N + 1
    BY <2>6, <2>12 DEF RootsOf
  <2>16. \A v \in 1..N : TreeOf(up, v) = TreeOf(id, v)
    <3>1. ASSUME NEW v \in 1..N, NEW i \in 1..(N + 1)
          PROVE  Union!RelFind(up, i) = v <=> i \in 1..N /\ Union!RelFind(id, i) = v
      BY <2>6, <2>14, <2>15
    <3>2. QED
      BY <2>4, <2>6, <3>1 DEF TreeOf
  <2>17. TreeOf(up, N + 1) = {N + 1}
    <3>1. ASSUME NEW i \in 1..(N + 1)
          PROVE  Union!RelFind(up, i) = N + 1 <=> i = N + 1
      BY <2>6, <2>14, <2>15
    <3>2. QED
      BY <2>4, <2>6, <3>1 DEF TreeOf
  <2>18. ASSUME NEW v \in 1..(N + 1), up[v] = v
         PROVE  Union!TwoTo[n[v]] <= Cardinality(TreeOf(up, v))
    <3>1. CASE v = N + 1
      <4>1. Cardinality(TreeOf(up, v)) = 1
        BY <2>17, <3>1, FS_Singleton
      <4>2. Union!TwoTo[n[v]] = 1
        BY <2>5, <3>1, TwoToIs
      <4>3. QED
        BY <4>1, <4>2
    <3>2. CASE v \in 1..N
      BY <2>4, <2>5, <2>16, <2>18, <3>2 DEF RankInv
    <3>3. QED
      BY <2>6, <3>1, <3>2
  <2>19. Distinct(more)
    <3> SUFFICES ASSUME NEW i \in 1..(N + 1), NEW j \in 1..(N + 1), more[i] = more[j]
                 PROVE  i = j
      BY <2>3 DEF Distinct
    <3>1. \A x, y \in 1..N : key[x] = key[y] => x = y
      BY <1>1 DEF Distinct
    <3>2. QED
      BY <2>2, <2>3, <2>6, <3>1
  <2>20. RankInv(g)
    BY <2>3, <2>4, <2>5, <2>9, <2>10, <2>11, <2>18, <2>19 DEF RankInv
  <2>21. Union!Partition(g) = Cells(more, RootsOf(up))
    BY <2>9, <2>20, RankTyped
  <2>22. Cells(more, RootsOf(up)) = Cells(key, R) \cup {{k}}
    <3>1. \A i \in 1..(N + 1) : RootsOf(up)[i] = Q[i]
      BY <2>4, <2>14 DEF RootsOf
    <3>2. RootsOf(up)[N + 1] = N + 1 /\ \A i \in 1..N : RootsOf(up)[i] = R[i] /\ R[i] # N + 1
      BY <2>6, <2>15, <3>1
    <3>3. \A i, j \in 1..Len(key) : R[i] = R[j] <=> RootsOf(up)[i] = RootsOf(up)[j]
      BY <1>1, <3>2
    <3>4. \A i \in 1..Len(key) : RootsOf(up)[i] # RootsOf(up)[Len(key) + 1]
      BY <1>1, <3>2
    <3>5. Apart(key, k, R, RootsOf(up))
      BY <1>1, <2>2, <3>3, <3>4 DEF Apart
    <3>6. key \in Seq(Members)
      BY <1>1
    <3> HIDE DEF key, R
    <3>7. QED
      BY <3>5, <3>6, CellsAppend DEF more
  <2>23. QED
    BY <1>2, <1>4, <2>1, <2>20, <2>21, <2>22
<1>5. QED
  BY <1>3, <1>4

\* A root y is hung below a root x of no smaller rank.
Hung(o, x, y) ==
  [key_of |-> o.key_of, parent |-> [o.parent EXCEPT ![y] = x],
   rnk |-> [o.rnk EXCEPT ![x] = IF o.rnk[y] = o.rnk[x] THEN o.rnk[x] + 1 ELSE o.rnk[x]]]

LEMMA HungKeeps ==
  ASSUME NEW o, RankInv(o), NEW x \in 1..Len(o.parent), NEW y \in 1..Len(o.parent),
         x # y, o.parent[x] = x, o.parent[y] = y, o.rnk[y] <= o.rnk[x]
  PROVE  /\ RankInv(Hung(o, x, y))
         /\ \A i \in 1..Len(o.parent) :
              Union!RelFind(Hung(o, x, y).parent, i) =
                IF Union!RelFind(o.parent, i) = y THEN x ELSE Union!RelFind(o.parent, i)
<1> DEFINE id == o.parent
           m == o.rnk
           N == Len(id)
           h == [id EXCEPT ![y] = x]
           n == [m EXCEPT ![x] = IF m[y] = m[x] THEN m[x] + 1 ELSE m[x]]
           g == Hung(o, x, y)
           TX == TreeOf(id, x)
           TY == TreeOf(id, y)
<1>1. /\ o.key_of \in Seq(Members) /\ id \in Seq(Nat) /\ m \in Seq(Nat) /\ N \in Nat
      /\ Len(o.key_of) = N /\ Len(m) = N /\ Distinct(o.key_of) /\ Climbs(id, m)
  BY RankTyped
<1>2. \A i \in 1..N : /\ id[i] \in 1..N /\ m[i] \in Nat /\ m[i] < N
                      /\ id[i] # i => m[i] < m[id[i]]
  BY <1>1, Climbing
<1>3. \A v \in 1..N : id[v] = v => Union!TwoTo[m[v]] <= Cardinality(TreeOf(id, v))
  BY DEF RankInv
<1>4. m[x] \in Nat /\ m[y] \in Nat /\ m[y] <= m[x] /\ id[x] = x /\ id[y] = y
  BY <1>2
<1>5. g.key_of = o.key_of /\ g.parent = h /\ g.rnk = n
  BY DEF Hung
<1>6. h \in Seq(Nat) /\ Len(h) = N /\ \A i \in 1..N : h[i] = IF i = y THEN x ELSE id[i]
  <2>1. x \in Nat
    BY <1>1
  <2>2. QED
    BY <1>1, <2>1
<1>7. DOMAIN m = 1..N
  BY <1>1
<1>8. /\ \A i \in 1..N : i # x => n[i] = m[i]
      /\ n[x] = IF m[y] = m[x] THEN m[x] + 1 ELSE m[x]
  <2> HIDE DEF m, N, id
  <2>1. QED
    BY <1>7 DEF N, id
<1>9. n[x] \in Nat /\ m[x] <= n[x] /\ m[y] < n[x]
  BY <1>4, <1>8
<1>10. n \in Seq(Nat) /\ Len(n) = N /\ n \in [1..N -> Nat]
  <2>1. (IF m[y] = m[x] THEN m[x] + 1 ELSE m[x]) \in Nat
    BY <1>4
  <2>2. n \in Seq(Nat) /\ Len(n) = N
    BY <1>1, <2>1
  <2> HIDE DEF n
  <2>3. QED
    BY <2>2
<1>11. g \in [key_of : Seq(Members), parent : Seq(Nat), rnk : Seq(Nat)]
  <2> HIDE DEF h, n
  <2>1. QED
    BY <1>1, <1>6, <1>10 DEF Hung, h, n
<1> HIDE DEF h, n, g
<1>12. /\ IsFiniteSet(TX) /\ IsFiniteSet(TY) /\ Cardinality(TX) \in Nat /\ Cardinality(TY) \in Nat
       /\ TX \cap TY = {}
  <2>1. TX \cap TY = {}
    BY DEF TreeOf
  <2>2. QED
    BY <1>1, <2>1, TreesFinite
<1>13. /\ IsFiniteSet(TX \cup TY)
       /\ Cardinality(TX \cup TY) = Cardinality(TX) + Cardinality(TY)
  <2> HIDE DEF TX, TY
  <2>1. IsFiniteSet(TX \cup TY)
    BY <1>12, FS_Union
  <2>2. Cardinality(TX \cup TY) = Cardinality(TX) + Cardinality(TY) - Cardinality(TX \cap TY)
    BY <1>12, FS_Union
  <2>3. Cardinality(TX \cap TY) = 0
    BY <1>12, FS_EmptySet
  <2>4. QED
    BY <1>12, <2>1, <2>2, <2>3
<1>14. Union!TwoTo[m[x]] <= Cardinality(TX) /\ Union!TwoTo[m[y]] <= Cardinality(TY)
  BY <1>3, <1>4
<1>15. Union!TwoTo[n[x]] <= Cardinality(TX \cup TY)
  <2>1. Union!TwoTo[m[x]] \in Nat /\ Union!TwoTo[m[x] + 1] = 2 * Union!TwoTo[m[x]]
    BY <1>4, TwoToIs
  <2>2. CASE m[y] = m[x]
    <3>1. n[x] = m[x] + 1
      BY <1>8, <2>2
    <3>2. Union!TwoTo[m[x]] <= Cardinality(TY)
      BY <1>14, <2>2
    <3>3. 2 * Union!TwoTo[m[x]] <= Cardinality(TX) + Cardinality(TY)
      BY <1>12, <1>14, <2>1, <3>2
    <3>4. QED
      BY <1>13, <2>1, <3>1, <3>3
  <2>3. CASE m[y] # m[x]
    <3>1. n[x] = m[x]
      BY <1>8, <2>3
    <3>2. QED
      BY <1>12, <1>13, <1>14, <2>1, <3>1
  <2>4. QED
    BY <2>2, <2>3
<1>16. n[x] < N
  <2>1. Cardinality(TX \cup TY) <= N
    <3>1. TX \cup TY \subseteq 1..N
      BY DEF TreeOf
    <3>2. IsFiniteSet(1..N) /\ Cardinality(1..N) = N
      BY <1>1, Intervals
    <3>3. Cardinality(TX \cup TY) <= Cardinality(1..N)
      BY <3>1, <3>2, FS_Subset
    <3>4. QED
      BY <3>2, <3>3
  <2>2. n[x] \in 0..n[x]
    BY <1>9
  <2>3. n[x] < Union!TwoTo[n[x]] /\ Union!TwoTo[n[x]] \in Nat
    BY <1>9, <2>2, TwoToGrows
  <2>4. Cardinality(TX \cup TY) \in Nat
    BY <1>12, <1>13
  <2>5. QED
    BY <1>1, <1>9, <1>15, <2>1, <2>3, <2>4
<1>17. Climbs(h, n)
  <2> SUFFICES ASSUME NEW i \in 1..N
               PROVE  h[i] \in 1..N /\ n[i] < N /\ (h[i] # i => n[i] < n[h[i]])
    BY <1>6, <1>10 DEF Climbs
  <2>1. h[i] \in 1..N /\ n[i] < N
    BY <1>2, <1>6, <1>8, <1>16
  <2>2. CASE i = y
    <3>1. h[i] = x /\ n[i] = m[y]
      BY <1>6, <1>8, <2>2
    <3>2. QED
      BY <1>9, <2>1, <3>1
  <2>3. CASE i # y /\ id[i] # i
    <3>1. h[i] = id[i] /\ n[i] = m[i] /\ m[i] < m[id[i]] /\ id[i] \in 1..N
      BY <1>2, <1>4, <1>6, <1>8, <2>3
    <3>2. m[id[i]] <= n[id[i]]
      <4>1. CASE id[i] = x
        BY <1>9, <4>1
      <4>2. CASE id[i] # x
        <5>1. n[id[i]] = m[id[i]] /\ m[id[i]] \in Nat
          BY <1>2, <1>8, <3>1, <4>2
        <5>2. QED
          BY <5>1
      <4>3. QED
        BY <4>1, <4>2
    <3>3. m[i] \in Nat /\ m[id[i]] \in Nat /\ n[id[i]] \in Nat
      BY <1>2, <1>10, <3>1
    <3>4. QED
      BY <2>1, <3>1, <3>2, <3>3
  <2>4. CASE i # y /\ id[i] = i
    BY <1>6, <2>1, <2>4
  <2>5. QED
    BY <2>2, <2>3, <2>4
<1>18. /\ \A i \in 1..N : Union!RelFind(h, i) = IF Union!RelFind(id, i) = y THEN x
                                                ELSE Union!RelFind(id, i)
       /\ TreeOf(h, x) = TX \cup TY
       /\ \A v \in 1..N : v \notin {x, y} => TreeOf(h, v) = TreeOf(id, v)
       /\ \A i \in 1..N : h[i] = i <=> id[i] = i /\ i # y
  <2>1. /\ Climbs(id, m) /\ Climbs(h, n) /\ Hangs(id, h, x, y)
        /\ x \in 1..Len(id) /\ y \in 1..Len(id) /\ x # y /\ id[x] = x /\ id[y] = y
    BY <1>1, <1>17 DEF h, Hangs
  <2> HIDE DEF id, m
  <2>2. Linked(id, h, x, y)
    BY <2>1, RootsLinked
  <2>3. QED
    BY <2>2 DEF Linked
<1>19. ASSUME NEW v \in 1..N, h[v] = v
       PROVE  Union!TwoTo[n[v]] <= Cardinality(TreeOf(h, v))
  <2>1. id[v] = v /\ v # y
    BY <1>18, <1>19
  <2>2. CASE v = x
    BY <1>15, <1>18, <2>2
  <2>3. CASE v # x
    BY <1>3, <1>8, <1>18, <2>1, <2>3
  <2>4. QED
    BY <2>2, <2>3
<1>20. RankInv(g)
  BY <1>1, <1>5, <1>6, <1>10, <1>11, <1>17, <1>19 DEF RankInv
<1>21. QED
  BY <1>5, <1>18, <1>20 DEF g

LEMMA UnionSetsIs ==
  ASSUME NEW o, RankInv(o), NEW a, NEW b, Union!Has(o, a), Union!Has(o, b)
  PROVE  /\ RankInv(Union!union_sets(o, a, b))
         /\ Union!Partition(Union!union_sets(o, a, b)) = Union!Merged(Union!Partition(o), a, b)
<1> DEFINE i == Union!IndexOf(o, a)
           j == Union!IndexOf(o, b)
           v == Union!Roots(o, a, b)
           key == o.key_of
           R == RootsOf(o.parent)
           N == Len(o.parent)
           m == o.rnk
           u == Union!union_sets(o, a, b)
<1>1. /\ i \in 1..N /\ j \in 1..N /\ key[i] = a /\ key[j] = b /\ DOMAIN key = 1..N
      /\ Distinct(key) /\ Climbs(o.parent, m) /\ Union!Partition(o) = Cells(key, R)
  BY HasIs, RankTyped
<1>2. /\ v.a = R[i] /\ v.b = R[j] /\ Climbs(v.parent, m) /\ Len(v.parent) = N
      /\ \A l \in 1..N : Union!RelFind(v.parent, l) = R[l]
  BY <1>1, RootsAre DEF RootsOf
<1>3. ASSUME NEW Q, Joined(key, R, Q, i, j)
      PROVE  Cells(key, Q) = Union!Merged(Cells(key, R), a, b)
  <2>1. i \in DOMAIN key /\ j \in DOMAIN key /\ Distinct(key)
    BY <1>1
  <2> HIDE DEF key, R, i, j, N
  <2>2. Cells(key, Q) = Union!Merged(Cells(key, R), key[i], key[j])
    BY <1>3, <2>1, CellsMerge
  <2>3. QED
    BY <1>1, <2>2
<1>4. CASE v.a = v.b
  <2>1. u = Union!same_set(o, a, b)
    BY <1>4 DEF Union!union_sets
  <2>2. Union!Merged(Cells(key, R), a, b) = Cells(key, R)
    <3>1. R[i] = R[j]
      BY <1>2, <1>4
    <3> HIDE DEF key, R, i, j, N
    <3>2. Joined(key, R, R, i, j)
      BY <3>1 DEF Joined
    <3>3. QED
      BY <1>3, <3>2
  <2>3. QED
    BY <1>1, <2>1, <2>2, SameSetIs
<1>5. CASE v.a # v.b
  <2> DEFINE g == [o EXCEPT !.parent = v.parent]
             x == IF m[v.a] < m[v.b] THEN v.b ELSE v.a
             y == IF x = v.a THEN v.b ELSE v.a
  <2>1. RankInv(g)
    BY <1>1, <1>2, RootsKept DEF RootsOf
  <2>2. g.key_of = key /\ g.parent = v.parent /\ g.rnk = m
    BY RankTyped
  <2>3. u = [o EXCEPT !.parent = [v.parent EXCEPT ![y] = x],
                      !.rnk[x] = IF m[y] = @ THEN @ + 1 ELSE @]
    BY <1>5, Zenon DEF Union!union_sets
  <2>4. u = Hung(g, x, y)
    <3>1. o = [key_of |-> key, parent |-> o.parent, rnk |-> m]
      BY RankTyped
    <3>2. /\ u.key_of = key /\ u.parent = [v.parent EXCEPT ![y] = x]
          /\ u.rnk = [m EXCEPT ![x] = IF m[y] = m[x] THEN m[x] + 1 ELSE m[x]]
      BY <2>3, <3>1
    <3>3. u = [key_of |-> u.key_of, parent |-> u.parent, rnk |-> u.rnk]
      BY <2>3, <3>1
    <3>4. QED
      BY <2>2, <3>2, <3>3 DEF Hung
  <2>5. v.a \in 1..N /\ v.b \in 1..N /\ v.parent[v.a] = v.a /\ v.parent[v.b] = v.b
    <3>1. v.a = Union!RelFind(v.parent, i) /\ v.b = Union!RelFind(v.parent, j)
      BY <1>1, <1>2
    <3>2. i \in 1..Len(v.parent) /\ j \in 1..Len(v.parent) /\ Climbs(v.parent, m)
      BY <1>1, <1>2
    <3>3. PICK p : p = v.parent
      OBVIOUS
    <3> HIDE DEF i, j, m
    <3>4. QED
      BY <1>2, <3>1, <3>2, <3>3, WayEnds
  <2>6. m[v.a] \in Nat /\ m[v.b] \in Nat
    BY <1>1, <2>5, Climbing
  <2>7. /\ x \in 1..N /\ y \in 1..N /\ x # y /\ v.parent[x] = x /\ v.parent[y] = y
        /\ m[y] <= m[x] /\ {x, y} = {R[i], R[j]}
    BY <1>2, <1>5, <2>5, <2>6
  <2> HIDE DEF x, y, g, u
  <2>8. /\ RankInv(Hung(g, x, y))
        /\ \A l \in 1..N : Union!RelFind(Hung(g, x, y).parent, l) =
                             IF Union!RelFind(v.parent, l) = y THEN x
                             ELSE Union!RelFind(v.parent, l)
    BY <1>2, <2>1, <2>2, <2>7, HungKeeps
  <2> DEFINE Q == RootsOf(u.parent)
  <2>9. RankInv(u) /\ u.key_of = key /\ Len(u.parent) = N
    <3>1. RankInv(u)
      BY <2>4, <2>8
    <3>2. u.key_of = key
      BY <2>2, <2>4 DEF Hung
    <3>3. QED
      BY <3>1, <3>2, RankTyped
  <2>10. \A l \in 1..N : Q[l] = IF R[l] = y THEN x ELSE R[l]
    BY <1>2, <2>4, <2>8, <2>9 DEF RootsOf
  <2>11. Union!Partition(u) = Cells(key, Q)
    BY <2>9, RankTyped
  <2>12. Cells(key, Q) = Union!Merged(Cells(key, R), a, b)
    <3> HIDE DEF key, R, i, j, N, Q
    <3>1. ASSUME NEW l \in 1..N, NEW k \in 1..N
          PROVE  Q[l] = Q[k] <=> \/ R[l] = R[k]
                                 \/ R[l] \in {R[i], R[j]} /\ R[k] \in {R[i], R[j]}
      <4>1. Q[l] = (IF R[l] = y THEN x ELSE R[l]) /\ Q[k] = IF R[k] = y THEN x ELSE R[k]
        BY <2>10
      <4>2. \A z : z \in {R[i], R[j]} <=> z = x \/ z = y
        BY <2>7
      <4>3. QED
        BY <2>7, <4>1, <4>2
    <3>2. Joined(key, R, Q, i, j)
      BY <1>1, <3>1 DEF Joined
    <3>3. QED
      BY <1>3, <3>2
  <2>13. QED
    BY <1>1, <2>9, <2>11, <2>12 DEF u
<1>6. QED
  BY <1>4, <1>5

-----------------------------------------------------------------------------
(* TRelation. *)

Below(sz) == [i \in 1..Len(sz) |-> sz[i] - 1]
OwnRoots(id) == {i \in 1..Len(id) : id[i] = i}

\* A size at least doubles on the way up, a root's is that of its tree, and from n + 1
\* on every index is alone.
Sizes(n, id, sz, blocks) ==
  /\ n \in Nat /\ n <= Len(id)
  /\ sz \in Seq(Nat) /\ Len(sz) = Len(id) /\ Climbs(id, Below(sz))
  /\ \A i \in 1..Len(id) : /\ id[i] # i => 2 * sz[i] <= sz[id[i]]
                           /\ id[i] = i => sz[i] = Cardinality(TreeOf(id, i))
                           /\ i > n => id[i] = i /\ sz[i] = 1
  /\ blocks = Cardinality(OwnRoots(id))

\* What this says of the index i.
SizesAt(n, id, sz, i) ==
  /\ id[i] \in 1..Len(id) /\ sz[i] \in Nat /\ sz[i] >= 1 /\ sz[i] <= Len(id)
  /\ id[i] # i => 2 * sz[i] <= sz[id[i]]
  /\ id[i] = i => sz[i] = Cardinality(TreeOf(id, i))
  /\ i > n => id[i] = i /\ sz[i] = 1

SizeInv(o) ==
  /\ o \in [key_of : Seq(Members), parent : Seq(Nat), sz : Seq(Nat), num_blocks : Nat]
  /\ Distinct(o.key_of)
  /\ Sizes(Len(o.key_of), o.parent, o.sz, o.num_blocks)

LEMMA SizesGrow ==
  ASSUME NEW n, NEW id, NEW sz, NEW blocks, Sizes(n, id, sz, blocks)
  PROVE  /\ n \in Nat /\ Len(id) \in Nat /\ n <= Len(id) /\ id \in Seq(Nat)
         /\ sz \in Seq(Nat) /\ Len(sz) = Len(id) /\ DOMAIN sz = 1..Len(id)
         /\ Climbs(id, Below(sz)) /\ IsFiniteSet(OwnRoots(id))
         /\ \A i \in 1..Len(id) : SizesAt(n, id, sz, i)
<1>1. /\ n \in Nat /\ n <= Len(id) /\ sz \in Seq(Nat) /\ Len(sz) = Len(id)
      /\ Climbs(id, Below(sz))
  BY DEF Sizes
<1>2. id \in Seq(Nat) /\ Len(id) \in Nat
  BY <1>1, Climbing
<1>3. DOMAIN sz = 1..Len(id) /\ \A i \in 1..Len(id) : sz[i] \in Nat
  BY <1>1, <1>2
<1>4. ASSUME NEW i \in 1..Len(id)
      PROVE  id[i] \in 1..Len(id) /\ sz[i] >= 1 /\ sz[i] <= Len(id)
  <2>1. id[i] \in 1..Len(id) /\ Below(sz)[i] \in Nat /\ Below(sz)[i] < Len(id)
    BY <1>1, Climbing
  <2>2. Below(sz)[i] = sz[i] - 1
    BY <1>1 DEF Below
  <2>3. QED
    BY <1>2, <1>3, <2>1, <2>2
<1>5. IsFiniteSet(OwnRoots(id))
  <2>1. IsFiniteSet(1..Len(id)) /\ OwnRoots(id) \subseteq 1..Len(id)
    BY <1>2, FS_Interval DEF OwnRoots
  <2>2. QED
    BY <2>1, FS_Subset
<1>6. QED
  BY <1>1, <1>2, <1>3, <1>4, <1>5 DEF Sizes, SizesAt

Adds(sz, s, x, y) == s = [sz EXCEPT ![x] = sz[x] + sz[y]]

LEMMA SizesHung ==
  ASSUME NEW n, NEW id, NEW sz, NEW blocks, Sizes(n, id, sz, blocks),
         NEW x \in 1..n, NEW y \in 1..n, x # y, id[x] = x, id[y] = y, sz[y] <= sz[x],
         NEW h, Hangs(id, h, x, y), NEW s, Adds(sz, s, x, y)
  PROVE  Linked(id, h, x, y) /\ Sizes(n, h, s, blocks - 1) /\ blocks - 1 \in Nat
<1> DEFINE N == Len(id)
           TX == TreeOf(id, x)
           TY == TreeOf(id, y)
<1>1. /\ n \in Nat /\ N \in Nat /\ n <= N /\ id \in Seq(Nat) /\ DOMAIN id = 1..N
      /\ sz \in Seq(Nat) /\ Len(sz) = N /\ DOMAIN sz = 1..N
      /\ Climbs(id, Below(sz)) /\ IsFiniteSet(OwnRoots(id))
  BY SizesGrow
<1>2. \A i \in 1..N : /\ id[i] \in 1..N /\ sz[i] \in Nat /\ sz[i] >= 1 /\ sz[i] <= N
                      /\ id[i] # i => 2 * sz[i] <= sz[id[i]]
                      /\ id[i] = i => sz[i] = Cardinality(TreeOf(id, i))
                      /\ i > n => id[i] = i /\ sz[i] = 1
  <2>1. \A i \in 1..N : SizesAt(n, id, sz, i)
    BY SizesGrow
  <2>2. QED
    BY <2>1 DEF SizesAt
<1>3. x \in 1..N /\ y \in 1..N /\ ~(x > n) /\ ~(y > n)
  BY <1>1
<1>4. sz[x] \in Nat /\ sz[y] \in Nat /\ sz[x] >= 1 /\ sz[y] >= 1 /\ sz[x] + sz[y] \in Nat
  BY <1>2, <1>3
<1>5. /\ s \in Seq(Nat) /\ Len(s) = N /\ s[x] = sz[x] + sz[y]
      /\ \A i \in 1..N : i # x => s[i] = sz[i]
  BY <1>1, <1>3, <1>4 DEF Adds
<1>6. /\ h \in Seq(Nat) /\ Len(h) = N
      /\ \A i \in 1..N : h[i] = IF i = y THEN x ELSE id[i]
  <2>1. x \in Nat /\ h = [id EXCEPT ![y] = x]
    BY DEF Hangs
  <2>2. QED
    BY <1>1, <2>1
<1>7. /\ IsFiniteSet(TX) /\ IsFiniteSet(TY) /\ Cardinality(TX) \in Nat /\ Cardinality(TY) \in Nat
      /\ TX \cap TY = {}
  <2>1. TX \cap TY = {}
    BY DEF TreeOf
  <2>2. QED
    BY <1>1, <2>1, TreesFinite
<1>8. /\ IsFiniteSet(TX \cup TY) /\ Cardinality(TX \cup TY) = s[x]
  <2>1. sz[x] = Cardinality(TX) /\ sz[y] = Cardinality(TY)
    BY <1>2, <1>3
  <2> HIDE DEF TX, TY
  <2>2. IsFiniteSet(TX \cup TY)
    BY <1>7, FS_Union
  <2>3. Cardinality(TX \cup TY) = Cardinality(TX) + Cardinality(TY) - Cardinality(TX \cap TY)
    BY <1>7, FS_Union
  <2>4. Cardinality(TX \cap TY) = 0
    BY <1>7, FS_EmptySet
  <2>5. QED
    BY <1>5, <1>7, <2>1, <2>2, <2>3, <2>4
<1>9. s[x] <= N
  <2>1. IsFiniteSet(1..N) /\ Cardinality(1..N) = N
    BY <1>1, Intervals
  <2>2. TX \cup TY \subseteq 1..N
    BY DEF TreeOf
  <2>3. Cardinality(TX \cup TY) <= Cardinality(1..N)
    BY <2>1, <2>2, FS_Subset
  <2>4. QED
    BY <1>8, <2>1, <2>3
<1>10. \A i \in 1..N : s[i] \in Nat /\ s[i] >= 1 /\ s[i] <= N /\ sz[i] <= s[i]
  <2> SUFFICES ASSUME NEW i \in 1..N
               PROVE  s[i] \in Nat /\ s[i] >= 1 /\ s[i] <= N /\ sz[i] <= s[i]
    OBVIOUS
  <2>1. CASE i = x
    BY <1>4, <1>5, <1>9, <2>1
  <2>2. CASE i # x
    <3>1. s[i] = sz[i] /\ sz[i] \in Nat /\ sz[i] >= 1 /\ sz[i] <= N
      BY <1>2, <1>5, <2>2
    <3>2. QED
      BY <3>1
  <2>3. QED
    BY <2>1, <2>2
<1>11. \A i \in 1..N : h[i] \in 1..N /\ (h[i] # i => 2 * s[i] <= s[h[i]])
  <2> SUFFICES ASSUME NEW i \in 1..N
               PROVE  h[i] \in 1..N /\ (h[i] # i => 2 * s[i] <= s[h[i]])
    OBVIOUS
  <2>1. h[i] \in 1..N
    BY <1>2, <1>3, <1>6
  <2>2. CASE i = y
    <3>1. h[i] = x /\ s[i] = sz[y]
      BY <1>5, <1>6, <2>2
    <3>2. 2 * sz[y] <= sz[x] + sz[y]
      BY <1>4
    <3>3. QED
      BY <1>5, <2>1, <3>1, <3>2
  <2>3. CASE i # y
    <3>1. h[i] = id[i] /\ id[i] \in 1..N
      BY <1>2, <1>6, <2>3
    <3>2. ASSUME id[i] # i PROVE 2 * s[i] <= s[id[i]]
      <4>1. i # x
        BY <3>2
      <4>2. s[i] = sz[i] /\ sz[i] \in Nat /\ 2 * sz[i] <= sz[id[i]]
        BY <1>2, <1>5, <3>2, <4>1
      <4>3. sz[id[i]] \in Nat /\ s[id[i]] \in Nat /\ sz[id[i]] <= s[id[i]]
        BY <1>2, <1>10, <3>1
      <4>4. QED
        BY <4>2, <4>3
    <3>3. QED
      BY <2>1, <3>1, <3>2
  <2>4. QED
    BY <2>2, <2>3
<1>12. Climbs(h, Below(s))
  <2>1. Below(s) \in [1..N -> Nat] /\ \A i \in 1..N : Below(s)[i] = s[i] - 1
    <3>1. \A i \in 1..N : s[i] - 1 \in Nat
      BY <1>10
    <3>2. QED
      BY <1>5, <3>1 DEF Below
  <2>2. ASSUME NEW i \in 1..N
        PROVE  /\ h[i] \in 1..N /\ Below(s)[i] < N
               /\ h[i] # i => Below(s)[i] < Below(s)[h[i]]
    <3>1. Below(s)[i] = s[i] - 1 /\ Below(s)[h[i]] = s[h[i]] - 1
      BY <1>11, <2>1
    <3>2. s[i] \in Nat /\ s[i] >= 1 /\ s[i] <= N /\ s[h[i]] \in Nat
      BY <1>10, <1>11
    <3>3. h[i] # i => 2 * s[i] <= s[h[i]]
      BY <1>11
    <3>4. Below(s)[i] < N /\ (h[i] # i => Below(s)[i] < Below(s)[h[i]])
      <4> HIDE DEF N
      <4>1. N \in Nat
        BY <1>1
      <4>2. PICK p, q : p = s[i] /\ q = s[h[i]]
        OBVIOUS
      <4>3. h[i] # i => 2 * p <= q
        BY <3>3, <4>2
      <4>4. p \in Nat /\ q \in Nat /\ p >= 1 /\ p <= N
        BY <3>2, <4>2
      <4>5. p - 1 < N /\ (h[i] # i => p - 1 < q - 1)
        BY <4>1, <4>3, <4>4
      <4>6. QED
        BY <3>1, <4>2, <4>5
    <3>5. QED
      BY <1>11, <3>4
  <2>3. QED
    BY <1>6, <2>1, <2>2 DEF Climbs
<1>13. Linked(id, h, x, y)
  BY <1>1, <1>3, <1>12, RootsLinked
<1>14. /\ TreeOf(h, x) = TX \cup TY
       /\ \A v \in 1..N : v \notin {x, y} => TreeOf(h, v) = TreeOf(id, v)
       /\ \A i \in 1..N : h[i] = i <=> id[i] = i /\ i # y
  BY <1>13 DEF Linked
<1>15. ASSUME NEW i \in 1..N
       PROVE  /\ h[i] = i => s[i] = Cardinality(TreeOf(h, i))
              /\ i > n => h[i] = i /\ s[i] = 1
  <2>1. CASE i = x
    BY <1>3, <1>8, <1>14, <2>1
  <2>2. CASE i # x
    <3>1. s[i] = sz[i]
      BY <1>5, <2>2
    <3>2. ASSUME h[i] = i PROVE s[i] = Cardinality(TreeOf(h, i))
      <4>1. id[i] = i /\ i # y
        BY <1>14, <3>2
      <4>2. TreeOf(h, i) = TreeOf(id, i)
        BY <1>14, <2>2, <4>1
      <4>3. QED
        BY <1>2, <3>1, <4>1, <4>2
    <3>3. ASSUME i > n PROVE h[i] = i /\ s[i] = 1
      <4>1. i # y
        BY <1>3, <3>3
      <4>2. QED
        BY <1>2, <1>14, <3>1, <3>3, <4>1
    <3>4. QED
      BY <3>2, <3>3
  <2>3. QED
    BY <2>1, <2>2
<1>16. blocks - 1 \in Nat /\ blocks - 1 = Cardinality(OwnRoots(h))
  <2>1. OwnRoots(h) = OwnRoots(id) \ {y} /\ y \in OwnRoots(id)
    BY <1>3, <1>6, <1>14 DEF OwnRoots
  <2>2. blocks = Cardinality(OwnRoots(id))
    BY DEF Sizes
  <2>3. Cardinality(OwnRoots(id) \ {y}) = Cardinality(OwnRoots(id)) - 1
    BY <1>1, <2>1, FS_RemoveElement
  <2>4. IsFiniteSet(OwnRoots(id) \ {y})
    BY <1>1, FS_RemoveElement
  <2>5. Cardinality(OwnRoots(id) \ {y}) \in Nat
    BY <2>4, FS_CardinalityType
  <2>6. QED
    BY <2>1, <2>2, <2>3, <2>5
<1>17. Sizes(n, h, s, blocks - 1)
  BY <1>1, <1>5, <1>6, <1>11, <1>12, <1>15, <1>16 DEF Sizes
<1>18. QED
  BY <1>13, <1>16, <1>17

LEMMA SizeTyped ==
  ASSUME NEW o, SizeInv(o)
  PROVE  /\ o.key_of \in Seq(Members) /\ Len(o.key_of) \in Nat
         /\ o = [key_of |-> o.key_of, parent |-> o.parent, sz |-> o.sz,
                 num_blocks |-> o.num_blocks]
         /\ o.parent \in Seq(Nat) /\ o.sz \in Seq(Nat) /\ o.num_blocks \in Nat
         /\ Len(o.parent) \in Nat /\ Len(o.key_of) <= Len(o.parent)
         /\ DOMAIN o.key_of = 1..Len(o.key_of) /\ DOMAIN o.key_of \subseteq 1..Len(o.parent)
         /\ Distinct(o.key_of) /\ Climbs(o.parent, Below(o.sz))
         /\ Sizes(Len(o.key_of), o.parent, o.sz, o.num_blocks)
         /\ Union!Partition(o) = Cells(o.key_of, RootsOf(o.parent))
<1>1. /\ o \in [key_of : Seq(Members), parent : Seq(Nat), sz : Seq(Nat), num_blocks : Nat]
      /\ Distinct(o.key_of) /\ Sizes(Len(o.key_of), o.parent, o.sz, o.num_blocks)
  BY DEF SizeInv
<1>2. /\ o.key_of \in Seq(Members) /\ o.parent \in Seq(Nat) /\ o.sz \in Seq(Nat)
      /\ o.num_blocks \in Nat
  BY <1>1
<1>3. o = [key_of |-> o.key_of, parent |-> o.parent, sz |-> o.sz, num_blocks |-> o.num_blocks]
  BY <1>1
<1>4. /\ Len(o.key_of) \in Nat /\ Len(o.parent) \in Nat /\ Len(o.key_of) <= Len(o.parent)
      /\ Climbs(o.parent, Below(o.sz))
  BY <1>1, SizesGrow
<1>5. DOMAIN o.key_of = 1..Len(o.key_of)
  BY <1>2
<1>6. DOMAIN o.key_of \subseteq 1..Len(o.parent)
  BY <1>4, <1>5
<1>7. Union!Partition(o) = Cells(o.key_of, RootsOf(o.parent))
  BY <1>6, PartitionIs
<1>8. QED
  BY <1>1, <1>2, <1>3, <1>4, <1>5, <1>6, <1>7

\* Nothing else is in the trees of the indices to n, and those beyond are alone.
LEMMA NamedRoots ==
  ASSUME NEW n, NEW id, NEW sz, NEW blocks, Sizes(n, id, sz, blocks)
  PROVE  /\ \A i \in 1..n : Union!RelFind(id, i) \in 1..n
         /\ \A i \in 1..Len(id) : i > n => Union!RelFind(id, i) = i
<1> DEFINE N == Len(id)
           F(i) == Union!RelFind(id, i)
<1>1. n \in Nat /\ N \in Nat /\ n <= N /\ Climbs(id, Below(sz))
  BY SizesGrow
<1>2. ASSUME NEW v \in 1..N, v > n
      PROVE  F(v) = v /\ \A l \in 1..N : F(l) = v => l = v
  <2>1. SizesAt(n, id, sz, v)
    BY SizesGrow
  <2>2. id[v] = v /\ Cardinality(TreeOf(id, v)) = 1
    BY <1>2, <2>1 DEF SizesAt
  <2>3. F(v) = v
    BY <1>1, <2>2, WayEnds
  <2>4. IsFiniteSet(TreeOf(id, v))
    BY <1>1, TreesFinite
  <2>5. \E z : TreeOf(id, v) = {z}
    BY <2>2, <2>4, FS_Singleton
  <2>6. \A l \in 1..N : l \in TreeOf(id, v) <=> F(l) = v
    BY DEF TreeOf
  <2>7. QED
    BY <2>3, <2>5, <2>6
<1>3. ASSUME NEW l \in 1..n PROVE F(l) \in 1..n
  <2>1. l \in 1..N
    BY <1>1
  <2>2. F(l) \in 1..N
    BY <1>1, <2>1, WayEnds
  <2> DEFINE v == F(l)
  <2> HIDE DEF v, F
  <2>3. SUFFICES ASSUME v > n PROVE FALSE
    BY <1>1, <2>2 DEF v
  <2>4. l = v
    BY <1>2, <2>1, <2>2, <2>3 DEF v
  <2>5. QED
    BY <1>1, <2>3, <2>4
<1>4. QED
  BY <1>2, <1>3

LEMMA SameCount ==
  ASSUME NEW S, IsFiniteSet(S), NEW g, \A x, y \in S : g[x] = g[y] => x = y
  PROVE  /\ IsFiniteSet({g[x] : x \in S})
         /\ Cardinality({g[x] : x \in S}) = Cardinality(S)
<1> DEFINE T == {g[x] : x \in S}
           h == [x \in S |-> g[x]]
<1>1. h \in Bijection(S, T)
  BY DEF Bijection, Injection, Surjection, IsInjective
<1>2. ExistsBijection(S, T)
  BY <1>1, Fun_ExistsBij
<1>3. QED
  BY <1>2, FS_Bijection

Keyed(o) == Union!ToSet(o.key_of)

LEMMA KeyedIs ==
  ASSUME NEW o, SizeInv(o)
  PROVE  /\ IsFiniteSet(Keyed(o)) /\ Cardinality(Keyed(o)) = Len(o.key_of)
         /\ Keyed(o) = {o.key_of[i] : i \in DOMAIN o.key_of}
         /\ UNION Union!Partition(o) = Keyed(o)
<1> DEFINE key == o.key_of
           D == DOMAIN o.key_of
           n == Len(o.key_of)
           R == RootsOf(o.parent)
<1>1. n \in Nat /\ D = 1..n /\ Distinct(key) /\ Union!Partition(o) = Cells(key, R)
  BY SizeTyped
<1>2. Keyed(o) = {key[i] : i \in D}
  BY DEF Keyed, Union!ToSet
<1>3. IsFiniteSet(1..n) /\ Cardinality(1..n) = n
  BY <1>1, Intervals
<1>4. \A i, j \in D : key[i] = key[j] => i = j
  BY <1>1 DEF Distinct
<1>5. IsFiniteSet({key[i] : i \in D}) /\ Cardinality({key[i] : i \in D}) = n
  <2> HIDE DEF key, D, n
  <2>1. QED
    BY <1>1, <1>3, <1>4, SameCount
<1> HIDE DEF key, R
<1>6. \A k : k \in UNION Cells(key, R) <=> k \in {key[i] : i \in D}
  <2>1. \A k : (\E S \in Cells(key, R) : k \in S) <=> \E i \in DOMAIN key : key[i] = k
    BY WithHas
  <2>2. QED
    BY <2>1 DEF key
<1>7. UNION Union!Partition(o) = Keyed(o)
  BY <1>1, <1>2, <1>6
<1>8. QED
  BY <1>2, <1>5, <1>7 DEF key

\* A call finds the item or has room for it.
Room(o, k) == Union!Has(o, k) \/ Len(o.key_of) < Len(o.parent)

LEMMA RoomIs ==
  ASSUME NEW o, SizeInv(o), NEW k
  PROVE  /\ Room(o, k) <=> Cardinality(Keyed(o) \cup {k}) <= Len(o.parent)
         /\ IsFiniteSet(Keyed(o) \cup {k})
<1> DEFINE n == Len(o.key_of)
           N == Len(o.parent)
           K == Keyed(o)
<1>1. IsFiniteSet(K) /\ Cardinality(K) = n /\ n \in Nat /\ N \in Nat /\ n <= N
  BY KeyedIs, SizeTyped
<1>2. Union!Has(o, k) <=> k \in K
  BY DEF Union!Has, Keyed
<1> HIDE DEF K, n, N
<1>3. IsFiniteSet(K \cup {k}) /\ Cardinality(K \cup {k}) = IF k \in K THEN n ELSE n + 1
  BY <1>1, FS_AddElement
<1>4. CASE k \in K
  BY <1>1, <1>2, <1>3, <1>4 DEF Room, K, N
<1>5. CASE k \notin K
  <2>1. n < N <=> n + 1 <= N
    BY <1>1
  <2>2. QED
    BY <1>2, <1>3, <1>5, <2>1 DEF Room, K, n, N
<1>6. QED
  BY <1>4, <1>5

\* What search_or_insert makes of o.
Inserted(o, k, g) ==
  /\ SizeInv(g) /\ g.parent = o.parent
  /\ Keyed(g) = IF Room(o, k) THEN Keyed(o) \cup {k} ELSE Keyed(o)
  /\ Union!Partition(g) =
       IF Room(o, k) THEN Union!With(Union!Partition(o), k) ELSE Union!Partition(o)

LEMMA InsertIs ==
  ASSUME NEW o, SizeInv(o), NEW k \in Members
  PROVE  Inserted(o, k, Union!search_or_insert(o, k))
<1> DEFINE key == o.key_of
           n == Len(key)
           N == Len(o.parent)
           R == RootsOf(o.parent)
           P == Union!Partition(o)
<1>1. /\ key \in Seq(Members) /\ n \in Nat /\ N \in Nat /\ n <= N /\ DOMAIN key = 1..n
      /\ Distinct(key) /\ Climbs(o.parent, Below(o.sz)) /\ P = Cells(key, R)
      /\ Sizes(n, o.parent, o.sz, o.num_blocks)
      /\ o = [key_of |-> key, parent |-> o.parent, sz |-> o.sz, num_blocks |-> o.num_blocks]
      /\ o.parent \in Seq(Nat) /\ o.sz \in Seq(Nat) /\ o.num_blocks \in Nat
  BY SizeTyped
<1>2. Union!Has(o, k) <=> k \in Keyed(o)
  BY DEF Union!Has, Keyed
<1>3. Union!Has(o, k) <=> \E i \in 1..n : key[i] = k
  BY <1>1, HasIs
<1>4. CASE Union!Has(o, k)
  <2>1. Union!search_or_insert(o, k) = o
    BY <1>4 DEF Union!search_or_insert
  <2>2. Union!With(P, k) = P
    <3>1. \E S \in Cells(key, R) : k \in S
      BY <1>1, <1>3, <1>4, WithHas
    <3>2. QED
      BY <1>1, <3>1 DEF Union!With
  <2>3. QED
    BY <1>2, <1>4, <2>1, <2>2 DEF Inserted, Room
<1>5. CASE ~Union!Has(o, k) /\ n = N
  <2>1. Union!search_or_insert(o, k) = o
    BY <1>5 DEF Union!search_or_insert
  <2>2. ~Room(o, k)
    BY <1>1, <1>5 DEF Room
  <2>3. QED
    BY <2>1, <2>2 DEF Inserted
<1>6. CASE ~Union!Has(o, k) /\ n # N
  <2> DEFINE more == Append(key, k)
             g == [o EXCEPT !.key_of = more]
  <2>1. Union!search_or_insert(o, k) = g
    BY <1>6 DEF Union!search_or_insert
  <2>2. Room(o, k) /\ n + 1 <= N /\ n + 1 \in 1..N /\ n < N
    BY <1>1, <1>6 DEF Room
  <2>3. /\ more \in Seq(Members) /\ Len(more) = n + 1 /\ DOMAIN more = 1..(n + 1)
        /\ (\A i \in 1..n : more[i] = key[i]) /\ more[n + 1] = k
    BY <1>1
  <2>4. /\ g.key_of = more /\ g.parent = o.parent /\ g.sz = o.sz
        /\ g.num_blocks = o.num_blocks
        /\ g = [key_of |-> more, parent |-> o.parent, sz |-> o.sz,
                num_blocks |-> o.num_blocks]
    <3>1. o \in [key_of : Seq(Members), parent : Seq(Nat), sz : Seq(Nat), num_blocks : Nat]
      BY DEF SizeInv
    <3> HIDE DEF more
    <3>2. QED
      BY <3>1
  <2> HIDE DEF g, more
  <2>5. g \in [key_of : Seq(Members), parent : Seq(Nat), sz : Seq(Nat), num_blocks : Nat]
    BY <1>1, <2>3, <2>4
  <2>6. \A i \in 1..(n + 1) : i \in 1..n \/ i = n + 1
    BY <1>1
  <2>7. \A i \in 1..n : key[i] # k
    BY <1>3, <1>6
  <2>8. Distinct(more)
    <3> SUFFICES ASSUME NEW i \in 1..(n + 1), NEW j \in 1..(n + 1), more[i] = more[j]
                 PROVE  i = j
      BY <2>3 DEF Distinct
    <3>1. \A x, y \in 1..n : key[x] = key[y] => x = y
      BY <1>1 DEF Distinct
    <3>2. QED
      BY <2>3, <2>6, <2>7, <3>1
  <2>9. Sizes(n + 1, o.parent, o.sz, o.num_blocks)
    <3>1. \A i \in Nat : i > n + 1 => i > n
      BY <1>1
    <3>2. QED
      BY <1>1, <2>2, <3>1 DEF Sizes
  <2>10. SizeInv(g)
    BY <2>3, <2>4, <2>5, <2>8, <2>9 DEF SizeInv
  <2>11. Keyed(g) = Keyed(o) \cup {k}
    <3>1. Keyed(g) = {more[i] : i \in 1..(n + 1)}
      BY <2>3, <2>4, <2>10, KeyedIs
    <3>2. Keyed(o) = {key[i] : i \in 1..n}
      BY <1>1, KeyedIs
    <3>3. 1..(n + 1) = (1..n) \cup {n + 1}
      BY <1>1
    <3> HIDE DEF n, key
    <3>4. QED
      BY <2>3, <3>1, <3>2, <3>3
  <2>12. Union!Partition(g) = Cells(more, R)
    BY <2>4, <2>10, SizeTyped
  <2>13. \A i \in 1..n : R[i] # R[n + 1]
    <3>1. \A i \in 1..n : i \in 1..N /\ n + 1 # i
      BY <1>1
    <3>2. \A i \in 1..n : Union!RelFind(o.parent, i) \in 1..n
      BY <1>1, NamedRoots
    <3>3. Union!RelFind(o.parent, n + 1) = n + 1
      <4>1. n + 1 > n
        BY <1>1
      <4>2. QED
        BY <1>1, <2>2, <4>1, NamedRoots
    <3>4. QED
      BY <2>2, <3>1, <3>2, <3>3 DEF RootsOf
  <2>14. Cells(more, R) = Cells(key, R) \cup {{k}}
    <3>1. Apart(key, k, R, R)
      BY <2>7, <2>13 DEF Apart
    <3>2. key \in Seq(Members)
      BY <1>1
    <3> HIDE DEF key, R
    <3>3. QED
      BY <3>1, <3>2, CellsAppend DEF more
  <2>15. Union!With(P, k) = Cells(key, R) \cup {{k}}
    <3>1. ~\E S \in Cells(key, R) : k \in S
      BY <1>1, <2>7, WithHas
    <3>2. QED
      BY <1>1, <3>1 DEF Union!With
  <2>16. QED
    BY <2>1, <2>2, <2>4, <2>10, <2>11, <2>12, <2>14, <2>15 DEF Inserted
<1>7. QED
  BY <1>4, <1>5, <1>6

\* What RelJoin makes of o.
LEMMA RelJoinIs ==
  ASSUME NEW o, SizeInv(o), NEW p \in DOMAIN o.key_of, NEW q \in DOMAIN o.key_of
  PROVE  /\ SizeInv(Union!RelJoin(o, p, q))
         /\ Union!Partition(Union!RelJoin(o, p, q)) =
              Union!Merged(Union!Partition(o), o.key_of[p], o.key_of[q])
<1> DEFINE key == o.key_of
           id == o.parent
           sz == o.sz
           n == Len(key)
           N == Len(id)
           R == RootsOf(id)
           i == Union!RelFind(id, p)
           j == Union!RelFind(id, q)
           y == IF sz[i] < sz[j] THEN i ELSE j
           x == IF y = i THEN j ELSE i
           u == Union!RelJoin(o, p, q)
<1>1. /\ key \in Seq(Members) /\ n \in Nat /\ N \in Nat /\ n <= N /\ DOMAIN key = 1..n
      /\ Distinct(key) /\ Climbs(id, Below(sz)) /\ Union!Partition(o) = Cells(key, R)
      /\ Sizes(n, id, sz, o.num_blocks)
  BY SizeTyped
<1>2. p \in 1..n /\ q \in 1..n /\ p \in 1..N /\ q \in 1..N
  BY <1>1
<1>3. R[p] = i /\ R[q] = j /\ i \in 1..N /\ j \in 1..N /\ id[i] = i /\ id[j] = j
  <2>1. R[p] = i /\ R[q] = j
    BY <1>2 DEF RootsOf
  <2>2. QED
    BY <1>1, <1>2, <2>1, WayEnds
<1>4. i \in 1..n /\ j \in 1..n
  BY <1>1, <1>2, NamedRoots
<1>5. ASSUME NEW Q, Joined(key, R, Q, p, q)
      PROVE  Cells(key, Q) = Union!Merged(Cells(key, R), key[p], key[q])
  <2>1. p \in DOMAIN key /\ q \in DOMAIN key /\ Distinct(key)
    BY <1>1
  <2> HIDE DEF key, R
  <2>2. QED
    BY <1>5, <2>1, CellsMerge
<1> HIDE DEF i, j
<1>6. CASE i = j
  <2>1. u = o
    BY <1>6 DEF Union!RelJoin, i, j
  <2>2. Cells(key, R) = Union!Merged(Cells(key, R), key[p], key[q])
    <3>1. R[p] = R[q]
      BY <1>3, <1>6
    <3> HIDE DEF key, R
    <3>2. Joined(key, R, R, p, q)
      BY <3>1 DEF Joined
    <3>3. QED
      BY <1>5, <3>2
  <2>3. QED
    BY <1>1, <2>1, <2>2
<1>7. CASE i # j
  <2> DEFINE h == [id EXCEPT ![y] = x]
             s == [sz EXCEPT ![x] = sz[x] + sz[y]]
             Q == RootsOf(u.parent)
  <2>1. u = [o EXCEPT !.parent = h, !.sz = s, !.num_blocks = @ - 1]
    <3>1. u = [o EXCEPT !.parent[y] = x, !.sz[x] = @ + sz[y], !.num_blocks = @ - 1]
      BY <1>7, Zenon DEF Union!RelJoin, i, j
    <3>2. QED
      BY <3>1
  <2>2. SizesAt(n, id, sz, i) /\ SizesAt(n, id, sz, j)
    BY <1>1, <1>3, SizesGrow
  <2>3. sz[i] \in Nat /\ sz[j] \in Nat
    BY <2>2 DEF SizesAt
  <2>4. /\ x \in 1..n /\ y \in 1..n /\ x # y /\ id[x] = x /\ id[y] = y /\ sz[y] <= sz[x]
        /\ \A z : z \in {R[p], R[q]} <=> z = x \/ z = y
    BY <1>3, <1>4, <1>7, <2>3
  <2> HIDE DEF x, y, h, s, u
  <2>5. Hangs(id, h, x, y)
    BY DEF Hangs, h
  <2>6. /\ Linked(id, h, x, y) /\ Sizes(n, h, s, o.num_blocks - 1)
        /\ o.num_blocks - 1 \in Nat
    <3>1. Adds(sz, s, x, y)
      BY DEF Adds, s
    <3> HIDE DEF n, id, sz
    <3>2. QED
      BY <1>1, <2>4, <2>5, <3>1, SizesHung
  <2>7. /\ u \in [key_of : Seq(Members), parent : Seq(Nat), sz : Seq(Nat), num_blocks : Nat]
        /\ u.key_of = key /\ u.parent = h /\ u.sz = s /\ u.num_blocks = o.num_blocks - 1
    <3>1. o \in [key_of : Seq(Members), parent : Seq(Nat), sz : Seq(Nat), num_blocks : Nat]
      BY DEF SizeInv
    <3>2. h \in Seq(Nat) /\ s \in Seq(Nat)
      BY <2>6, SizesGrow
    <3>3. QED
      BY <2>1, <2>6, <3>1, <3>2
  <2>8. SizeInv(u)
    BY <1>1, <2>6, <2>7 DEF SizeInv
  <2>9. Union!Partition(u) = Cells(key, Q)
    BY <2>7, <2>8, SizeTyped
  <2>10. \A l \in 1..n : Q[l] = IF R[l] = y THEN x ELSE R[l]
    <3>1. /\ Len(h) = N
          /\ \A l \in 1..N : Union!RelFind(h, l) =
                               IF Union!RelFind(id, l) = y THEN x ELSE Union!RelFind(id, l)
      BY <2>6 DEF Linked
    <3>2. \A l \in 1..n : l \in 1..N
      BY <1>1
    <3>3. QED
      BY <2>7, <3>1, <3>2 DEF RootsOf
  <2>11. Joined(key, R, Q, p, q)
    <3> HIDE DEF key, R, n, N, Q
    <3>1. ASSUME NEW l \in 1..n, NEW k \in 1..n
          PROVE  Q[l] = Q[k] <=> \/ R[l] = R[k]
                                 \/ R[l] \in {R[p], R[q]} /\ R[k] \in {R[p], R[q]}
      <4>1. Q[l] = (IF R[l] = y THEN x ELSE R[l]) /\ Q[k] = IF R[k] = y THEN x ELSE R[k]
        BY <2>10
      <4>2. QED
        BY <2>4, <4>1
    <3>2. QED
      BY <1>1, <3>1 DEF Joined
  <2>12. QED
    BY <1>1, <1>5, <2>8, <2>9, <2>11 DEF u
<1>8. QED
  BY <1>6, <1>7

\* What Named makes of o, where it throws and where it does not.
NamedAs(o, a, b, g) ==
  LET P == Union!Partition(o)
      named == Union!With(Union!With(P, a), b)
  IN  /\ SizeInv(g)
      /\ IF Cardinality(UNION named) > Len(o.parent)
         THEN ~(Union!Has(g, a) /\ Union!Has(g, b))
              /\ Union!Partition(g) \in {P, Union!With(P, a), Union!With(P, b)}
         ELSE Union!Has(g, a) /\ Union!Has(g, b) /\ Union!Partition(g) = named

LEMMA WithIs ==
  ASSUME NEW P, NEW k
  PROVE  UNION Union!With(P, k) = (UNION P) \cup {k}
<1>1. CASE \E S \in P : k \in S
  <2>1. Union!With(P, k) = P
    BY <1>1 DEF Union!With
  <2>2. QED
    BY <1>1, <2>1
<1>2. CASE ~\E S \in P : k \in S
  <2>1. Union!With(P, k) = P \cup {{k}}
    BY <1>2 DEF Union!With
  <2>2. QED
    BY <2>1
<1>3. QED
  BY <1>1, <1>2

LEMMA NamedIs ==
  ASSUME NEW o, SizeInv(o), NEW a \in Members, NEW b \in Members
  PROVE  NamedAs(o, a, b, Union!Named(o, a, b))
<1> DEFINE P == Union!Partition(o)
           N == Len(o.parent)
           K == Keyed(o)
           g == Union!search_or_insert(o, a)
           h == Union!search_or_insert(g, b)
           named == Union!With(Union!With(P, a), b)
<1>1. /\ SizeInv(g) /\ g.parent = o.parent
      /\ Keyed(g) = IF Room(o, a) THEN K \cup {a} ELSE K
      /\ Union!Partition(g) = IF Room(o, a) THEN Union!With(P, a) ELSE P
  <2>1. Inserted(o, a, g)
    BY InsertIs
  <2>2. QED
    BY <2>1 DEF Inserted
<1>2. /\ SizeInv(h) /\ h.parent = g.parent
      /\ Keyed(h) = IF Room(g, b) THEN Keyed(g) \cup {b} ELSE Keyed(g)
      /\ Union!Partition(h) = IF Room(g, b) THEN Union!With(Union!Partition(g), b)
                              ELSE Union!Partition(g)
  <2>1. Inserted(g, b, h)
    BY <1>1, InsertIs
  <2>2. QED
    BY <2>1 DEF Inserted
<1>3. h = Union!Named(o, a, b)
  BY DEF Union!Named
<1>4. Cardinality(UNION named) = Cardinality((K \cup {a}) \cup {b})
  <2>1. UNION P = K
    BY KeyedIs
  <2>2. UNION named = (K \cup {a}) \cup {b}
    BY <2>1, WithIs
  <2> HIDE DEF named
  <2>3. QED
    BY <2>2
<1>5. /\ Room(o, a) <=> Cardinality(K \cup {a}) <= N
      /\ IsFiniteSet(K \cup {a})
  BY RoomIs
<1>6. Room(g, b) <=> Cardinality(Keyed(g) \cup {b}) <= N
  BY <1>1, RoomIs
<1>7. \A k : Union!Has(h, k) <=> k \in Keyed(h)
  BY DEF Union!Has, Keyed
<1>8. /\ N \in Nat /\ IsFiniteSet((K \cup {a}) \cup {b})
      /\ Cardinality(K \cup {a}) \in Nat
      /\ Cardinality((K \cup {a}) \cup {b}) \in Nat
      /\ Cardinality(K \cup {a}) <= Cardinality((K \cup {a}) \cup {b})
  <2>1. IsFiniteSet((K \cup {a}) \cup {b})
    BY <1>5, FS_AddElement
  <2>2. K \cup {a} \subseteq (K \cup {a}) \cup {b}
    OBVIOUS
  <2> HIDE DEF K
  <2>3. Cardinality(K \cup {a}) <= Cardinality((K \cup {a}) \cup {b})
    BY <2>1, <2>2, FS_Subset
  <2>4. QED
    BY <1>5, <2>1, <2>3, FS_CardinalityType, SizeTyped
<1>9. IsFiniteSet(Keyed(h)) /\ Cardinality(Keyed(h)) <= N /\ Cardinality(Keyed(h)) \in Nat
  <2>1. /\ IsFiniteSet(Keyed(h)) /\ Cardinality(Keyed(h)) = Len(h.key_of)
        /\ Len(h.key_of) \in Nat /\ Len(h.key_of) <= Len(h.parent)
    BY <1>2, KeyedIs, SizeTyped
  <2>2. QED
    BY <1>1, <1>2, <2>1
<1> HIDE DEF g, h, K, N, P, named
<1>10. CASE Cardinality(UNION named) > N
  <2>1. ~(Union!Has(h, a) /\ Union!Has(h, b))
    <3> SUFFICES ASSUME a \in Keyed(h), b \in Keyed(h) PROVE FALSE
      BY <1>7
    <3>1. K \subseteq Keyed(h)
      BY <1>1, <1>2
    <3>2. (K \cup {a}) \cup {b} \subseteq Keyed(h)
      BY <3>1
    <3>3. Cardinality((K \cup {a}) \cup {b}) <= Cardinality(Keyed(h))
      BY <1>9, <3>2, FS_Subset
    <3>4. QED
      BY <1>4, <1>8, <1>9, <1>10, <3>3
  <2>2. ~(Room(o, a) /\ Room(g, b))
    BY <1>1, <1>2, <1>7, <2>1
  <2>3. Union!Partition(h) \in {P, Union!With(P, a), Union!With(P, b)}
    BY <1>1, <1>2, <2>2
  <2>4. QED
    BY <1>2, <1>3, <1>10, <2>1, <2>3 DEF NamedAs, P, N, named
<1>11. CASE ~(Cardinality(UNION named) > N)
  <2>1. Cardinality((K \cup {a}) \cup {b}) <= N
    BY <1>4, <1>8, <1>11
  <2>2. Room(o, a)
    BY <1>5, <1>8, <2>1
  <2>3. Keyed(g) = K \cup {a} /\ Union!Partition(g) = Union!With(P, a)
    BY <1>1, <2>2
  <2>4. Room(g, b)
    BY <1>6, <2>1, <2>3
  <2>5. Keyed(h) = (K \cup {a}) \cup {b} /\ Union!Partition(h) = named
    BY <1>2, <2>3, <2>4 DEF named
  <2>6. Union!Has(h, a) /\ Union!Has(h, b)
    BY <1>7, <2>5
  <2>7. QED
    BY <1>2, <1>3, <1>11, <2>5, <2>6 DEF NamedAs, P, N, named
<1>12. QED
  BY <1>10, <1>11

-----------------------------------------------------------------------------
(* What the invariants say of depths, trees and answers. *)

LEMMA CountIs == \A S : Union!Cardinality(S) = Cardinality(S)
BY DEF Union!Cardinality, Cardinality

LEMMA DepthBelow ==
  ASSUME NEW o, NEW m, Climbs(o.parent, m), NEW i \in 1..Len(o.parent)
  PROVE  /\ Union!Depth(o, i) \in Nat
         /\ Union!Depth(o, i) <= m[Union!RelFind(o.parent, i)]
<1> DEFINE id == o.parent
           N == Len(id)
           W == Union!Way(id, i)
           d == Union!Depth(o, i)
           S == {n \in 0..d : n <= m[W[n]]}
<1>1. /\ N \in Nat /\ i \in 1..N
      /\ \A x \in 1..N : m[x] \in Nat /\ (id[x] # x => m[x] < m[id[x]])
  BY Climbing
<1>2. W \in [0..N -> 1..N] /\ W[0] = i /\ \A n \in 1..N : W[n] = id[W[n - 1]]
  <2>1. Climbs(id, m) /\ i \in 1..Len(id)
    OBVIOUS
  <2> HIDE DEF id
  <2>2. QED
    BY <2>1, WayIs
<1>3. d \in 0..N /\ W[d] = Union!RelFind(id, i) /\ \A n \in 0..(d - 1) : id[W[n]] # W[n]
  BY DepthIs
<1> HIDE DEF d, W, N, id
<1>4. d \in Nat /\ d <= N
  BY <1>1, <1>3
<1>5. 0 \in S
  <2>1. m[W[0]] \in Nat /\ 0 \in 0..d
    BY <1>1, <1>2, <1>4
  <2>2. QED
    BY <2>1
<1>6. ASSUME NEW n \in 0..(d - 1), n \in S PROVE n + 1 \in S
  <2>1. /\ n \in Nat /\ n \in 0..N /\ n + 1 \in 1..N /\ (n + 1) - 1 = n /\ n + 1 \in 0..d
        /\ n <= m[W[n]]
    BY <1>1, <1>4, <1>6
  <2>2. W[n] \in 1..N /\ W[n + 1] = id[W[n]] /\ id[W[n]] # W[n] /\ W[n + 1] \in 1..N
    <3>1. n + 1 \in 0..N
      BY <1>1, <2>1
    <3>2. QED
      BY <1>2, <1>3, <2>1, <3>1
  <2>3. m[W[n]] < m[W[n + 1]] /\ m[W[n]] \in Nat /\ m[W[n + 1]] \in Nat
    BY <1>1, <2>2
  <2>4. n + 1 <= m[W[n + 1]]
    BY <2>1, <2>3
  <2>5. QED
    BY <2>1, <2>4
<1>7. d \in S
  <2>1. d \in 0..d
    BY <1>4
  <2> HIDE DEF S
  <2>2. QED
    BY <1>4, <1>5, <1>6, <2>1, Upwards
<1>8. QED
  BY <1>3, <1>4, <1>7 DEF d, id

LEMMA DepthDoubles ==
  ASSUME NEW o, NEW n, NEW sz, NEW blocks, Sizes(n, o.parent, sz, blocks),
         NEW i \in 1..Len(o.parent)
  PROVE  Union!TwoTo[Union!Depth(o, i)] <= sz[Union!RelFind(o.parent, i)]
<1> DEFINE id == o.parent
           N == Len(id)
           W == Union!Way(id, i)
           d == Union!Depth(o, i)
           B == Union!TwoTo
           S == {k \in 0..d : B[k] <= sz[W[k]]}
<1>1. N \in Nat /\ i \in 1..N /\ Climbs(id, Below(sz))
  BY SizesGrow
<1>2. \A x \in 1..N : sz[x] \in Nat /\ sz[x] >= 1 /\ (id[x] # x => 2 * sz[x] <= sz[id[x]])
  <2>1. \A x \in 1..N : SizesAt(n, id, sz, x)
    BY SizesGrow
  <2>2. QED
    BY <2>1 DEF SizesAt
<1>3. W \in [0..N -> 1..N] /\ W[0] = i /\ \A k \in 1..N : W[k] = id[W[k - 1]]
  <2> HIDE DEF id
  <2>1. QED
    BY <1>1, WayIs
<1>4. d \in 0..N /\ W[d] = Union!RelFind(id, i) /\ \A k \in 0..(d - 1) : id[W[k]] # W[k]
  BY <1>1, DepthIs
<1>5. B[0] = 1 /\ \A k \in Nat : B[k] \in Nat /\ B[k + 1] = 2 * B[k]
  BY TwoToIs
<1> HIDE DEF d, W, N, id, B
<1>6. d \in Nat /\ d <= N
  BY <1>1, <1>4
<1>7. 0 \in S
  <2>1. sz[i] \in Nat /\ sz[i] >= 1
    BY <1>1, <1>2
  <2>2. B[0] <= sz[W[0]]
    BY <1>3, <1>5, <2>1
  <2>3. 0 \in 0..d
    BY <1>6
  <2>4. QED
    BY <2>2, <2>3
<1>8. ASSUME NEW k \in 0..(d - 1), k \in S PROVE k + 1 \in S
  <2>1. /\ k \in Nat /\ k \in 0..N /\ k + 1 \in 1..N /\ (k + 1) - 1 = k /\ k + 1 \in 0..d
        /\ k + 1 \in 0..N /\ B[k] <= sz[W[k]]
    BY <1>1, <1>6, <1>8
  <2>2. W[k] \in 1..N /\ W[k + 1] = id[W[k]] /\ id[W[k]] # W[k] /\ W[k + 1] \in 1..N
    BY <1>3, <1>4, <2>1
  <2>3. 2 * sz[W[k]] <= sz[W[k + 1]] /\ sz[W[k]] \in Nat /\ sz[W[k + 1]] \in Nat
    BY <1>2, <2>2
  <2>4. B[k] \in Nat /\ B[k + 1] = 2 * B[k]
    BY <1>5, <2>1
  <2>5. B[k + 1] <= sz[W[k + 1]]
    BY <2>1, <2>3, <2>4
  <2>6. QED
    BY <2>1, <2>5
<1>9. d \in S
  <2>1. d \in 0..d
    BY <1>6
  <2> HIDE DEF S
  <2>2. QED
    BY <1>6, <1>7, <1>8, <2>1, Upwards
<1>10. QED
  BY <1>4, <1>9 DEF d, id, B

\* A tree, by its root.
Tree(o, v) == {i \in DOMAIN o.key_of : Union!RelFind(o.parent, i) = v}

LEMMA TreesAre ==
  ASSUME NEW o
  PROVE  /\ Union!Trees(o) =
              {Tree(o, v) : v \in {Union!RelFind(o.parent, i) : i \in DOMAIN o.key_of}}
         /\ \A t \in Union!Trees(o) :
              /\ t # {} /\ t \subseteq DOMAIN o.key_of
              /\ \A i \in t : t = Tree(o, Union!RelFind(o.parent, i))
<1> DEFINE F(i) == Union!RelFind(o.parent, i)
           T == Union!Trees(o)
<1>1. T = {Tree(o, v) : v \in {F(i) : i \in DOMAIN o.key_of}}
  BY DEF Union!Trees, Tree
<1> HIDE DEF T
<1>2. ASSUME NEW t \in T
      PROVE  t # {} /\ t \subseteq DOMAIN o.key_of /\ \A i \in t : t = Tree(o, F(i))
  <2>1. PICK l \in DOMAIN o.key_of : t = Tree(o, F(l))
    BY <1>1
  <2>2. l \in t
    BY <2>1 DEF Tree
  <2>3. t \subseteq DOMAIN o.key_of /\ \A i \in t : F(i) = F(l)
    BY <2>1 DEF Tree
  <2>4. QED
    BY <2>1, <2>2, <2>3
<1>3. QED
  BY <1>1, <1>2 DEF T

\* Two members are together where their roots are the same.
LEMMA AnswerIs ==
  ASSUME NEW o, Distinct(o.key_of), DOMAIN o.key_of \subseteq 1..Len(o.parent),
         Union!Partition(o) = Cells(o.key_of, RootsOf(o.parent)),
         NEW a, NEW b, Union!Has(o, a), Union!Has(o, b)
  PROVE  Union!Together(o, a, b) <=>
           Union!RelFind(o.parent, Union!IndexOf(o, a)) =
             Union!RelFind(o.parent, Union!IndexOf(o, b))
<1> DEFINE i == Union!IndexOf(o, a)
           j == Union!IndexOf(o, b)
           key == o.key_of
           R == RootsOf(o.parent)
<1>1. i \in DOMAIN key /\ j \in DOMAIN key /\ key[i] = a /\ key[j] = b
  BY HasIs
<1>2. R[i] = Union!RelFind(o.parent, i) /\ R[j] = Union!RelFind(o.parent, j)
  BY <1>1 DEF RootsOf
<1>3. Union!Together(o, a, b) <=> \E S \in Cells(key, R) : {a, b} \subseteq S
  BY DEF Union!Together
<1> HIDE DEF i, j, key, R
<1>4. Distinct(key)
  BY DEF key
<1>5. (\E S \in Cells(key, R) : {key[i], key[j]} \subseteq S) <=> R[i] = R[j]
  BY <1>1, <1>4, TogetherIs
<1>6. QED
  BY <1>1, <1>2, <1>3, <1>5 DEF i, j

LEMMA RankAnswers ==
  ASSUME NEW o, RankInv(o), NEW a, NEW b, Union!Has(o, a), Union!Has(o, b)
  PROVE  /\ Union!Same(o, a, b) <=> Union!Together(o, a, b)
         /\ Union!Together(o, a, Union!Found(o, a))
         /\ Union!Same(o, a, b) <=> Union!Found(o, a) = Union!Found(o, b)
<1> DEFINE i == Union!IndexOf(o, a)
           j == Union!IndexOf(o, b)
           key == o.key_of
           F(l) == Union!RelFind(o.parent, l)
           N == Len(o.parent)
<1>1. /\ DOMAIN key = 1..N /\ Distinct(key) /\ Climbs(o.parent, o.rnk)
      /\ Union!Partition(o) = Cells(key, RootsOf(o.parent))
  BY RankTyped
<1>2. i \in 1..N /\ j \in 1..N /\ key[i] = a /\ key[j] = b
  BY <1>1, HasIs
<1>3. /\ F(i) \in 1..N /\ F(j) \in 1..N
      /\ o.parent[F(i)] = F(i)
  BY <1>1, <1>2, WayEnds
<1>4. F(F(i)) = F(i)
  BY <1>1, <1>3, WayEnds
<1>5. Union!Roots(o, a, b).a = F(i) /\ Union!Roots(o, a, b).b = F(j)
  BY RootsAre
<1>6. Union!Found(o, a) = key[F(i)] /\ Union!Found(o, b) = key[F(j)]
  BY FindIs
<1>7. Union!Same(o, a, b) <=> F(i) = F(j)
  BY <1>5 DEF Union!Same
<1>8. Union!Together(o, a, b) <=> F(i) = F(j)
  BY <1>1, AnswerIs
<1>9. key[F(i)] = key[F(j)] <=> F(i) = F(j)
  BY <1>1, <1>3 DEF Distinct
<1>10. Union!Together(o, a, key[F(i)])
  <2>1. Union!Has(o, key[F(i)])
    BY <1>1, <1>3, HasIs
  <2>2. Union!IndexOf(o, key[F(i)]) = F(i)
    BY <1>1, <1>3, IndexIs
  <2>3. QED
    BY <1>1, <1>4, <2>1, <2>2, AnswerIs
<1>11. QED
  BY <1>6, <1>7, <1>8, <1>9, <1>10

LEMMA RankedTree ==
  ASSUME NEW o, RankInv(o), NEW t \in Union!Trees(o)
  PROVE  LET root == Union!RelFind(o.parent, CHOOSE i \in t : TRUE)
         IN  /\ \A i \in t : Union!Depth(o, i) <= o.rnk[root]
             /\ Union!TwoTo[o.rnk[root]] <= Union!Cardinality(t)
<1> DEFINE l == CHOOSE i \in t : TRUE
           root == Union!RelFind(o.parent, l)
           N == Len(o.parent)
<1>1. DOMAIN o.key_of = 1..N /\ Climbs(o.parent, o.rnk)
  BY RankTyped
<1>2. t # {} /\ t \subseteq 1..N /\ \A i \in t : t = Tree(o, Union!RelFind(o.parent, i))
  BY <1>1, TreesAre
<1>3. l \in t /\ l \in 1..N /\ t = Tree(o, root)
  BY <1>2
<1> HIDE DEF l
<1>4. t = TreeOf(o.parent, root) /\ \A i \in t : Union!RelFind(o.parent, i) = root
  BY <1>1, <1>3 DEF Tree, TreeOf
<1>5. root \in 1..N /\ o.parent[root] = root
  BY <1>1, <1>3, WayEnds
<1>6. Union!TwoTo[o.rnk[root]] <= Cardinality(TreeOf(o.parent, root))
  BY <1>5 DEF RankInv
<1>7. \A i \in t : Union!Depth(o, i) <= o.rnk[root]
  BY <1>1, <1>2, <1>4, DepthBelow
<1>8. QED
  BY <1>4, <1>6, <1>7, CountIs DEF l

LEMMA RankedHolds ==
  ASSUME RankInv(forest)
  PROVE  Union!Ranked
<1> DEFINE P == Union!Partition(forest)
<1>1. \A t \in Union!Trees(forest) :
        LET root == Union!RelFind(forest.parent, CHOOSE i \in t : TRUE)
        IN  /\ \A i \in t : Union!Depth(forest, i) <= forest.rnk[root]
            /\ Union!TwoTo[forest.rnk[root]] <= Union!Cardinality(t)
  BY RankedTree
<1>2. \A k \in Members : Union!Partition(Union!make_set(forest, k)) = Union!With(P, k)
  BY MakeSetIs
<1>3. ASSUME NEW a \in Union!ToSet(forest.key_of), NEW b \in Union!ToSet(forest.key_of)
      PROVE  /\ Union!Same(forest, a, b) = Union!Together(forest, a, b)
             /\ Union!Together(forest, a, Union!Found(forest, a))
             /\ Union!Same(forest, a, b) = (Union!Found(forest, a) = Union!Found(forest, b))
             /\ Union!Partition(Union!find(forest, a)) = P
             /\ Union!Partition(Union!same_set(forest, a, b)) = P
             /\ Union!Partition(Union!union_sets(forest, a, b)) = Union!Merged(P, a, b)
  <2>1. Union!Has(forest, a) /\ Union!Has(forest, b)
    BY DEF Union!Has
  <2>2. /\ Union!Same(forest, a, b) <=> Union!Together(forest, a, b)
        /\ Union!Together(forest, a, Union!Found(forest, a))
        /\ Union!Same(forest, a, b) <=> Union!Found(forest, a) = Union!Found(forest, b)
    BY <2>1, RankAnswers
  <2>3. /\ Union!Same(forest, a, b) \in BOOLEAN /\ Union!Together(forest, a, b) \in BOOLEAN
    BY DEF Union!Same, Union!Together
  <2>4. /\ Union!Partition(Union!find(forest, a)) = P
        /\ Union!Partition(Union!same_set(forest, a, b)) = P
        /\ Union!Partition(Union!union_sets(forest, a, b)) = Union!Merged(P, a, b)
    BY <2>1, FindIs, SameSetIs, UnionSetsIs
  <2>5. QED
    BY <2>2, <2>3, <2>4
<1>4. QED
  BY <1>1, <1>2, <1>3 DEF Union!Ranked

LEMMA SizedTree ==
  ASSUME NEW o, SizeInv(o), NEW t \in Union!Trees(o), NEW i \in t
  PROVE  /\ o.sz[Union!RelFind(o.parent, i)] = Union!Cardinality(t)
         /\ Union!TwoTo[Union!Depth(o, i)] <= Union!Cardinality(t)
<1> DEFINE n == Len(o.key_of)
           N == Len(o.parent)
           v == Union!RelFind(o.parent, i)
<1>1. /\ n \in Nat /\ N \in Nat /\ n <= N /\ DOMAIN o.key_of = 1..n
      /\ Climbs(o.parent, Below(o.sz)) /\ Sizes(n, o.parent, o.sz, o.num_blocks)
  BY SizeTyped
<1>2. t \subseteq 1..n /\ t = Tree(o, v)
  BY <1>1, TreesAre
<1>3. i \in 1..n /\ i \in 1..N /\ v \in 1..n
  BY <1>1, <1>2, NamedRoots
<1>4. v \in 1..N /\ o.parent[v] = v
  BY <1>1, <1>3, WayEnds
<1>5. o.sz[v] = Cardinality(TreeOf(o.parent, v))
  <2>1. SizesAt(n, o.parent, o.sz, v)
    BY <1>1, <1>4, SizesGrow
  <2>2. QED
    BY <1>4, <2>1 DEF SizesAt
<1>6. TreeOf(o.parent, v) = Tree(o, v)
  <2>1. \A l \in 1..N : Union!RelFind(o.parent, l) = v => l \in 1..n
    <3> SUFFICES ASSUME NEW l \in 1..N, Union!RelFind(o.parent, l) = v, l > n
                 PROVE  l \in 1..n
      BY <1>1
    <3>1. Union!RelFind(o.parent, l) = l
      BY <1>1, NamedRoots
    <3>2. QED
      BY <1>3, <3>1
  <2>2. \A l \in 1..n : l \in 1..N
    BY <1>1
  <2> HIDE DEF v
  <2>3. QED
    BY <1>1, <2>1, <2>2 DEF TreeOf, Tree
<1>7. Union!TwoTo[Union!Depth(o, i)] <= o.sz[v]
  BY <1>1, <1>3, DepthDoubles
<1>8. QED
  BY <1>2, <1>5, <1>6, <1>7, CountIs

\* A block for each tree, and one for each index that nobody has yet.
LEMMA BlocksAre ==
  ASSUME NEW o, SizeInv(o)
  PROVE  o.num_blocks =
           Union!Cardinality(Union!Trees(o)) + (Len(o.parent) - Len(o.key_of))
<1> DEFINE n == Len(o.key_of)
           N == Len(o.parent)
           F(i) == Union!RelFind(o.parent, i)
           M == {v \in 1..n : o.parent[v] = v}
           T == Union!Trees(o)
           g == [v \in M |-> Tree(o, v)]
<1>1. /\ n \in Nat /\ N \in Nat /\ n <= N /\ DOMAIN o.key_of = 1..n
      /\ Climbs(o.parent, Below(o.sz)) /\ Sizes(n, o.parent, o.sz, o.num_blocks)
  BY SizeTyped
<1>2. \A i \in 1..n : i \in 1..N
  BY <1>1
<1>3. \A i \in 1..n : F(i) \in M
  BY <1>1, <1>2, NamedRoots, WayEnds
<1>4. \A v \in M : v \in 1..n /\ F(v) = v
  BY <1>1, <1>2, WayEnds
<1> HIDE DEF F
<1>5. T = {Tree(o, v) : v \in M}
  <2>1. {F(i) : i \in 1..n} = M
    BY <1>3, <1>4
  <2>2. T = {Tree(o, v) : v \in {F(i) : i \in 1..n}}
    BY <1>1, TreesAre DEF F
  <2> HIDE DEF M, T
  <2>3. QED
    BY <2>1, <2>2
<1>6. T = {g[v] : v \in M}
  <2> HIDE DEF T, M
  <2>1. QED
    BY <1>5
<1>7. \A x, y \in M : g[x] = g[y] => x = y
  <2> SUFFICES ASSUME NEW x \in M, NEW y \in M, Tree(o, x) = Tree(o, y) PROVE x = y
    OBVIOUS
  <2>1. x \in Tree(o, x)
    BY <1>1, <1>4 DEF Tree, F
  <2>2. x \in Tree(o, y)
    BY <2>1
  <2>3. F(x) = y
    BY <2>2 DEF Tree, F
  <2>4. QED
    BY <1>4, <2>3
<1>8. IsFiniteSet(M) /\ M \subseteq 1..n
  <2>1. IsFiniteSet(1..n)
    <3> HIDE DEF n
    <3>1. QED
      BY <1>1, Intervals
  <2>2. QED
    BY <2>1, FS_Subset
<1>9. Cardinality(T) = Cardinality(M)
  <2> HIDE DEF T, M, g
  <2>1. QED
    BY <1>6, <1>7, <1>8, SameCount
<1>10. OwnRoots(o.parent) = M \cup ((n + 1)..N) /\ M \cap ((n + 1)..N) = {}
  <2>1. \A i \in 1..N : i > n => o.parent[i] = i
    <3>1. \A i \in 1..N : SizesAt(n, o.parent, o.sz, i)
      BY <1>1, SizesGrow
    <3>2. QED
      BY <3>1 DEF SizesAt
  <2>2. \A i : i \in 1..N <=> i \in 1..n \/ i \in (n + 1)..N
    BY <1>1
  <2>3. \A i \in (n + 1)..N : i > n /\ i \notin 1..n
    BY <1>1
  <2>4. QED
    BY <2>1, <2>2, <2>3 DEF OwnRoots
<1>11. IsFiniteSet((n + 1)..N) /\ Cardinality((n + 1)..N) = N - n
  <2> HIDE DEF n, N
  <2>1. QED
    BY <1>1, Intervals
<1>12. Cardinality(OwnRoots(o.parent)) = Cardinality(M) + (N - n)
  <2> DEFINE A == (n + 1)..N
  <2>1. IsFiniteSet(A) /\ Cardinality(A) = N - n /\ OwnRoots(o.parent) = M \cup A /\ M \cap A = {}
    BY <1>10, <1>11
  <2> HIDE DEF A, M
  <2>2. Cardinality(M \cup A) = Cardinality(M) + Cardinality(A) - Cardinality(M \cap A)
    BY <1>8, <2>1, FS_Union
  <2>3. Cardinality(M \cap A) = 0
    BY <2>1, FS_EmptySet
  <2>4. Cardinality(M) \in Nat
    BY <1>8, FS_CardinalityType
  <2>5. QED
    BY <1>1, <2>1, <2>2, <2>3, <2>4
<1>13. o.num_blocks = Cardinality(OwnRoots(o.parent))
  BY <1>1 DEF Sizes
<1>14. QED
  BY <1>9, <1>12, <1>13, CountIs

LEMMA SizedCalls ==
  ASSUME NEW o, SizeInv(o), NEW a \in Members, NEW b \in Members
  PROVE  LET P == Union!Partition(o)
             named == Union!With(Union!With(P, a), b)
             thrown == Union!Cardinality(UNION named) > Len(o.parent)
         IN  /\ {a, b} \subseteq Union!ToSet(o.key_of) =>
                  Union!are_connected(o, a, b) = Union!Together(o, a, b)
             /\ ~thrown => /\ Union!Partition(Union!Named(o, a, b)) = named
                           /\ Union!Partition(Union!join(o, a, b)) = Union!Merged(named, a, b)
             /\ thrown => Union!Partition(Union!join(o, a, b)) \in
                            {P, Union!With(P, a), Union!With(P, b)}
<1> DEFINE P == Union!Partition(o)
           named == Union!With(Union!With(P, a), b)
           thrown == Cardinality(UNION named) > Len(o.parent)
           g == Union!Named(o, a, b)
           both == Union!Has(g, a) /\ Union!Has(g, b)
           u == Union!join(o, a, b)
<1>1. /\ SizeInv(g)
      /\ thrown => ~both /\ Union!Partition(g) \in {P, Union!With(P, a), Union!With(P, b)}
      /\ ~thrown => both /\ Union!Partition(g) = named
  BY NamedIs DEF NamedAs
<1>2. u = IF both THEN Union!RelJoin(g, Union!IndexOf(g, a), Union!IndexOf(g, b)) ELSE g
  BY DEF Union!join
<1> HIDE DEF g, u
<1>3. ASSUME {a, b} \subseteq Union!ToSet(o.key_of)
      PROVE  Union!are_connected(o, a, b) = Union!Together(o, a, b)
  <2>1. Union!Has(o, a) /\ Union!Has(o, b)
    BY <1>3 DEF Union!Has
  <2>2. Union!Together(o, a, b) <=>
          Union!RelFind(o.parent, Union!IndexOf(o, a)) =
            Union!RelFind(o.parent, Union!IndexOf(o, b))
    BY <2>1, AnswerIs, SizeTyped
  <2>3. Union!Together(o, a, b) \in BOOLEAN
    BY DEF Union!Together
  <2>4. QED
    BY <2>2, <2>3 DEF Union!are_connected
<1>4. ASSUME ~thrown PROVE Union!Partition(u) = Union!Merged(named, a, b)
  <2> DEFINE i == Union!IndexOf(g, a)
             j == Union!IndexOf(g, b)
  <2>1. both /\ Union!Partition(g) = named
    BY <1>1, <1>4
  <2>2. i \in DOMAIN g.key_of /\ j \in DOMAIN g.key_of /\ g.key_of[i] = a /\ g.key_of[j] = b
    BY <2>1, HasIs
  <2> HIDE DEF i, j, named
  <2>3. u = Union!RelJoin(g, i, j)
    BY <1>2, <2>1 DEF i, j
  <2>4. Union!Partition(Union!RelJoin(g, i, j)) =
          Union!Merged(Union!Partition(g), g.key_of[i], g.key_of[j])
    BY <1>1, <2>2, RelJoinIs
  <2>5. QED
    BY <2>1, <2>2, <2>3, <2>4
<1>5. thrown => Union!Partition(u) \in {P, Union!With(P, a), Union!With(P, b)}
  BY <1>1, <1>2
<1>6. Union!Cardinality(UNION named) = Cardinality(UNION named)
  BY CountIs
<1>7. QED
  BY <1>1, <1>3, <1>4, <1>5, <1>6 DEF g, u

LEMMA SizedHolds ==
  ASSUME SizeInv(forest)
  PROVE  Union!Sized
<1>1. Union!IsInjective(forest.key_of)
  BY SizeTyped DEF Distinct, Union!IsInjective
<1>2. forest.num_blocks =
        Union!Cardinality(Union!Trees(forest)) + (Len(forest.parent) - Len(forest.key_of))
  BY BlocksAre
<1>3. \A t \in Union!Trees(forest) : \A i \in t :
        /\ forest.sz[Union!RelFind(forest.parent, i)] = Union!Cardinality(t)
        /\ Union!TwoTo[Union!Depth(forest, i)] <= Union!Cardinality(t)
  BY SizedTree
<1>4. \A a, b \in Members :
        LET P == Union!Partition(forest)
            named == Union!With(Union!With(P, a), b)
            thrown == Union!Cardinality(UNION named) > Len(forest.parent)
        IN  /\ {a, b} \subseteq Union!ToSet(forest.key_of) =>
                 Union!are_connected(forest, a, b) = Union!Together(forest, a, b)
            /\ ~thrown =>
                 /\ Union!Partition(Union!Named(forest, a, b)) = named
                 /\ Union!Partition(Union!join(forest, a, b)) = Union!Merged(named, a, b)
            /\ thrown => Union!Partition(Union!join(forest, a, b)) \in
                           {P, Union!With(P, a), Union!With(P, b)}
  BY SizedCalls
<1>5. QED
  BY <1>1, <1>2, <1>3, <1>4 DEF Union!Sized

\* The invariant of either kind, from its beginning and through its calls.
LEMMA RankSteps ==
  /\ Union!Init => RankInv(forest)
  /\ RankInv(forest) /\ Union!Next => RankInv(forest')
<1>1. ASSUME Union!Init PROVE RankInv(forest)
  <2>1. forest = [key_of |-> <<>>, parent |-> <<>>, rnk |-> <<>>]
    BY <1>1 DEF Union!Init
  <2>2. /\ forest.key_of = <<>> /\ forest.parent = <<>> /\ forest.rnk = <<>>
        /\ forest \in [key_of : Seq(Members), parent : Seq(Nat), rnk : Seq(Nat)]
    BY <2>1
  <2>3. <<>> \in [1..0 -> Nat] /\ <<>> \in Seq(Nat) /\ Len(<<>>) = 0 /\ DOMAIN <<>> = {}
    OBVIOUS
  <2>4. QED
    BY <2>2, <2>3 DEF RankInv, Distinct, Climbs
<1>2. ASSUME RankInv(forest), Union!Next PROVE RankInv(forest')
  <2>1. CASE \E k \in Members : forest' = Union!make_set(forest, k)
    BY <1>2, <2>1, MakeSetIs
  <2>2. CASE \E k \in Union!ToSet(forest.key_of) : forest' = Union!find(forest, k)
    BY <1>2, <2>2, FindIs DEF Union!Has
  <2>3. CASE \E a, b \in Union!ToSet(forest.key_of) :
               \/ forest' = Union!same_set(forest, a, b)
               \/ forest' = Union!union_sets(forest, a, b)
    BY <1>2, <2>3, SameSetIs, UnionSetsIs DEF Union!Has
  <2>4. QED
    BY <1>2, <2>1, <2>2, <2>3 DEF Union!Next
<1>3. QED
  BY <1>1, <1>2

LEMMA SizeSteps ==
  /\ Union!TrInit => SizeInv(forest)
  /\ SizeInv(forest) /\ Union!TrNext => SizeInv(forest')
<1>1. ASSUME NEW n \in Nat, forest = Union!RelationOf(n) PROVE SizeInv(forest)
  <2> DEFINE id == [i \in 1..n |-> i]
             sz == [i \in 1..n |-> 1]
  <2>1. forest = [key_of |-> <<>>, parent |-> id, sz |-> sz, num_blocks |-> n]
    BY <1>1 DEF Union!RelationOf
  <2>2. /\ id \in Seq(Nat) /\ Len(id) = n /\ sz \in Seq(Nat) /\ Len(sz) = n
        /\ (\A i \in 1..n : id[i] = i /\ sz[i] = 1)
    OBVIOUS
  <2> HIDE DEF id, sz
  <2>3. /\ forest.key_of = <<>> /\ forest.parent = id /\ forest.sz = sz
        /\ forest.num_blocks = n
        /\ forest \in [key_of : Seq(Members), parent : Seq(Nat), sz : Seq(Nat),
                       num_blocks : Nat]
    BY <2>1, <2>2
  <2>4. Climbs(id, Below(sz))
    <3>1. Below(sz) \in [1..n -> Nat] /\ \A i \in 1..n : Below(sz)[i] = 0
      BY <2>2 DEF Below
    <3>2. QED
      BY <2>2, <3>1 DEF Climbs
  <2>5. ASSUME NEW v \in 1..n PROVE Cardinality(TreeOf(id, v)) = 1
    <3>1. \A i \in 1..n : Union!RelFind(id, i) = i
      BY <2>2, <2>4, WayEnds
    <3>2. TreeOf(id, v) = {v}
      BY <2>2, <3>1 DEF TreeOf
    <3>3. QED
      BY <3>2, FS_Singleton
  <2>6. n = Cardinality(OwnRoots(id))
    <3>1. OwnRoots(id) = 1..n
      BY <2>2 DEF OwnRoots
    <3>2. QED
      BY <3>1, Intervals
  <2>7. Sizes(0, id, sz, n)
    BY <2>2, <2>4, <2>5, <2>6 DEF Sizes
  <2>8. Len(<<>>) = 0 /\ Distinct(<<>>)
    BY DEF Distinct
  <2>9. QED
    BY <2>3, <2>7, <2>8 DEF SizeInv
<1>2. ASSUME Union!TrInit PROVE SizeInv(forest)
  BY <1>1, <1>2, ForestsAreLegal DEF Union!TrInit, Union!Legal
<1>3. ASSUME SizeInv(forest), NEW a \in Members, NEW b \in Members
      PROVE  SizeInv(Union!Named(forest, a, b)) /\ SizeInv(Union!join(forest, a, b))
  <2> DEFINE g == Union!Named(forest, a, b)
             i == Union!IndexOf(g, a)
             j == Union!IndexOf(g, b)
  <2>1. SizeInv(g)
    BY <1>3, NamedIs DEF NamedAs
  <2>2. Union!join(forest, a, b) = IF Union!Has(g, a) /\ Union!Has(g, b)
                                   THEN Union!RelJoin(g, i, j) ELSE g
    BY DEF Union!join
  <2> HIDE DEF g
  <2>3. ASSUME Union!Has(g, a), Union!Has(g, b) PROVE SizeInv(Union!RelJoin(g, i, j))
    <3>1. i \in DOMAIN g.key_of /\ j \in DOMAIN g.key_of
      BY <2>3, HasIs
    <3> HIDE DEF i, j
    <3>2. QED
      BY <2>1, <3>1, RelJoinIs
  <2>4. QED
    BY <2>1, <2>2, <2>3 DEF g
<1>4. QED
  BY <1>2, <1>3 DEF Union!TrNext

-----------------------------------------------------------------------------
(* The specification of either kind. *)

ForestsInv ==
  /\ kind \in ArrayKinds
  /\ kind = "DisjointSet" => RankInv(forest)
  /\ kind = "TRelation" => SizeInv(forest)

LEMMA ForestsStep ==
  ASSUME ForestsInv, [Next]_vars
  PROVE  ForestsInv'
<1>1. kind \in ArrayKinds /\ kind' = kind
  BY DEF ForestsInv, Next, vars
<1>2. ASSUME kind = "DisjointSet" PROVE RankInv(forest')
  <2>1. RankInv(forest)
    BY <1>2 DEF ForestsInv
  <2>2. CASE Next
    <3>1. Union!Next
      BY <1>2, <2>2 DEF Next
    <3>2. QED
      BY <2>1, <3>1, RankSteps
  <2>3. CASE UNCHANGED vars
    BY <2>1, <2>3 DEF vars
  <2>4. QED
    BY <2>2, <2>3
<1>3. ASSUME kind = "TRelation" PROVE SizeInv(forest')
  <2>1. SizeInv(forest)
    BY <1>3 DEF ForestsInv
  <2>2. CASE Next
    <3>1. Union!TrNext
      BY <1>3, <2>2 DEF Next
    <3>2. QED
      BY <2>1, <3>1, SizeSteps
  <2>3. CASE UNCHANGED vars
    BY <2>1, <2>3 DEF vars
  <2>4. QED
    BY <2>2, <2>3
<1>4. QED
  BY <1>1, <1>2, <1>3 DEF ForestsInv

\* After any calls, for every set of members and every room, ranks and sizes grow
\* towards the roots and the trees are as large as they say.
THEOREM ForestsInvariance == Spec => []ForestsInv
<1>1. Init => ForestsInv
  <2> SUFFICES ASSUME Init PROVE ForestsInv
    OBVIOUS
  <2>1. kind \in ArrayKinds /\ ForestsInit
    BY DEF Init, ArraysInit
  <2>2. kind = "DisjointSet" => Union!Init
    BY <2>1 DEF ForestsInit
  <2>3. kind = "TRelation" => Union!TrInit
    BY <2>1 DEF ForestsInit
  <2>4. QED
    BY <2>1, <2>2, <2>3, RankSteps, SizeSteps DEF ForestsInv
<1>2. ForestsInv /\ [Next]_vars => ForestsInv'
  BY ForestsStep
<1>3. QED
  BY <1>1, <1>2, PTL DEF Spec

\* DisjointSet and TRelation: no way to a root is longer than the logarithm of the
\* size of its set, and every call answers for the partition, and makes of it, what
\* it should.
THEOREM ForestsStayRight == Spec => []ForestsAgree
<1>1. ForestsInv => ForestsAgree
  BY RankedHolds, SizedHolds DEF ForestsInv, ForestsAgree
<1>2. QED
  BY <1>1, ForestsInvariance, PTL

=============================================================================
