------------------------------ MODULE UnionFind ------------------------------
(***************************************************************************)
(* unionfind.hpp and relation.hpp, relation.cpp: DisjointSet, union by     *)
(* rank with path halving, and TRelation over EquivalenceRelation, union   *)
(* by size.  Keys get the indices 1, 2, ... in the order in which they     *)
(* come (0, 1, ... in the program).                                        *)
(***************************************************************************)
EXTENDS Integers, FiniteSets, Sequences, SequencesExt

CONSTANTS Members,    \* what is partitioned
          Rooms       \* for how many items a relation may be made

Legal == Rooms \subseteq Nat

VARIABLE forest      \* the arrays of the object

Has(f, k) == k \in ToSet(f.key_of)
IndexOf(f, k) == CHOOSE i \in DOMAIN f.key_of : f.key_of[i] = k

-----------------------------------------------------------------------------
(***************************************************************************)
(* DisjointSet                                                             *)
(***************************************************************************)
Init == forest = [key_of |-> <<>>, parent |-> <<>>, rnk |-> <<>>]

\* Every other node on the way is hung to its grandparent; at a root nothing more
\* happens, and one is reached in fewer steps than there are keys.
find_root(parent, i) ==
  LET at[n \in 0..Len(parent)] ==
        IF n = 0 THEN [parent |-> parent, root |-> i]
        ELSE LET w == at[n - 1]
                 halved == [w.parent EXCEPT ![w.root] = w.parent[w.parent[w.root]]]
             IN  [parent |-> halved, root |-> halved[w.root]]
  IN  at[Len(parent)]

\* Both keys, one after the other.
Roots(f, a, b) ==
  LET ra == find_root(f.parent, IndexOf(f, a))
      rb == find_root(ra.parent, IndexOf(f, b))
  IN  [parent |-> rb.parent, a |-> ra.root, b |-> rb.root]

make_set(f, k) ==
  IF Has(f, k) THEN f
  ELSE [key_of |-> Append(f.key_of, k), rnk |-> Append(f.rnk, 0),
        parent |-> Append(f.parent, Len(f.parent) + 1)]

Found(f, k) == f.key_of[find_root(f.parent, IndexOf(f, k)).root]
find(f, k) == [f EXCEPT !.parent = find_root(@, IndexOf(f, k)).parent]

Same(f, a, b) == Roots(f, a, b).a = Roots(f, a, b).b
same_set(f, a, b) == [f EXCEPT !.parent = Roots(f, a, b).parent]

\* Mutant of union_sets: the first root goes on top, whatever the ranks.
union_sets_in_turn(f, a, b) ==
  LET r == Roots(f, a, b)
  IN  [f EXCEPT !.parent = [r.parent EXCEPT ![r.b] = r.a]]

union_sets(f, a, b) ==
  LET r == Roots(f, a, b)
      ra == IF f.rnk[r.a] < f.rnk[r.b] THEN r.b ELSE r.a
      rb == IF ra = r.a THEN r.b ELSE r.a
  IN  IF r.a = r.b THEN same_set(f, a, b)
      ELSE [f EXCEPT !.parent = [r.parent EXCEPT ![rb] = ra],
                     !.rnk[ra] = IF f.rnk[rb] = @ THEN @ + 1 ELSE @]

Next ==
  \/ \E k \in Members : forest' = make_set(forest, k)
  \/ \E k \in ToSet(forest.key_of) : forest' = find(forest, k)
  \/ \E a, b \in ToSet(forest.key_of) :
       forest' = same_set(forest, a, b) \/ forest' = union_sets(forest, a, b)

-----------------------------------------------------------------------------
(***************************************************************************)
(* TRelation: of a number of items that is given, which get their indices  *)
(* when they are first named.                                              *)
(***************************************************************************)
RelationOf(n) ==
  [key_of |-> <<>>, parent |-> [i \in 1..n |-> i], sz |-> [i \in 1..n |-> 1], num_blocks |-> n]

\* The way from p to its root, where it stays.
Way(id, p) == LET at[n \in 0..Len(id)] == IF n = 0 THEN p ELSE id[at[n - 1]] IN at

RelFind(id, p) == Way(id, p)[Len(id)]

RelJoin(f, p, q) ==
  LET i == RelFind(f.parent, p)
      j == RelFind(f.parent, q)
      under == IF f.sz[i] < f.sz[j] THEN i ELSE j
      top == IF under = i THEN j ELSE i
  IN  IF i = j THEN f
      ELSE [f EXCEPT !.parent[under] = top, !.sz[top] = @ + f.sz[under], !.num_blocks = @ - 1]

\* With as many items as there is room for it throws, and the caller does: full stays.
search_or_insert(f, k) ==
  IF Has(f, k) \/ Len(f.key_of) = Len(f.parent) THEN f
  ELSE [f EXCEPT !.key_of = Append(@, k)]

Named(f, a, b) == search_or_insert(search_or_insert(f, a), b)

join(f, a, b) ==
  LET named == Named(f, a, b)
  IN  IF Has(named, a) /\ Has(named, b)
      THEN RelJoin(named, IndexOf(named, a), IndexOf(named, b)) ELSE named

are_connected(f, a, b) ==
  RelFind(f.parent, IndexOf(f, a)) = RelFind(f.parent, IndexOf(f, b))

TrInit == \E n \in Rooms : forest = RelationOf(n)

TrNext ==
  \E a, b \in Members : forest' = join(forest, a, b) \/ forest' = Named(forest, a, b)

-----------------------------------------------------------------------------
Trees(f) ==
  LET Tree(r) == {i \in DOMAIN f.key_of : RelFind(f.parent, i) = r}
  IN  {Tree(r) : r \in {RelFind(f.parent, i) : i \in DOMAIN f.key_of}}

Partition(f) == {{f.key_of[i] : i \in t} : t \in Trees(f)}

\* How many steps the way of i takes.
Depth(f, i) ==
  LET way == Way(f.parent, i)
  IN  CHOOSE n \in DOMAIN way :
        f.parent[way[n]] = way[n] /\ \A m \in 0..(n - 1) : f.parent[way[m]] # way[m]

TwoTo[n \in Nat] == IF n = 0 THEN 1 ELSE 2 * TwoTo[n - 1]

Together(f, a, b) == \E S \in Partition(f) : {a, b} \subseteq S

With(P, k) == IF \E S \in P : k \in S THEN P ELSE P \cup {{k}}
BlockOf(P, k) == CHOOSE S \in P : k \in S
Merged(P, a, b) ==
  (P \ {BlockOf(P, a), BlockOf(P, b)}) \cup {BlockOf(P, a) \cup BlockOf(P, b)}

(***************************************************************************)
(* The ranks are not below the depths, and a set of rank r has at least    *)
(* 2^r members.  What every call answers, and what it would make of the    *)
(* partition.                                                              *)
(***************************************************************************)
Ranked ==
  LET P == Partition(forest)
  IN  /\ \A t \in Trees(forest) :
           LET root == RelFind(forest.parent, CHOOSE i \in t : TRUE)
           IN  /\ \A i \in t : Depth(forest, i) <= forest.rnk[root]
               /\ TwoTo[forest.rnk[root]] <= Cardinality(t)
      /\ \A k \in Members : Partition(make_set(forest, k)) = With(P, k)
      /\ \A a, b \in ToSet(forest.key_of) :
           /\ Same(forest, a, b) = Together(forest, a, b)
           /\ Together(forest, a, Found(forest, a))
           /\ Same(forest, a, b) = (Found(forest, a) = Found(forest, b))
           /\ Partition(find(forest, a)) = P /\ Partition(same_set(forest, a, b)) = P
           /\ Partition(union_sets(forest, a, b)) = Merged(P, a, b)

(***************************************************************************)
(* The sizes, the depths that follow from them, the number of blocks, with *)
(* one for each index that nobody has yet, and the calls.  One that names  *)
(* more members than there is room for throws and unites nothing.          *)
(***************************************************************************)
Sized ==
  LET P == Partition(forest)
      unused == Len(forest.parent) - Len(forest.key_of)
  IN  /\ IsInjective(forest.key_of)
      /\ forest.num_blocks = Cardinality(Trees(forest)) + unused
      /\ \A t \in Trees(forest) : \A i \in t :
           /\ forest.sz[RelFind(forest.parent, i)] = Cardinality(t)
           /\ TwoTo[Depth(forest, i)] <= Cardinality(t)
      /\ \A a, b \in Members :
           LET named == With(With(P, a), b)
               thrown == Cardinality(UNION named) > Len(forest.parent)
           IN  /\ {a, b} \subseteq ToSet(forest.key_of) =>
                    are_connected(forest, a, b) = Together(forest, a, b)
               /\ ~thrown => /\ Partition(Named(forest, a, b)) = named
                             /\ Partition(join(forest, a, b)) = Merged(named, a, b)
               /\ thrown => Partition(join(forest, a, b)) \in {P, With(P, a), With(P, b)}
=============================================================================
