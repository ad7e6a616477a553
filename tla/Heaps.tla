-------------------------------- MODULE Heaps --------------------------------
(***************************************************************************)
(* The heaps: DynHeap, FixedHeap and LHeap (heap.hpp), LeftistHeap,        *)
(* PairingHeap, BinomialHeap and FibonacciHeap.                            *)
(*                                                                         *)
(* The heaps of nodes are forests: sequences of nodes, each with the       *)
(* sequence of its children.  A node is named by its path, its place among *)
(* the roots, then among the children of each node on the way.             *)
(***************************************************************************)
EXTENDS SearchTree, FiniteSets

Sort == INSTANCE Sorting WITH QuicksortThreshold <- 1

Start(t) ==
  /\ table = t /\ rest = Null /\ num_items = 0 /\ cursor = NoCursor /\ reply = 0
  /\ multi = TRUE

HasRoom == num_items < MaxItems

RECURSIVE Node(_, _), CutOut(_, _), Put(_, _, _), Paths(_), KeysIn(_), NodesIn(_)
Node(f, p) == IF Len(p) = 1 THEN f[p[1]] ELSE Node(f[p[1]].kids, Tail(p))

Put(f, p, n) ==
  IF Len(p) = 1 THEN [f EXCEPT ![p[1]] = n]
  ELSE [f EXCEPT ![p[1]].kids = Put(@, Tail(p), n)]

\* A node without the child at place i, a child that comes first.
Without(x, i) == [x EXCEPT !.kids = RemoveAt(@, i), !.degree = @ - 1]
Over(x, y) == [x EXCEPT !.kids = <<y>> \o @, !.degree = @ + 1]

CutOut(f, p) ==
  IF Len(p) = 2 THEN [f EXCEPT ![p[1]] = Without(@, p[2])]
  ELSE [f EXCEPT ![p[1]].kids = CutOut(@, Tail(p))]

Paths(f) == UNION {{<<i>>} \cup {<<i>> \o p : p \in Paths(f[i].kids)} : i \in DOMAIN f}

\* In pre-order.
NodesIn(f) ==
  IF f = <<>> THEN f ELSE <<Head(f)>> \o NodesIn(Head(f).kids) \o NodesIn(Tail(f))
KeysIn(f) ==
  IF f = <<>> THEN f ELSE <<Head(f).key>> \o KeysIn(Head(f).kids) \o KeysIn(Tail(f))

Ordered(f) == \A x \in ToSet(NodesIn(f)) : \A i \in DOMAIN x.kids : x.key <= x.kids[i].key

Single(k) == [key |-> k, kids |-> <<>>, degree |-> 0, mark |-> FALSE]

Cleared0(t) == num_items > 0 /\ Become(t, 0, 0)

-----------------------------------------------------------------------------
(***************************************************************************)
(* DynHeap and FixedHeap: an array, in which the children of place i are   *)
(* 2i and 2i + 1.                                                          *)
(***************************************************************************)
ArInit == Start(<<>>)

Arinsert(k) ==
  LET a == Append(table, Single(k))
  IN  HasRoom /\ Become(Sort!sift_up(a, 0, 1, Len(a), FALSE), num_items + 1, k)

Arget ==
  LET a == Front([table EXCEPT ![1] = Last(table)])
  IN  table # <<>> /\ Become(Sort!sift_down(a, 0, 1, Len(a), FALSE), num_items - 1, table[1].key)

Arclear == Cleared0(<<>>)

ArNext == (\E k \in Keys : Arinsert(k)) \/ Arget \/ Arclear

ArVerified == \A i \in 2..Len(table) : table[i \div 2].key <= table[i].key

-----------------------------------------------------------------------------
(***************************************************************************)
(* LeftistHeap: a subtree is the record of its root; Null is nullptr.      *)
(***************************************************************************)
Nil == [npl |-> -1]

LeInit == Start(Nil)

LeNode(k) == [key |-> k, left |-> Nil, right |-> Nil, npl |-> 0]

RECURSIVE Lemerge(_, _)
Lemerge(a, b) ==
  LET x == IF b.key < a.key THEN b ELSE a
      y == IF b.key < a.key THEN a ELSE b
      right == Lemerge(x.right, y)
      swap == x.left.npl < right.npl
  IN  CASE a = Nil -> b
        [] b = Nil -> a
        [] a # Nil /\ b # Nil ->
             [x EXCEPT !.left = IF swap THEN right ELSE @,
                       !.right = IF swap THEN x.left ELSE right,
                       !.npl = (IF swap THEN x.left.npl ELSE right.npl) + 1]

Leinsert(k) == HasRoom /\ Become(Lemerge(table, LeNode(k)), num_items + 1, k)

Leextract_min ==
  table # Nil /\ Become(Lemerge(table.left, table.right), num_items - 1, table.key)

Leclear == Cleared0(Nil)

LeNext == (\E k \in Keys : Leinsert(k)) \/ Leextract_min \/ Leclear

RECURSIVE LeNodes(_)
LeNodes(t) == IF t = Nil THEN <<>> ELSE LeNodes(t.left) \o <<t>> \o LeNodes(t.right)

\* The right path of a subtree is its shortest way to a missing child.
RECURSIVE Shortest(_)
Shortest(t) ==
  IF t = Nil THEN -1
  ELSE LET l == Shortest(t.left)  r == Shortest(t.right) IN (IF l < r THEN l ELSE r) + 1

LeVerified ==
  \A t \in ToSet(LeNodes(table)) :
    /\ t.npl = Shortest(t) /\ t.right.npl <= t.left.npl
    /\ \A c \in {t.left, t.right} \ {Nil} : t.key <= c.key

-----------------------------------------------------------------------------
(***************************************************************************)
(* PairingHeap: one root, or none.                                         *)
(***************************************************************************)
meld(s, t) ==
  IF s = <<>> \/ t = <<>> THEN s \o t
  ELSE IF t[1].key < s[1].key THEN <<Over(t[1], s[1])>> ELSE <<Over(s[1], t[1])>>

RECURSIVE merge_pairs(_)
merge_pairs(s) ==
  IF Len(s) < 2 THEN s
  ELSE meld(meld(<<s[1]>>, <<s[2]>>), merge_pairs(SubSeq(s, 3, Len(s))))

Painsert(k) == HasRoom /\ Become(meld(table, <<Single(k)>>), num_items + 1, k)

Paextract_min ==
  table # <<>> /\ Become(merge_pairs(table[1].kids), num_items - 1, table[1].key)

\* A node keeps no pointer to its parent, which is searched for from the root.
Padecrease_key(p, k) ==
  LET n == [Node(table, p) EXCEPT !.key = k]
  IN  /\ k <= Node(table, p).key
      /\ Become(IF Len(p) = 1 THEN <<n>> ELSE meld(CutOut(table, p), <<n>>), num_items, k)

Paclear == Cleared0(<<>>)

PaNext ==
  \/ \E k \in Keys : Painsert(k) \/ \E p \in Paths(table) : Padecrease_key(p, k)
  \/ Paextract_min \/ Paclear

PaVerified == Len(table) <= 1 /\ Ordered(table)

-----------------------------------------------------------------------------
(***************************************************************************)
(* BinomialHeap: the roots, by degree.                                     *)
(***************************************************************************)
RECURSIVE merge_root_lists(_, _)
merge_root_lists(s, t) ==
  CASE s = <<>> \/ t = <<>> -> s \o t
    [] s # <<>> /\ t # <<>> ->
         IF s[1].degree <= t[1].degree THEN <<s[1]>> \o merge_root_lists(Tail(s), t)
         ELSE <<t[1]>> \o merge_root_lists(s, Tail(t))

\* The roots before curr, curr, and those after it.
RECURSIVE Consolidated(_, _, _)
Consolidated(prev, curr, s) ==
  LET next == Head(s)
      triple_run == Len(s) > 1 /\ s[2].degree = curr.degree
  IN  CASE s = <<>> -> Append(prev, curr)
        [] s # <<>> /\ (curr.degree # next.degree \/ triple_run) ->
             Consolidated(Append(prev, curr), next, Tail(s))
        [] s # <<>> /\ curr.degree = next.degree /\ ~triple_run ->
             Consolidated(prev, IF next.key < curr.key THEN Over(next, curr) ELSE Over(curr, next),
                          Tail(s))

union_heaps(s, t) ==
  LET h == merge_root_lists(s, t) IN IF h = <<>> THEN h ELSE Consolidated(<<>>, h[1], Tail(h))

find_min_root ==
  CHOOSE i \in DOMAIN table : /\ \A j \in DOMAIN table : table[i].key <= table[j].key
                              /\ \A j \in 1..(i - 1) : table[i].key < table[j].key

Biinsert(k) == HasRoom /\ Become(union_heaps(table, <<Single(k)>>), num_items + 1, k)

Biextract_min ==
  LET i == find_min_root
  IN  /\ table # <<>>
      /\ Become(union_heaps(RemoveAt(table, i), Reverse(table[i].kids)),
                num_items - 1, table[i].key)

\* The key goes up by exchanging keys: the node may end with another key.
RECURSIVE Bubbled(_, _)
Bubbled(f, p) ==
  LET n == Node(f, p)
      q == Front(p)
  IN  IF Len(p) > 1 /\ n.key < Node(f, q).key
      THEN LET g == Put(f, p, [n EXCEPT !.key = Node(f, q).key])
           IN  Bubbled(Put(g, q, [Node(g, q) EXCEPT !.key = n.key]), q)
      ELSE f

Bidecrease_key(p, k) ==
  LET n == Node(table, p)
  IN  k <= n.key /\ Become(Bubbled(Put(table, p, [n EXCEPT !.key = k]), p), num_items, k)

Biclear == Cleared0(<<>>)

BiNext ==
  \/ \E k \in Keys : Biinsert(k) \/ \E p \in Paths(table) : Bidecrease_key(p, k)
  \/ Biextract_min \/ Biclear

\* One tree for each bit of num_items; the children of a node have every smaller degree.
BiVerified ==
  /\ Ordered(table)
  /\ \A i \in 1..(Len(table) - 1) : table[i].degree < table[i + 1].degree
  /\ \A x \in ToSet(NodesIn(table)) :
       Len(x.kids) = x.degree /\ \A i \in DOMAIN x.kids : x.kids[i].degree = x.degree - i

-----------------------------------------------------------------------------
(***************************************************************************)
(* FibonacciHeap: a ring of nodes is a sequence, that of the roots starts  *)
(* at min_node, that of children at child.                                 *)
(***************************************************************************)
\* The rings of a and of n as one, from a on.
splice_rings(ring, n) == <<Head(ring), n>> \o Tail(ring)

add_to_root_list(ring, n) ==
  CASE ring = <<>> -> <<n>>
    [] ring # <<>> /\ n.key < ring[1].key -> <<n>> \o Tail(ring) \o <<Head(ring)>>
    [] ring # <<>> /\ ~(n.key < ring[1].key) -> splice_rings(ring, n)

link(y, x) ==
  LET n == [y EXCEPT !.mark = FALSE]
  IN  [x EXCEPT !.kids = IF @ = <<>> THEN <<n>> ELSE splice_rings(@, n), !.degree = @ + 1]

\* degree_table has an entry for each degree up to the number of items.
RECURSIVE Linked(_, _, _)
Linked(degree_table, x, d) ==
  LET y == degree_table[d][1]
  IN  IF degree_table[d] = <<>> THEN [degree_table EXCEPT ![d] = <<x>>]
      ELSE Linked([degree_table EXCEPT ![d] = <<>>],
                  IF y.key < x.key THEN link(x, y) ELSE link(y, x), d + 1)

consolidate(ring, n) ==
  LET degree_table == FoldLeft(LAMBDA t, x : Linked(t, x, x.degree), [d \in 0..n |-> <<>>], ring)
  IN  FoldLeft(add_to_root_list, <<>>, FlattenSeq([i \in 1..(n + 1) |-> degree_table[i - 1]]))

Fiinsert(k) == HasRoom /\ Become(add_to_root_list(table, Single(k)), num_items + 1, k)

Fiextract_min ==
  LET z == table[1]
      ring == Tail(FoldLeft(add_to_root_list, table, z.kids))
  IN  /\ table # <<>>
      /\ Become(IF ring = <<>> THEN ring ELSE consolidate(ring, num_items - 1),
                num_items - 1, z.key)

Unmarked(n) == [n EXCEPT !.mark = FALSE]

\* cut() and cascading_cut(): the nodes that are cut go to the ring of the
\* roots one by one, which moves the places of the roots: they are kept aside.
cut(s, p) == [ring |-> CutOut(s.ring, p), out |-> Append(s.out, Unmarked(Node(s.ring, p)))]

RECURSIVE cascading_cut(_, _)
cascading_cut(s, p) ==
  LET n == Node(s.ring, p)
  IN  CASE Len(p) = 1 -> s
        [] Len(p) > 1 /\ ~n.mark -> [s EXCEPT !.ring = Put(@, p, [n EXCEPT !.mark = TRUE])]
        [] Len(p) > 1 /\ n.mark -> cascading_cut(cut(s, p), Front(p))

FromMin(ring, i) == SubSeq(ring, i, Len(ring)) \o SubSeq(ring, 1, i - 1)

Fidecrease_key(p, k) ==
  LET n == [Node(table, p) EXCEPT !.key = k]
      ring == Put(table, p, n)
      s == cascading_cut(cut([ring |-> ring, out |-> <<>>], p), Front(p))
  IN  /\ k <= Node(table, p).key
      /\ Become(CASE Len(p) > 1 /\ k < Node(table, Front(p)).key ->
                       FoldLeft(add_to_root_list, s.ring, s.out)
                  [] Len(p) > 1 /\ ~(k < Node(table, Front(p)).key) -> ring
                  [] Len(p) = 1 -> IF k < ring[1].key THEN FromMin(ring, p[1]) ELSE ring,
                num_items, k)

\* The copy inserts the keys again, and is used from here on.
copy_by_reinsertion ==
  /\ table # <<>>
  /\ Become(FoldLeft(LAMBDA ring, k : add_to_root_list(ring, Single(k)), <<>>, KeysIn(table)),
            num_items, 0)

Ficlear == Cleared0(<<>>)

FiNext ==
  \/ \E k \in Keys : Fiinsert(k) \/ \E p \in Paths(table) : Fidecrease_key(p, k)
  \/ Fiextract_min \/ copy_by_reinsertion \/ Ficlear

\* Starts with no items, or with the one tree left of nine equal ones by extract_min.
FiInit(k) ==
  LET nine == FoldLeft(add_to_root_list, <<>>, [i \in 1..9 |-> Single(k)])
      t == consolidate(Tail(nine), 8)
  IN  \/ Start(<<>>)
      \/ /\ table = t /\ rest = Null /\ num_items = 8 /\ cursor = NoCursor /\ reply = 0
         /\ multi = TRUE

fibonacci[n \in Nat] == IF n < 2 THEN n ELSE fibonacci[n - 1] + fibonacci[n - 2]

\* As a marked node is cut when it loses a second child, no tree is too thin for its degree.
FiVerified ==
  /\ Ordered(table)
  /\ \A x \in ToSet(table) : table[1].key <= x.key
  /\ \A x \in ToSet(NodesIn(table)) :
       Len(x.kids) = x.degree /\ 1 + Len(NodesIn(x.kids)) >= fibonacci[x.degree + 2]

-----------------------------------------------------------------------------
HeapBag ==
  INSTANCE SortedBagSpec
    WITH keys <- SortSeq(KeysIn(table), LAMBDA a, b : a < b), others <- <<>>, at <- -1, lost <- FALSE,
         Repeats <- TRUE

LeBag ==
  INSTANCE SortedBagSpec
    WITH keys <- SortSeq([i \in DOMAIN LeNodes(table) |-> LeNodes(table)[i].key],
                         LAMBDA a, b : a < b),
         others <- <<>>, at <- -1, lost <- FALSE, Repeats <- TRUE

-----------------------------------------------------------------------------
(***************************************************************************)
(* LHeap, a complete binary tree of linked nodes.  Its leaves, and a node  *)
(* with one child, are also a ring: there L is the previous node and R the *)
(* next one, but for that L of a node with one child is the child, the     *)
(* last node, which comes before it in the ring.                           *)
(*                                                                         *)
(* Node 0 is head_node, whose R is the root; LhNil is nullptr.  The nodes  *)
(* are renamed to 1, 2, ... in level order after each call.                *)
(***************************************************************************)
LhNil == -1
head == 0

NewNode(k) == [key |-> k, L |-> LhNil, R |-> LhNil, U |-> LhNil, leaf |-> TRUE, left |-> TRUE]

Empty == [node |-> [p \in {head} |-> NewNode(0)], last |-> LhNil, n |-> 0]

LhInit ==
  /\ table = Empty /\ rest = Null /\ num_items = 0 /\ cursor = NoCursor /\ reply = 0
  /\ multi = TRUE

\* The assignments <<node, field, value>>, one after the other.
LhPut(h, s) == FoldLeft(LAMBDA g, a : [g EXCEPT ![a[1]][a[2]] = a[3]], h, s)

root(s) == s.node[head].R

is_in_list(h, p) == h[p].leaf \/ h[h[p].L].U = h[h[p].L].R

has_sibling(h, p) == h[p].U # h[p].R

Bits(h, p, q) == <<<<p, "leaf", h[q].leaf>>, <<p, "left", h[q].left>>>>

-----------------------------------------------------------------------------
\* p takes the place of its parent pp, the child of ppp.
Above(h, p, pp, ppp) ==
  LET sp == IF p = h[pp].L THEN h[pp].R ELSE h[pp].L
  IN  Bits(h, p, pp) \o Bits(h, pp, p) \o
      <<<<pp, "U", p>>, <<p, "U", ppp>>, <<ppp, IF h[ppp].L = pp THEN "L" ELSE "R", p>>>> \o
      IF has_sibling(h, p) THEN <<<<sp, "U", p>>>> ELSE <<>>

\* pp and the other child of pp become the children of p.
Below(h, p, pp) ==
  LET left == h[pp].L = p
  IN  <<<<p, "L", IF left THEN pp ELSE h[pp].L>>, <<p, "R", IF left THEN h[pp].R ELSE pp>>,
        <<pp, "L", h[p].L>>, <<pp, "R", h[p].R>>>>

swap_with_parent(s, p) ==
  LET h == s.node
      pp == h[p].U
      lcp == h[p].L
      rcp == h[p].R
      links ==
        CASE s.n = 2 -> <<>>
          [] s.n = 3 ->
               IF h[pp].R = p
               THEN <<<<lcp, "L", pp>>, <<lcp, "R", pp>>, <<pp, "R", lcp>>, <<p, "R", pp>>>>
               ELSE <<<<rcp, "L", pp>>, <<rcp, "R", pp>>, <<pp, "L", rcp>>, <<p, "L", pp>>>>
          [] s.n > 3 /\ ~is_in_list(h, p) ->
               <<<<lcp, "U", pp>>, <<rcp, "U", pp>>>> \o Below(h, p, pp)
          [] s.n > 3 /\ is_in_list(h, p) /\ ~is_in_list(h, pp) ->
               (IF h[p].leaf THEN <<>> ELSE <<<<lcp, "U", pp>>>>) \o
               <<<<lcp, "R", pp>>, <<rcp, "L", pp>>>> \o Below(h, p, pp)
          [] s.n > 3 /\ is_in_list(h, p) /\ is_in_list(h, pp) ->
               <<<<lcp, "R", pp>>, <<h[pp].R, "L", p>>, <<pp, "L", lcp>>,
                 <<p, "R", h[pp].R>>, <<pp, "R", p>>, <<p, "L", pp>>>>
  IN  [s EXCEPT !.node = LhPut(@, Above(h, p, pp, h[pp].U) \o links),
                !.last = IF p = @ THEN pp ELSE @]

\* The last node and the root, r and l, change places.
swap_last_with_root(s) ==
  LET h == s.node
      r == root(s)
      l == s.last
      links ==
        CASE s.n > 3 ->
               <<<<h[l].U, IF h[h[l].U].L = l THEN "L" ELSE "R", r>>,
                 <<r, "U", h[l].U>>, <<l, "U", head>>,
                 <<h[r].L, "U", l>>, <<h[r].R, "U", l>>, <<l, "L", h[r].L>>, <<l, "R", h[r].R>>,
                 <<r, "L", h[l].L>>, <<r, "R", h[l].R>>, <<h[l].L, "R", r>>, <<h[l].R, "L", r>>>>
          [] s.n = 3 ->
               LET b == h[l].L
               IN  <<<<l, "U", head>>, <<r, "U", l>>, <<b, "U", l>>, <<l, "L", b>>, <<l, "R", r>>,
                     <<r, "L", b>>, <<r, "R", b>>, <<b, "R", r>>, <<b, "L", r>>>>
          [] s.n = 2 ->
               <<<<l, "U", head>>, <<r, "U", l>>, <<l, "R", r>>, <<l, "L", r>>,
                 <<r, "R", l>>, <<r, "L", l>>>>
  IN  [s EXCEPT !.node = LhPut(@, links \o Bits(h, r, l) \o Bits(h, l, r) \o <<<<head, "R", l>>>>),
                !.last = r]

replace_node(s, p, q) ==
  LET h == s.node
      lc == h[p].L
      rc == h[p].R
      links == <<<<q, "U", h[p].U>>, <<q, "L", lc>>, <<q, "R", rc>>,
                 <<h[p].U, IF h[p].left THEN "L" ELSE "R", q>>>>
      around == CASE h[p].leaf -> <<<<lc, "R", q>>, <<rc, "L", q>>>>
                  [] ~h[p].leaf /\ h[rc].U = p -> <<<<lc, "U", q>>, <<rc, "U", q>>>>
                  [] ~h[p].leaf /\ h[rc].U # p ->
                       <<<<lc, "U", q>>, <<lc, "R", q>>, <<rc, "L", q>>>>
  IN  [s EXCEPT !.node = LhPut(@, links \o around \o Bits(h, q, p))]

-----------------------------------------------------------------------------
RECURSIVE sift_up(_, _), sift_down(_, _)
sift_up(s, p) ==
  IF p # root(s) /\ s.node[p].key < s.node[s.node[p].U].key
  THEN sift_up(swap_with_parent(s, p), p) ELSE s

sift_down(s, p) ==
  LET h == s.node
      c == IF has_sibling(h, h[p].L) /\ h[h[p].R].key < h[h[p].L].key THEN h[p].R ELSE h[p].L
  IN  IF h[p].leaf \/ ~(h[c].key < h[p].key) THEN s ELSE sift_down(swap_with_parent(s, c), p)

update(s, p) == sift_up(sift_down(s, p), p)

\* p is a new node, or one that was taken out.
insert_node(s, p) ==
  LET h == s.node
      l == s.last
      pp == h[l].R
      links == <<<<p, "L", l>>, <<p, "U", pp>>>> \o
               IF h[l].left
               THEN <<<<p, "left", FALSE>>, <<p, "R", h[pp].R>>, <<h[pp].R, "L", p>>, <<pp, "R", p>>>>
               ELSE <<<<p, "left", TRUE>>, <<p, "R", pp>>, <<pp, "leaf", FALSE>>, <<pp, "L", p>>>>
  IN  IF root(s) = LhNil
      THEN [node |-> LhPut(h, <<<<p, "L", p>>, <<p, "R", p>>, <<p, "U", head>>, <<head, "R", p>>,
                              <<p, "leaf", TRUE>>, <<p, "left", FALSE>>>>),
            last |-> p, n |-> 1]
      ELSE sift_up([node |-> LhPut(h, Append(links, <<l, "R", p>>)), last |-> p, n |-> s.n + 1], p)

Reset(p) == <<<<p, "leaf", TRUE>>, <<p, "left", TRUE>>>>

\* A node that is taken out stays in node: its fields may still be read.
remove_last(s) ==
  LET h == s.node
      l == s.last
      pp == h[l].U
      new_last == h[l].L
      links == IF h[l].left THEN <<<<pp, "leaf", TRUE>>, <<pp, "L", new_last>>>>
               ELSE <<<<pp, "R", h[l].R>>, <<h[l].R, "L", pp>>>>
  IN  [node |-> LhPut(h, links \o <<<<new_last, "R", pp>>>> \o Reset(l)),
       last |-> new_last, n |-> s.n - 1]

remove_top(s) ==
  LET top == root(s)
      r == remove_last(swap_last_with_root(s))
  IN  IF s.n = 1 THEN Empty ELSE [sift_down(r, root(r)) EXCEPT !.node = LhPut(@, Reset(top))]

remove_node(s, p) ==
  LET q == s.last
      r == remove_last(s)
  IN  CASE p = root(s) -> remove_top(s)
        [] p # root(s) /\ p = q -> r
        [] p \notin {root(s), q} /\ p = r.last -> insert_node(remove_last(r), q)
        [] p \notin {root(s), q, r.last} -> update(replace_node(r, p, q), q)

-----------------------------------------------------------------------------
(***************************************************************************)
(* Level order: node i has the children 2i and 2i + 1.                     *)
(***************************************************************************)
RECURSIVE Place(_, _)
Place(s, i) ==
  IF i = 1 THEN root(s)
  ELSE LET p == s.node[Place(s, i \div 2)] IN IF i % 2 = 0 THEN p.L ELSE p.R

Named(s) ==
  LET place == [i \in 1..s.n |-> Place(s, i)]
      new(p) == IF p \in {LhNil, head} THEN p
                ELSE IF \E i \in 1..s.n : place[i] = p THEN CHOOSE i \in 1..s.n : place[i] = p ELSE LhNil
      Renamed(v) == [v EXCEPT !.L = new(@), !.R = new(@), !.U = new(@)]
  IN  [node |-> [i \in 0..s.n |-> Renamed(s.node[IF i = 0 THEN head ELSE place[i]])],
       last |-> new(s.last), n |-> s.n]

KeysOf(s) == [i \in 1..s.n |-> s.node[i].key]

Leave(s, a) == Become(IF s.n = 0 THEN Empty ELSE Named(s), s.n, a)

Added(s, k) == [s EXCEPT !.node = [p \in 0..(s.n + 1) |-> IF p <= s.n THEN s.node[p] ELSE NewNode(k)]]

LhInsert(k) == table.n < MaxItems /\ Leave(insert_node(Added(table, k), table.n + 1), k)

top == table.node[root(table)].key

LhGet == table.n > 0 /\ Leave(remove_top(table), top)

\* The program gives a reference to a key that LhInsert returned.
LhRemove(p) == Leave(remove_node(table, p), table.node[p].key)

LhClear == table.n > 0 /\ Become(Empty, 0, 0)

LhNext ==
  \/ \E k \in Keys : LhInsert(k)
  \/ LhGet \/ LhClear
  \/ \E p \in 1..table.n : LhRemove(p)

\* The ring, from the first of the leaves to the last node.
Ring == [i \in 1..((table.n + 1) \div 2 + IF table.n % 2 = 0 THEN 1 ELSE 0) |->
           table.n \div 2 + i - IF table.n % 2 = 0 THEN 1 ELSE 0]

\* A heap, and the asserted links: of parents, children and the ring.
LhVerified ==
  LET h == table.node
      n == table.n
      single(i) == 2 * i = n
  IN  /\ n > 0 => table.last = n /\ h[1].U = head /\ root(table) = 1
      /\ \A i \in 2..n : /\ h[i].U = i \div 2
                         /\ ~(h[i].key < h[i \div 2].key)
                         /\ h[i].left = (i % 2 = 0)
      /\ \A i \in 1..n : h[i].leaf = (2 * i > n) /\ (2 * i <= n => h[i].L = 2 * i)
      /\ n > 1 => \A j \in DOMAIN Ring :
           LET i == Ring[j]
               next == Ring[(j % Len(Ring)) + 1]
           IN  /\ h[i].R = next
               /\ single(next) \/ h[next].L = i

LinkedBag ==
  INSTANCE SortedBagSpec
    WITH keys <- SortSeq(KeysOf(table), LAMBDA a, b : a < b), others <- <<>>, at <- -1, lost <- FALSE,
         Repeats <- TRUE
=============================================================================
