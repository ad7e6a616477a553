-------------------------------- MODULE BTree --------------------------------
(***************************************************************************)
(* btree.hpp: BTree and, prefixed Plus, BPlusTree.  A node is the record   *)
(* of its arrays; a leaf of a BPlusTree also has an identity, which is     *)
(* what the pointer to the next leaf names.  Positions count from 1.       *)
(***************************************************************************)
EXTENDS SearchTree

CONSTANT MinDegree

MinDegreeAtLeastTwo == MinDegree \in Nat /\ MinDegree >= 2

T == MinDegree
MAX_KEYS == 2 * T - 1
MIN_KEYS == T - 1

Leaf == [keys |-> <<>>, children |-> <<>>, leaf |-> TRUE]

Init ==
  /\ table = Leaf /\ rest = Null /\ num_items = 0 /\ cursor = NoCursor /\ reply = 0
  /\ multi = FALSE

truncate(s, size) == SubSeq(s, 1, IF size < Len(s) THEN size ELSE Len(s))

Tail2(s, size) == SubSeq(s, size + 1, Len(s))

lower_bound(n, k) == Len(SelectSeq(n.keys, LAMBDA x : x < k)) + 1

HasAt(n, k, i) == i <= Len(n.keys) /\ ~(k < n.keys[i])

\* 0 where the code answers nullptr.
RECURSIVE search_node(_, _)
search_node(n, k) ==
  LET i == lower_bound(n, k)
  IN  IF HasAt(n, k, i) THEN k ELSE IF n.leaf THEN 0 ELSE search_node(n.children[i], k)

-----------------------------------------------------------------------------
\* The middle key of child i goes up, the keys after it to a new child.
split_child(x, i) ==
  LET y == x.children[i]
      left == [y EXCEPT !.keys = truncate(@, T - 1), !.children = truncate(@, T)]
      right == [y EXCEPT !.keys = Tail2(@, T), !.children = Tail2(@, T)]
  IN  [x EXCEPT !.keys = InsertAt(@, i, y.keys[T]),
                !.children = InsertAt([@ EXCEPT ![i] = left], i + 1, right)]

RECURSIVE insert_nonfull(_, _)
insert_nonfull(x, k) ==
  LET i == lower_bound(x, k)
  IN  IF x.leaf THEN [x EXCEPT !.keys = InsertAt(@, i, k)]
      ELSE LET full == Len(x.children[i].keys) = MAX_KEYS
               y == IF full THEN split_child(x, i) ELSE x
               j == IF full /\ y.keys[i] < k THEN i + 1 ELSE i
           IN  [y EXCEPT !.children[j] = insert_nonfull(@, k)]

\* Child i takes the key between it and the next one, and that one's keys.
\* A bug: the key between the two children is lost.
merge_without_separator(x, i) ==
  LET left == x.children[i]
      right == x.children[i + 1]
      both == [left EXCEPT !.keys = @ \o right.keys, !.children = @ \o right.children]
  IN  [x EXCEPT !.keys = RemoveAt(@, i),
                !.children = [RemoveAt(@, i + 1) EXCEPT ![i] = both]]

merge_children(x, i) ==
  LET left == x.children[i]
      right == x.children[i + 1]
      both == [left EXCEPT !.keys = Append(@, x.keys[i]) \o right.keys,
                           !.children = @ \o right.children]
  IN  [x EXCEPT !.keys = RemoveAt(@, i),
                !.children = [RemoveAt(@, i + 1) EXCEPT ![i] = both]]

HasExtra(n) == Len(n.keys) > MIN_KEYS

\* A key goes round through x: from the left child, or from the right one.
FromLeft(x, i) ==
  LET left == x.children[i - 1]
      c == x.children[i]
  IN  [x EXCEPT
        !.keys[i - 1] = Last(left.keys),
        !.children[i - 1] = [left EXCEPT !.keys = Front(@),
                                         !.children = IF c.leaf THEN @ ELSE Front(@)],
        !.children[i] = [c EXCEPT
          !.keys = <<x.keys[i - 1]>> \o @,
          !.children = IF c.leaf THEN @ ELSE <<Last(left.children)>> \o @]]

FromRight(x, i) ==
  LET right == x.children[i + 1]
      c == x.children[i]
  IN  [x EXCEPT
        !.keys[i] = Head(right.keys),
        !.children[i + 1] = [right EXCEPT !.keys = Tail(@),
                                          !.children = IF c.leaf THEN @ ELSE Tail(@)],
        !.children[i] = [c EXCEPT
          !.keys = Append(@, x.keys[i]),
          !.children = IF c.leaf THEN @ ELSE Append(@, Head(right.children))]]

ensure_child_has_extra_key(x, i) ==
  IF HasExtra(x.children[i]) THEN x
  ELSE IF i > 1 /\ HasExtra(x.children[i - 1]) THEN FromLeft(x, i)
  ELSE IF i < Len(x.children) /\ HasExtra(x.children[i + 1]) THEN FromRight(x, i)
  ELSE IF i > 1 THEN merge_children(x, i - 1)
  ELSE merge_children(x, i)

\* The key and the node that are left when the last, or first, key is removed.
RECURSIVE remove_max(_), remove_min(_)
remove_max(n) ==
  IF n.leaf THEN [key |-> Last(n.keys), node |-> [n EXCEPT !.keys = Front(@)]]
  ELSE LET m == ensure_child_has_extra_key(n, Len(n.children))
           r == remove_max(Last(m.children))
       IN  [key |-> r.key, node |-> [m EXCEPT !.children[Len(m.children)] = r.node]]
remove_min(n) ==
  IF n.leaf THEN [key |-> Head(n.keys), node |-> [n EXCEPT !.keys = Tail(@)]]
  ELSE LET m == ensure_child_has_extra_key(n, 1)
           r == remove_min(m.children[1])
       IN  [key |-> r.key, node |-> [m EXCEPT !.children[1] = r.node]]

RECURSIVE remove_from(_, _)
remove_from(n, k) ==
  LET i == lower_bound(n, k)
      before == remove_max(n.children[i])
      after == remove_min(n.children[i + 1])
      m == ensure_child_has_extra_key(n, i)
  IN  IF n.leaf THEN IF HasAt(n, k, i) THEN [n EXCEPT !.keys = RemoveAt(@, i)] ELSE n
      ELSE IF ~HasAt(n, k, i) THEN [m EXCEPT !.children[lower_bound(m, k)] = remove_from(@, k)]
      ELSE IF HasExtra(n.children[i])
           THEN [n EXCEPT !.keys[i] = before.key, !.children[i] = before.node]
      ELSE IF HasExtra(n.children[i + 1])
           THEN [n EXCEPT !.keys[i] = after.key, !.children[i + 1] = after.node]
      ELSE [merge_children(n, i) EXCEPT !.children[i] = remove_from(@, k)]

RECURSIVE Ordered(_)
Ordered(n) ==
  IF n.leaf THEN n.keys
  ELSE LET Pair(i) == Ordered(n.children[i]) \o <<n.keys[i]>>
       IN  FlattenSeq([i \in DOMAIN n.keys |-> Pair(i)]) \o Ordered(Last(n.children))

for_each_inorder == Ordered(table)

RECURSIVE Leftmost(_), Rightmost(_)
Leftmost(n) == IF n.leaf THEN n ELSE Leftmost(Head(n.children))
Rightmost(n) == IF n.leaf THEN n ELSE Rightmost(Last(n.children))

RECURSIVE NodesOf(_), LeafDepths(_, _)
NodesOf(n) == {n} \cup UNION {NodesOf(c) : c \in ToSet(n.children)}
LeafDepths(n, d) ==
  IF n.leaf THEN {d} ELSE UNION {LeafDepths(c, d + 1) : c \in ToSet(n.children)}

\* Neither compares the keys of a node with those of its children.
verify ==
  IF table.keys = <<>> THEN table.leaf
  ELSE /\ \A n \in NodesOf(table) :
            /\ n = table \/ Len(n.keys) >= MIN_KEYS
            /\ Len(n.keys) <= MAX_KEYS
            /\ \A i \in 2..Len(n.keys) : n.keys[i - 1] < n.keys[i]
            /\ n.leaf \/ Len(n.children) = Len(n.keys) + 1
       /\ \A d, e \in LeafDepths(table, 0) : d = e

-----------------------------------------------------------------------------
Grown == [Leaf EXCEPT !.leaf = FALSE, !.children = <<table>>]

InsertedIn(t, k) ==
  insert_nonfull(IF Len(t.keys) = MAX_KEYS THEN split_child(Grown, 1) ELSE t, k)

\* After a removal the root loses a level when it has no key left.
Shrunk(t) == IF t.keys = <<>> /\ ~t.leaf THEN Head(t.children) ELSE t

insert(k) ==
  IF search_node(table, k) # 0 THEN Answer(0)
  ELSE num_items < MaxItems /\ Become(InsertedIn(table, k), num_items + 1, k)

search(k) == search_node(table, k)

find(k) == search_node(table, k)

remove(k) ==
  IF search_node(table, k) = 0 THEN Answer(0)
  ELSE Become(Shrunk(remove_from(table, k)), num_items - 1, k)

min_max == [min |-> Head(Leftmost(table).keys), max |-> Last(Rightmost(table).keys)]

clear == Become(Leaf, 0, 0)

\* Copied, or moved away: a copy has the same nodes, a moved tree is new.
copy_or_move == Become(table, num_items, 0) \/ Become(Leaf, 0, 0)

Next ==
  \/ \E k \in Keys : insert(k) \/ remove(k)
  \/ clear \/ copy_or_move

Verified == verify /\ num_items = Len(for_each_inorder)

-----------------------------------------------------------------------------
(***************************************************************************)
(* BPlusTree                                                               *)
(***************************************************************************)
PlusLeaf(id) == [keys |-> <<>>, children |-> <<>>, leaf |-> TRUE, id |-> id, next |-> 0]
PlusInner == [keys |-> <<>>, children |-> <<>>, leaf |-> FALSE, id |-> 0, next |-> 0]

PlusInit ==
  /\ table = PlusLeaf(1) /\ rest = Null /\ num_items = 0 /\ cursor = NoCursor /\ reply = 0
  /\ multi = FALSE

\* The identity of a leaf that is allocated: one not in use.
Fresh == CHOOSE i \in 1..(MaxItems + 2) : \A n \in NodesOf(table) : n.id # i

child_index(n, k) == Len(SelectSeq(n.keys, LAMBDA x : ~(k < x))) + 1

RECURSIVE find_leaf(_, _)
find_leaf(n, k) == IF n.leaf THEN n ELSE find_leaf(n.children[child_index(n, k)], k)

PlusSearchNode(n, k) ==
  LET f == find_leaf(n, k) IN IF HasAt(f, k, lower_bound(f, k)) THEN k ELSE 0

\* A leaf keeps the key that separates it from the new one.
PlusSplitChild(x, i) ==
  LET y == x.children[i]
      f == [y EXCEPT !.keys = truncate(@, T), !.next = Fresh]
      g == [y EXCEPT !.keys = Tail2(@, T), !.id = Fresh]
  IN  IF ~y.leaf THEN split_child(x, i)
      ELSE [x EXCEPT !.keys = InsertAt(@, i, Head(g.keys)),
                     !.children = InsertAt([@ EXCEPT ![i] = f], i + 1, g)]

RECURSIVE PlusInsertNonfull(_, _)
PlusInsertNonfull(x, k) ==
  IF x.leaf THEN [x EXCEPT !.keys = InsertAt(@, lower_bound(x, k), k)]
  ELSE LET i == child_index(x, k)
           full == Len(x.children[i].keys) = MAX_KEYS
           y == IF full THEN PlusSplitChild(x, i) ELSE x
           j == IF full /\ ~(k < y.keys[i]) THEN i + 1 ELSE i
       IN  [y EXCEPT !.children[j] = PlusInsertNonfull(@, k)]

PlusMergeChildren(x, i) ==
  LET left == x.children[i]
      right == x.children[i + 1]
      both == [left EXCEPT !.keys = @ \o right.keys, !.next = right.next]
  IN  IF ~left.leaf THEN merge_children(x, i)
      ELSE [x EXCEPT !.keys = RemoveAt(@, i),
                     !.children = [RemoveAt(@, i + 1) EXCEPT ![i] = both]]

\* Between leaves the key itself moves, and the separator is set anew.
PlusFromLeft(x, i) ==
  LET k == Last(x.children[i - 1].keys)
  IN  IF ~x.children[i].leaf THEN FromLeft(x, i)
      ELSE [x EXCEPT !.keys[i - 1] = k,
                     !.children[i - 1].keys = Front(@), !.children[i].keys = <<k>> \o @]

PlusFromRight(x, i) ==
  LET ks == x.children[i + 1].keys
  IN  IF ~x.children[i].leaf THEN FromRight(x, i)
      ELSE [x EXCEPT !.keys[i] = ks[2],
                     !.children[i + 1].keys = Tail(@), !.children[i].keys = Append(@, ks[1])]

PlusEnsure(x, i) ==
  IF HasExtra(x.children[i]) THEN x
  ELSE IF i > 1 /\ HasExtra(x.children[i - 1]) THEN PlusFromLeft(x, i)
  ELSE IF i < Len(x.children) /\ HasExtra(x.children[i + 1]) THEN PlusFromRight(x, i)
  ELSE IF i > 1 THEN PlusMergeChildren(x, i - 1)
  ELSE PlusMergeChildren(x, i)

RECURSIVE PlusRemoveFrom(_, _)
PlusRemoveFrom(n, k) ==
  IF n.leaf THEN [n EXCEPT !.keys = RemoveAt(@, lower_bound(n, k))]
  ELSE LET m == PlusEnsure(n, child_index(n, k))
       IN  [m EXCEPT !.children[child_index(m, k)] = PlusRemoveFrom(@, k)]

\* The leaves in order, and the same tree with each linked to the next.
RECURSIVE LeavesOf(_), Relinked(_, _)
LeavesOf(n) == IF n.leaf THEN <<n.id>> ELSE FlattenSeq([i \in DOMAIN n.children |-> LeavesOf(n.children[i])])
Relinked(n, ids) ==
  LET i == CHOOSE j \in DOMAIN ids : ids[j] = n.id
  IN  IF n.leaf THEN [n EXCEPT !.next = IF i < Len(ids) THEN ids[i + 1] ELSE 0]
      ELSE [n EXCEPT !.children = [c \in DOMAIN @ |-> Relinked(@[c], ids)]]

relink_leaves(t) == Relinked(t, LeavesOf(t))

\* Identities are not observed: they are renamed to the positions of leaves.
RECURSIVE Renamed(_, _)
Renamed(n, new) ==
  IF n.leaf THEN [n EXCEPT !.id = new[@], !.next = IF @ = 0 THEN 0 ELSE new[@]]
  ELSE [n EXCEPT !.children = [c \in DOMAIN @ |-> Renamed(@[c], new)]]

Named(t) ==
  LET ids == LeavesOf(t)
  IN  Renamed(t, [i \in ToSet(ids) |-> CHOOSE j \in DOMAIN ids : ids[j] = i])

\* The keys along the chain of leaves.
RECURSIVE Chain(_)
Chain(f) ==
  f.keys \o IF f.next = 0 THEN <<>>
            ELSE Chain(CHOOSE n \in NodesOf(table) : n.leaf /\ n.id = f.next)

PlusForEachInorder == Chain(Leftmost(table))

verify_leaf_chain ==
  LET ks == PlusForEachInorder
  IN  Len(ks) = num_items /\ \A i \in 2..Len(ks) : ks[i - 1] < ks[i]

-----------------------------------------------------------------------------
PlusInsertedIn(t, k) ==
  PlusInsertNonfull(
    IF Len(t.keys) = MAX_KEYS THEN PlusSplitChild([PlusInner EXCEPT !.children = <<t>>], 1) ELSE t, k)

PlusInsert(k) ==
  IF PlusSearchNode(table, k) # 0 THEN Answer(0)
  ELSE num_items < MaxItems /\ Become(Named(PlusInsertedIn(table, k)), num_items + 1, k)

PlusSearch(k) == PlusSearchNode(table, k)

PlusFind(k) == PlusSearchNode(table, k)

PlusRemove(k) ==
  IF PlusSearchNode(table, k) = 0 THEN Answer(0)
  ELSE Become(Named(Shrunk(PlusRemoveFrom(table, k))), num_items - 1, k)

PlusMinMax == [min |-> Head(Leftmost(table).keys), max |-> Last(Rightmost(table).keys)]

PlusClear == Become(PlusLeaf(1), 0, 0)

PlusCopyOrMove == Become(relink_leaves(table), num_items, 0) \/ Become(PlusLeaf(1), 0, 0)

PlusNext ==
  \/ \E k \in Keys : PlusInsert(k) \/ PlusRemove(k)
  \/ PlusClear \/ PlusCopyOrMove

PlusVerified == verify /\ verify_leaf_chain

BPlusBag == INSTANCE SortedBagSpec
  WITH keys <- PlusForEachInorder, others <- <<>>, at <- -1, lost <- FALSE, Repeats <- FALSE

BBag == INSTANCE SortedBagSpec
  WITH keys <- for_each_inorder, others <- <<>>, at <- -1, lost <- FALSE, Repeats <- FALSE

BAnswered ==
  /\ \A k \in Keys : search(k) = BBag!search(k) /\ find(k) = search(k)
  /\ num_items > 0 =>
       min_max = [min |-> Head(for_each_inorder), max |-> Last(for_each_inorder)]

PlusAnswered ==
  /\ \A k \in Keys : PlusSearch(k) = BPlusBag!search(k) /\ PlusFind(k) = PlusSearch(k)
  /\ num_items > 0 =>
       PlusMinMax = [min |-> Head(PlusForEachInorder), max |-> Last(PlusForEachInorder)]
=============================================================================
