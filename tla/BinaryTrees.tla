----------------------------- MODULE BinaryTrees -----------------------------
(***************************************************************************)
(* tree.hpp: Tree, the search tree without balancing; rankedtree.hpp:      *)
(* RankedTree, prefixed Rk, the same with the size of each subtree;        *)
(* randomizedtree.hpp: RandomizedTree, Rz; splaytree.hpp: SplayTree, Sp.   *)
(***************************************************************************)
EXTENDS SearchTree

TreeNode(k) == [key |-> k, L |-> Null, R |-> Null]

Init == TreeInit

-----------------------------------------------------------------------------
RECURSIVE InsertIn(_, _)
InsertIn(r, p) ==
  IF r = Null THEN p
  ELSE IF p.key < r.key THEN [r EXCEPT !.L = InsertIn(@, p)]
  ELSE IF r.key < p.key THEN [r EXCEPT !.R = InsertIn(@, p)]
  ELSE r

RECURSIVE InsertDupIn(_, _)
InsertDupIn(r, p) ==
  IF r = Null THEN p
  ELSE IF p.key < r.key THEN [r EXCEPT !.L = InsertDupIn(@, p)]
  ELSE [r EXCEPT !.R = InsertDupIn(@, p)]

\* The same but for the node it returns.
SearchOrInsertIn(r, p) == InsertIn(r, p)

RECURSIVE RemoveMinIn(_)
RemoveMinIn(r) == IF r.L = Null THEN r.R ELSE [r EXCEPT !.L = RemoveMinIn(@)]

\* The node of k takes the key of its successor, whose node is freed.
RECURSIVE RemoveIn(_, _)
RemoveIn(r, k) ==
  IF r = Null THEN Null
  ELSE IF k < r.key THEN [r EXCEPT !.L = RemoveIn(@, k)]
  ELSE IF r.key < k THEN [r EXCEPT !.R = RemoveIn(@, k)]
  ELSE IF r.L = Null THEN r.R
  ELSE IF r.R = Null THEN r.L
  ELSE [r EXCEPT !.R = RemoveMinIn(@), !.key = MinOf(r.R).key]

RECURSIVE CopyOf(_)
CopyOf(r) ==
  IF r = Null THEN Null
  ELSE [TreeNode(r.key) EXCEPT !.L = CopyOf(r.L), !.R = CopyOf(r.R)]

verify(r) ==
  /\ r.L # Null => r.L.key < r.key
  /\ r.R # Null => r.key < r.R.key

-----------------------------------------------------------------------------
insert(k) == Room /\ Inserted(InsertIn(table, TreeNode(k)), num_items + 1, k)

insert_dup(k) == multi /\ Room /\ Become(InsertDupIn(table, TreeNode(k)), num_items + 1, k)

search_or_insert(k) ==
  Room /\ FoundOrInserted(SearchOrInsertIn(table, TreeNode(k)), num_items + 1, k)

search(k) == Lookup(k)

find(k) == Lookup(k)

remove(k) == Alone /\ Removed(RemoveIn(table, k), num_items - 1, k)

min_max == Extremes

clear == Cleared

copy_or_move == CopiedAs(CopyOf(table)) \/ MovedAway

begin == Begin

InorderIterator == Forward

del == DeleteAt(RemoveIn(table, cursor.curr), num_items - 1, TwoChildren(cursor.curr))

Next ==
  \/ \E k \in KeysInUse :
       \/ insert(k) \/ insert_dup(k) \/ search_or_insert(k)
       \/ remove(k)
  \/ clear \/ copy_or_move
  \/ begin \/ InorderIterator \/ del \/ End

for_each_inorder == Inorder(table)

Verified ==
  /\ IsInjective(for_each_inorder) => \A r \in EveryNode(table) : verify(r)
  /\ num_items = Len(for_each_inorder)

-----------------------------------------------------------------------------
(***************************************************************************)
(* RankedTree                                                              *)
(***************************************************************************)
RankedTreeNode(k) == [key |-> k, count |-> 1, L |-> Null, R |-> Null]

RkInit == TreeInit

\* The recursive call on one side, and COUNT(r) up by one if it did insert.
LeftGrown(r, l) == IF l = r.L THEN r ELSE [r EXCEPT !.L = l, !.count = @ + 1]
RightGrown(r, g) == IF g = r.R THEN r ELSE [r EXCEPT !.R = g, !.count = @ + 1]

RECURSIVE RkInsertIn(_, _)
RkInsertIn(r, p) ==
  IF r = Null THEN p
  ELSE IF p.key < r.key THEN LeftGrown(r, RkInsertIn(r.L, p))
  ELSE IF r.key < p.key THEN RightGrown(r, RkInsertIn(r.R, p))
  ELSE r

RECURSIVE RkInsertDupIn(_, _)
RkInsertDupIn(r, p) ==
  IF r = Null THEN p
  ELSE IF p.key < r.key THEN LeftGrown(r, RkInsertDupIn(r.L, p))
  ELSE RightGrown(r, RkInsertDupIn(r.R, p))

RkSearchOrInsertIn(r, p) == RkInsertIn(r, p)

RECURSIVE RkRemoveMinIn(_)
RkRemoveMinIn(r) ==
  IF r.L = Null THEN r.R ELSE [r EXCEPT !.L = RkRemoveMinIn(@), !.count = @ - 1]

RECURSIVE RkRemoveIn(_, _)
RkRemoveIn(r, k) ==
  LET Less(q) == IF q = r THEN r ELSE [q EXCEPT !.count = @ - 1]
  IN  IF r = Null THEN Null
      ELSE IF k < r.key THEN Less([r EXCEPT !.L = RkRemoveIn(@, k)])
      ELSE IF r.key < k THEN Less([r EXCEPT !.R = RkRemoveIn(@, k)])
      ELSE IF r.L = Null THEN r.R
      ELSE IF r.R = Null THEN r.L
      ELSE Less([r EXCEPT !.R = RkRemoveMinIn(@), !.key = MinOf(r.R).key])

\* r on one side of a split of its left or right subtree into s[1] and s[2].
LeftSplit(r, s) == <<s[1], [r EXCEPT !.L = s[2], !.count = @ - s[1].count]>>
RightSplit(r, s) == <<[r EXCEPT !.R = s[1], !.count = @ - s[2].count], s[2]>>

RECURSIVE SplitPosIn(_, _)
SplitPosIn(r, i) ==
  IF i = r.L.count THEN LeftSplit(r, <<r.L, Null>>)
  ELSE IF i < r.L.count THEN LeftSplit(r, SplitPosIn(r.L, i))
  ELSE RightSplit(r, SplitPosIn(r.R, i - r.L.count - 1))

RECURSIVE RkCopyOf(_)
RkCopyOf(r) == IF r = Null THEN Null ELSE [r EXCEPT !.L = RkCopyOf(@), !.R = RkCopyOf(@)]

RkVerify(r) == r.count = r.L.count + r.R.count + 1 /\ verify(r)

-----------------------------------------------------------------------------
RkInsert(k) == Room /\ Inserted(RkInsertIn(table, RankedTreeNode(k)), 0, k)

RkInsertDup(k) == multi /\ Room /\ Become(RkInsertDupIn(table, RankedTreeNode(k)), 0, k)

RkSearchOrInsert(k) ==
  Room /\ FoundOrInserted(RkSearchOrInsertIn(table, RankedTreeNode(k)), 0, k)

RkSearch(k) == Lookup(k)

RkFind(k) == Lookup(k)

RkRemove(k) == Alone /\ Removed(RkRemoveIn(table, k), 0, k)

RkMinMax == Extremes

select_position == Ranks

\* The object is left empty; the program goes on with the first half in it.
split_pos(i) ==
  LET s == SplitPosIn(table, i) IN Alone /\ i < table.count /\ Halves(s[1], s[2])

RkClear == Cleared

RkCopyOrMove == CopiedAs(RkCopyOf(table)) \/ Swapped

RkBegin == Begin

RkInorderIterator == Forward

RkDel == DeleteAt(RkRemoveIn(table, cursor.curr), 0, TwoChildren(cursor.curr))

RkNext ==
  \/ \E k \in KeysInUse :
       \/ RkInsert(k) \/ RkInsertDup(k) \/ RkSearchOrInsert(k)
       \/ RkRemove(k)
  \/ \E i \in 0..(MaxItems - 1) : split_pos(i)
  \/ RkClear \/ RkCopyOrMove
  \/ RkBegin \/ RkInorderIterator \/ RkDel \/ End

RkForEachInorder == Inorder(table)

RkVerified ==
  /\ \A r \in EveryNode(table) \cup EveryNode(rest) : r.count = r.L.count + r.R.count + 1
  /\ IsInjective(RkForEachInorder) => \A r \in EveryNode(table) : RkVerify(r)

-----------------------------------------------------------------------------
(***************************************************************************)
(* RandomizedTree: balanced by the random choices of insert and join.      *)
(* Every choice that has a positive probability is a choice of the model:  *)
(* an operator returns the set of its outcomes.                            *)
(***************************************************************************)
RandTreeNode(k) == [key |-> k, count |-> 1, L |-> Null, R |-> Null]

RzInit == TreeInit

rotate_left(r) == LET q == generic_rotate_left(r) IN Counted([q EXCEPT !.L = Counted(@)])

rotate_right(r) == LET q == generic_rotate_right(r) IN Counted([q EXCEPT !.R = Counted(@)])

-----------------------------------------------------------------------------
RECURSIVE insert_root(_, _)
insert_root(r, p) ==
  IF r = Null THEN p
  ELSE IF p.key < r.key THEN rotate_right([r EXCEPT !.L = insert_root(@, p)])
  ELSE rotate_left([r EXCEPT !.R = insert_root(@, p)])

\* Outcomes of a call on one subtree, as outcomes for r; l = r.L: refused.
OnLeft(r, ls) == {IF l = r.L THEN r ELSE Counted([r EXCEPT !.L = l]) : l \in ls}
OnRight(r, gs) == {IF g = r.R THEN r ELSE Counted([r EXCEPT !.R = g]) : g \in gs}

\* The random choice of insert_root comes before the keys are compared, and
\* insert_root does not look for an equal key: insert may repeat one.
RECURSIVE RzInsertIn(_, _)
RzInsertIn(r, p) ==
  IF r = Null THEN {p}
  ELSE {insert_root(r, p)} \cup
       IF p.key < r.key THEN OnLeft(r, RzInsertIn(r.L, p))
       ELSE IF r.key < p.key THEN OnRight(r, RzInsertIn(r.R, p))
       ELSE {r}

RECURSIVE RzInsertDupIn(_, _)
RzInsertDupIn(r, p) ==
  IF r = Null THEN {p}
  ELSE {insert_root(r, p)} \cup
       IF p.key < r.key THEN OnLeft(r, RzInsertDupIn(r.L, p)) ELSE OnRight(r, RzInsertDupIn(r.R, p))

RECURSIVE RzSearchOrInsertIn(_, _)
RzSearchOrInsertIn(r, p) ==
  IF r = Null THEN {p}
  ELSE IF p.key < r.key THEN OnLeft(r, RzSearchOrInsertIn(r.L, p))
  ELSE IF r.key < p.key THEN OnRight(r, RzSearchOrInsertIn(r.R, p))
  ELSE {r}

RECURSIVE join(_, _)
join(l, r) ==
  IF l = Null THEN {r}
  ELSE IF r = Null THEN {l}
  ELSE {Counted([l EXCEPT !.R = g]) : g \in join(l.R, r)} \cup
       {Counted([r EXCEPT !.L = g]) : g \in join(l, r.L)}

RECURSIVE RzRemoveIn(_, _)
RzRemoveIn(r, k) ==
  IF r = Null THEN {Null}
  ELSE IF k < r.key THEN OnLeft(r, RzRemoveIn(r.L, k))
  ELSE IF r.key < k THEN OnRight(r, RzRemoveIn(r.R, k))
  ELSE join(r.L, r.R)

\* These three are written as in RankedTree.
RzSplitPosIn(r, i) == SplitPosIn(r, i)

RzCopyOf(r) == RkCopyOf(r)

RzVerify(r) == RkVerify(r)

-----------------------------------------------------------------------------
RzInsert(k) ==
  Room /\ \E t \in RzInsertIn(table, RandTreeNode(k)) : Inserted(t, 0, k)

RzInsertDup(k) ==
  multi /\ Room /\ \E t \in RzInsertDupIn(table, RandTreeNode(k)) : Become(t, 0, k)

RzSearchOrInsert(k) ==
  Room /\ \E t \in RzSearchOrInsertIn(table, RandTreeNode(k)) : FoundOrInserted(t, 0, k)

RzSearch(k) == Lookup(k)

RzFind(k) == Lookup(k)

RzRemove(k) == Alone /\ \E t \in RzRemoveIn(table, k) : Removed(t, 0, k)

RzMinMax == Extremes

RzSelectPosition == Ranks

\* The object is left empty; the program goes on with the first half in it.
RzSplitPos(i) ==
  LET s == RzSplitPosIn(table, i) IN Alone /\ i < table.count /\ Halves(s[1], s[2])

RzClear == Cleared

RzCopyOrMove == CopiedAs(RzCopyOf(table)) \/ Swapped

RzBegin == Begin

RzInorderIterator == Forward

RzDel == \E t \in RzRemoveIn(table, cursor.curr) : DeleteAt(t, 0, FALSE)

RzNext ==
  \/ \E k \in KeysInUse :
       \/ RzInsert(k) \/ RzInsertDup(k) \/ RzSearchOrInsert(k)
       \/ RzRemove(k)
  \/ \E i \in 0..(MaxItems - 1) : RzSplitPos(i)
  \/ RzClear \/ RzCopyOrMove
  \/ RzBegin \/ RzInorderIterator \/ RzDel \/ End

\* RzVerify() where no key is repeated, and the counts everywhere.
RzVerified ==
  /\ \A r \in EveryNode(table) \cup EveryNode(rest) : r.count = r.L.count + r.R.count + 1
  /\ IsInjective(Inorder(table)) => \A r \in EveryNode(table) : RzVerify(r)

-----------------------------------------------------------------------------
(***************************************************************************)
(* SplayTree: every access to a key restructures the tree.                 *)
(***************************************************************************)
SplayNode(k) == [key |-> k, L |-> Null, R |-> Null]

SpInit == TreeInit /\ multi = FALSE

\* Top-down: ls and rs are the nodes hung so far under the two sides of the
\* header, each linked to the next by its R, or its L.
Assembled(t, ls, rs) ==
  [t EXCEPT !.L = FoldRight(LAMBDA n, sub : [n EXCEPT !.R = sub], ls, @),
            !.R = FoldRight(LAMBDA n, sub : [n EXCEPT !.L = sub], rs, @)]

RECURSIVE SplayDown(_, _, _, _)
SplayDown(t, k, ls, rs) ==
  LET right == IF t.L # Null /\ k < t.L.key THEN generic_rotate_right(t) ELSE t
      left == IF t.R # Null /\ t.R.key < k THEN generic_rotate_left(t) ELSE t
  IN  CASE k < t.key ->
             IF right.L = Null THEN Assembled(right, ls, rs)
             ELSE SplayDown(right.L, k, ls, Append(rs, right))
        [] t.key < k ->
             IF left.R = Null THEN Assembled(left, ls, rs)
             ELSE SplayDown(left.R, k, Append(ls, left), rs)
        [] OTHER -> Assembled(t, ls, rs)

splay(t, k) == IF t = Null THEN Null ELSE SplayDown(t, k, <<>>, <<>>)

\* The tree after insert(Node*), with the splayed root on one side of p.
SpInsertIn(root, p) ==
  LET t == splay(root, p.key)
  IN  IF t = Null THEN p
      ELSE IF p.key < t.key THEN [p EXCEPT !.L = t.L, !.R = [t EXCEPT !.L = Null]]
      ELSE IF t.key < p.key THEN [p EXCEPT !.R = t.R, !.L = [t EXCEPT !.R = Null]]
      ELSE t

SpRemoveIn(root, k) ==
  LET t == splay(root, k)
  IN  IF t = Null \/ t.key # k THEN t
      ELSE IF t.L = Null THEN t.R
      ELSE [splay(t.L, k) EXCEPT !.R = t.R]

RECURSIVE SpCopyOf(_)
SpCopyOf(r) ==
  IF r = Null THEN Null
  ELSE [SplayNode(r.key) EXCEPT !.L = SpCopyOf(r.L), !.R = SpCopyOf(r.R)]

-----------------------------------------------------------------------------
Has(k) == generic_search(table, k) # Null

SpInsert(k) ==
  Room /\ LET t == SpInsertIn(table, SplayNode(k))
          IN  IF Has(k) THEN Become(t, num_items, 0) ELSE Become(t, num_items + 1, k)

\* A search that fails leaves its last node at the root.
SpSearch(k) ==
  LET t == splay(table, k)
  IN  Alone /\ Become(t, num_items, IF t # Null /\ t.key = k THEN k ELSE 0)

SpSearchBy(k) == SpSearch(k)

SpFind(k) == SpSearch(k)

SpSearchOrInsert(k) ==
  LET t == splay(table, k)
  IN  Room /\ IF Has(k) THEN Become(t, num_items, k)
              ELSE Become(SpInsertIn(t, SplayNode(k)), num_items + 1, k)

SpRemove(k) ==
  LET t == SpRemoveIn(table, k)
  IN  Alone /\ IF Has(k) THEN Become(t, num_items - 1, k) ELSE Become(t, num_items, 0)

SpMinMax == Extremes

SpClear == Cleared

SpCopyOrMove == CopiedAs(SpCopyOf(table)) \/ MovedAway

SpBegin == Begin

SpInorderIterator == Forward

\* Everything on the way to the key is rotated.
SpDel == DeleteAt(SpRemoveIn(table, cursor.curr), num_items - 1, FALSE)

SpNext ==
  \/ \E k \in KeysInUse :
       SpInsert(k) \/ SpSearch(k) \/ SpSearchOrInsert(k) \/ SpRemove(k)
  \/ SpClear \/ SpCopyOrMove
  \/ SpBegin \/ SpInorderIterator \/ SpDel \/ End

SpVerified == num_items = Len(Inorder(table))
=============================================================================
