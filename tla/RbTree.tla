-------------------------------- MODULE RbTree --------------------------------
(***************************************************************************)
(* rbtree.hpp: RbTree and, prefixed Rk, RankedRBTree, left-leaning         *)
(* red-black trees.  A field of Null that a branch of the code would read  *)
(* is missing here: such a read ends the evaluation with an error.         *)
(***************************************************************************)
EXTENDS SearchTree

RbNode(k) == [key |-> k, color |-> "RED", L |-> Null, R |-> Null]

Init == TreeInit

is_red(r) == r.color = "RED"

Blackened(r) == [r EXCEPT !.color = "BLACK"]

-----------------------------------------------------------------------------
\* The node that comes up takes the color of h, and h is red.
rotate_left(h) ==
  [generic_rotate_left(h) EXCEPT !.color = h.color, !.L.color = "RED"]

rotate_right(h) ==
  [generic_rotate_right(h) EXCEPT !.color = h.color, !.R.color = "RED"]

flip(h) == [h EXCEPT !.color = IF is_red(h) THEN "BLACK" ELSE "RED"]

flip_colors(h) == flip([h EXCEPT !.L = flip(@), !.R = flip(@)])

balance(h) ==
  LET a == IF is_red(h.R) /\ ~is_red(h.L) THEN rotate_left(h) ELSE h
      b == IF is_red(a.L) /\ is_red(a.L.L) THEN rotate_right(a) ELSE a
  IN  IF is_red(b.L) /\ is_red(b.R) THEN flip_colors(b) ELSE b

move_red_left(node) ==
  LET h == flip_colors(node)
  IN  IF is_red(h.R.L) THEN flip_colors(rotate_left([h EXCEPT !.R = rotate_right(@)])) ELSE h

move_red_right(node) ==
  LET h == flip_colors(node)
  IN  IF is_red(h.L.L) THEN flip_colors(rotate_right(h)) ELSE h

\* The step of a removal to the left, and to the right, of h.
ToLeft(h) == IF ~is_red(h.L) /\ ~is_red(h.L.L) THEN move_red_left(h) ELSE h
ToRight(h) == IF ~is_red(h.R) /\ ~is_red(h.R.L) THEN move_red_right(h) ELSE h

RECURSIVE delete_min(_)
delete_min(node) ==
  IF node.L = Null THEN Null
  ELSE LET h == ToLeft(node) IN balance([h EXCEPT !.L = delete_min(@)])

\* After a recursive call on one side: nothing more when it did nothing.
Left(h, l) == IF l = h.L THEN h ELSE balance([h EXCEPT !.L = l])
Right(h, g) == IF g = h.R THEN h ELSE balance([h EXCEPT !.R = g])

RECURSIVE InsertIn(_, _)
InsertIn(h, p) ==
  IF h = Null THEN p
  ELSE IF p.key < h.key THEN Left(h, InsertIn(h.L, p))
  ELSE IF h.key < p.key THEN Right(h, InsertIn(h.R, p))
  ELSE h

RECURSIVE InsertDupIn(_, _)
InsertDupIn(h, p) ==
  IF h = Null THEN p
  ELSE IF p.key < h.key THEN Left(h, InsertDupIn(h.L, p))
  ELSE Right(h, InsertDupIn(h.R, p))

\* Balances on the way back also when it found the key.
RECURSIVE SearchOrInsertIn(_, _)
SearchOrInsertIn(h, p) ==
  IF h = Null THEN p
  ELSE IF p.key < h.key THEN balance([h EXCEPT !.L = SearchOrInsertIn(@, p)])
  ELSE IF h.key < p.key THEN balance([h EXCEPT !.R = SearchOrInsertIn(@, p)])
  ELSE h

\* Of a tree that has the key: with the red link moved down to where it is.
RECURSIVE RemoveIn(_, _)
RemoveIn(node, k) ==
  IF k < node.key
  THEN LET h == ToLeft(node) IN balance([h EXCEPT !.L = RemoveIn(@, k)])
  ELSE LET a == IF is_red(node.L) THEN rotate_right(node) ELSE node
           h == ToRight(a)
       IN  IF ~(a.key < k) /\ a.R = Null THEN Null
           ELSE IF ~(h.key < k)
           THEN balance([h EXCEPT !.R = delete_min(@), !.key = MinOf(h.R).key])
           ELSE balance([h EXCEPT !.R = RemoveIn(@, k)])

\* The public remove: a root with two black children is red on the way.
RemoveRoot(root, k) ==
  LET red == IF ~is_red(root.L) /\ ~is_red(root.R)
             THEN [root EXCEPT !.color = "RED"] ELSE root
      t == RemoveIn(red, k)
  IN  IF t = Null THEN Null ELSE Blackened(t)

RECURSIVE CopyOf(_)
CopyOf(r) ==
  IF r = Null THEN Null
  ELSE [RbNode(r.key) EXCEPT !.color = r.color, !.L = CopyOf(r.L), !.R = CopyOf(r.R)]

RECURSIVE black_height(_)
black_height(r) == IF r = Null THEN 0 ELSE black_height(r.L) + (IF is_red(r) THEN 0 ELSE 1)

\* verify() without the order.
InBalance(root) ==
  /\ ~is_red(root)
  /\ \A r \in EveryNode(root) :
       /\ is_red(r) => ~is_red(r.L) /\ ~is_red(r.R)
       /\ black_height(r.L) = black_height(r.R)
       /\ ~is_red(r.R)

verify_order(r) ==
  /\ r.L # Null => r.L.key < r.key
  /\ r.R # Null => r.key < r.R.key

-----------------------------------------------------------------------------
Has(k) == generic_search(table, k) # Null

insert(k) ==
  LET t == InsertIn(table, RbNode(k))
  IN  Room /\ IF t = table THEN Answer(0) ELSE Become(Blackened(t), num_items + 1, k)

insert_dup(k) ==
  multi /\ Room /\ Become(Blackened(InsertDupIn(table, RbNode(k))), num_items + 1, k)

search_or_insert(k) ==
  LET t == Blackened(SearchOrInsertIn(table, RbNode(k)))
  IN  Room /\ Become(t, IF Has(k) THEN num_items ELSE num_items + 1, k)

search(k) == Lookup(k)

find(k) == Lookup(k)

remove(k) ==
  Alone /\ IF Has(k) THEN Become(RemoveRoot(table, k), num_items - 1, k) ELSE Answer(0)

min_max == Extremes

clear == Cleared

copy_or_move == CopiedAs(CopyOf(table)) \/ MovedAway

begin == Begin

InorderIterator == Forward

\* The rotations of the removal leave the stack of the iterator as it was.
del == DeleteAt(RemoveRoot(table, cursor.curr), num_items - 1, TwoChildren(cursor.curr))

Next ==
  \/ \E k \in KeysInUse :
       \/ insert(k) \/ insert_dup(k) \/ search_or_insert(k)
       \/ remove(k)
  \/ clear \/ copy_or_move
  \/ begin \/ InorderIterator \/ del \/ End

Verified ==
  /\ InBalance(table)
  /\ IsInjective(Inorder(table)) => \A r \in EveryNode(table) : verify_order(r)
  /\ num_items = Len(Inorder(table))

-----------------------------------------------------------------------------
(***************************************************************************)
(* RankedRBTree                                                            *)
(***************************************************************************)
RbRkNode(k) == [key |-> k, color |-> "RED", count |-> 1, L |-> Null, R |-> Null]

RkInit == TreeInit

update(r) == Counted(r)

RkRotateLeft(h) == update([rotate_left(h) EXCEPT !.L = update(@)])

RkRotateRight(h) == update([rotate_right(h) EXCEPT !.R = update(@)])

RkFlipColors(h) == flip([h EXCEPT !.L = flip(@), !.R = flip(@)])

RkBalance(node) ==
  LET h == update(node)
      a == IF is_red(h.R) /\ ~is_red(h.L) THEN RkRotateLeft(h) ELSE h
      b == IF is_red(a.L) /\ is_red(a.L.L) THEN RkRotateRight(a) ELSE a
  IN  IF is_red(b.L) /\ is_red(b.R) THEN RkFlipColors(b) ELSE b

RkMoveRedLeft(node) ==
  LET h == RkFlipColors(node)
  IN  IF is_red(h.R.L)
      THEN RkFlipColors(RkRotateLeft([h EXCEPT !.R = RkRotateRight(@)])) ELSE h

RkMoveRedRight(node) ==
  LET h == RkFlipColors(node)
  IN  IF is_red(h.L.L) THEN RkFlipColors(RkRotateRight(h)) ELSE h

RkToLeft(h) == IF ~is_red(h.L) /\ ~is_red(h.L.L) THEN RkMoveRedLeft(h) ELSE h
RkToRight(h) == IF ~is_red(h.R) /\ ~is_red(h.R.L) THEN RkMoveRedRight(h) ELSE h

RECURSIVE RkDeleteMin(_)
RkDeleteMin(node) ==
  IF node.L = Null THEN Null
  ELSE LET h == RkToLeft(node) IN RkBalance([h EXCEPT !.L = RkDeleteMin(@)])

RkLeft(h, l) == IF l = h.L THEN h ELSE RkBalance([h EXCEPT !.L = l])
RkRight(h, g) == IF g = h.R THEN h ELSE RkBalance([h EXCEPT !.R = g])

RECURSIVE RkInsertIn(_, _)
RkInsertIn(h, p) ==
  IF h = Null THEN p
  ELSE IF p.key < h.key THEN RkLeft(h, RkInsertIn(h.L, p))
  ELSE IF h.key < p.key THEN RkRight(h, RkInsertIn(h.R, p))
  ELSE h

RECURSIVE RkInsertDupIn(_, _)
RkInsertDupIn(h, p) ==
  IF h = Null THEN p
  ELSE IF p.key < h.key THEN RkLeft(h, RkInsertDupIn(h.L, p))
  ELSE RkRight(h, RkInsertDupIn(h.R, p))

RECURSIVE RkSearchOrInsertIn(_, _)
RkSearchOrInsertIn(h, p) ==
  IF h = Null THEN p
  ELSE IF p.key < h.key THEN RkBalance([h EXCEPT !.L = RkSearchOrInsertIn(@, p)])
  ELSE IF h.key < p.key THEN RkBalance([h EXCEPT !.R = RkSearchOrInsertIn(@, p)])
  ELSE h

RECURSIVE RkRemoveIn(_, _)
RkRemoveIn(node, k) ==
  IF k < node.key
  THEN LET h == RkToLeft(node) IN RkBalance([h EXCEPT !.L = RkRemoveIn(@, k)])
  ELSE LET a == IF is_red(node.L) THEN RkRotateRight(node) ELSE node
           h == RkToRight(a)
       IN  IF ~(a.key < k) /\ a.R = Null THEN Null
           ELSE IF ~(h.key < k)
           THEN RkBalance([h EXCEPT !.R = RkDeleteMin(@), !.key = MinOf(h.R).key])
           ELSE RkBalance([h EXCEPT !.R = RkRemoveIn(@, k)])

RkRemoveRoot(root, k) ==
  LET red == IF ~is_red(root.L) /\ ~is_red(root.R)
             THEN [root EXCEPT !.color = "RED"] ELSE root
      t == RkRemoveIn(red, k)
  IN  IF t = Null THEN Null ELSE Blackened(t)

RECURSIVE RkCopyOf(_)
RkCopyOf(r) ==
  IF r = Null THEN Null
  ELSE update([RbRkNode(r.key) EXCEPT !.color = r.color,
                                      !.L = RkCopyOf(r.L), !.R = RkCopyOf(r.R)])

RkVerify(r) == r = update(r) /\ (IsInjective(Inorder(r)) => verify_order(r))

-----------------------------------------------------------------------------
RkInsert(k) ==
  LET t == RkInsertIn(table, RbRkNode(k))
  IN  Room /\ IF t = table THEN Answer(0) ELSE Become(Blackened(t), 0, k)

RkInsertDup(k) == multi /\ Room /\ Become(Blackened(RkInsertDupIn(table, RbRkNode(k))), 0, k)

RkSearchOrInsert(k) ==
  Room /\ Become(Blackened(RkSearchOrInsertIn(table, RbRkNode(k))), 0, k)

RkSearch(k) == Lookup(k)

RkFind(k) == Lookup(k)

RkRemove(k) == Alone /\ IF Has(k) THEN Become(RkRemoveRoot(table, k), 0, k) ELSE Answer(0)

RkMinMax == Extremes

select_position == Ranks

\* Each half is built anew with insert, which drops the keys that repeat.
Rebuilt(ks) ==
  FoldLeft(LAMBDA t, k : Blackened(RkInsertIn(t, RbRkNode(k))), Null, ks)

split_pos(i) ==
  LET ks == Inorder(table)
  IN  /\ Alone /\ i < table.count
      /\ IsInjective(ks)
      /\ Halves(Rebuilt(SubSeq(ks, 1, i)), Rebuilt(SubSeq(ks, i + 1, Len(ks))))

RkClear == Cleared

RkCopyOrMove == CopiedAs(RkCopyOf(table)) \/ Swapped

RkBegin == Begin

RkInorderIterator == Forward

RkDel == DeleteAt(RkRemoveRoot(table, cursor.curr), 0, TwoChildren(cursor.curr))

RkNext ==
  \/ \E k \in KeysInUse :
       \/ RkInsert(k) \/ RkInsertDup(k) \/ RkSearchOrInsert(k)
       \/ RkRemove(k)
  \/ \E i \in 0..(MaxItems - 1) : split_pos(i)
  \/ RkClear \/ RkCopyOrMove
  \/ RkBegin \/ RkInorderIterator \/ RkDel \/ End

RkVerified ==
  /\ InBalance(table) /\ InBalance(rest)
  /\ \A r \in EveryNode(table) \cup EveryNode(rest) : RkVerify(r)
=============================================================================
