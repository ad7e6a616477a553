------------------------------- MODULE AVLTree -------------------------------
(***************************************************************************)
(* avltree.hpp: AVLTree and, prefixed Rk, RankedAVLTree.                   *)
(***************************************************************************)
EXTENDS SearchTree

AVLNode(k) == [key |-> k, height |-> 0, L |-> Null, R |-> Null]

Init == TreeInit

-----------------------------------------------------------------------------
update_height(r) ==
  [r EXCEPT !.height = 1 + IF r.L.height < r.R.height THEN r.R.height ELSE r.L.height]

balance_factor(r) == r.L.height - r.R.height

rotate_left(r) ==
  LET q == generic_rotate_left(r) IN update_height([q EXCEPT !.L = update_height(@)])

rotate_right(r) ==
  LET q == generic_rotate_right(r) IN update_height([q EXCEPT !.R = update_height(@)])

\* A bug: one rotation where two are needed.
balance_once(node) ==
  LET r == update_height(node)
  IN  IF balance_factor(r) > 1 THEN rotate_right(r)
      ELSE IF balance_factor(r) < -1 THEN rotate_left(r) ELSE r

balance(node) ==
  LET r == update_height(node)
  IN  IF balance_factor(r) > 1
      THEN rotate_right(
             IF balance_factor(r.L) < 0 THEN [r EXCEPT !.L = rotate_left(@)] ELSE r)
      ELSE IF balance_factor(r) < -1
      THEN rotate_left(
             IF balance_factor(r.R) > 0 THEN [r EXCEPT !.R = rotate_right(@)] ELSE r)
      ELSE r

\* After a recursive call on one side: nothing more when it did nothing.
Left(r, l) == IF l = r.L THEN r ELSE balance([r EXCEPT !.L = l])
Right(r, g) == IF g = r.R THEN r ELSE balance([r EXCEPT !.R = g])

RECURSIVE InsertIn(_, _)
InsertIn(r, p) ==
  IF r = Null THEN p
  ELSE IF p.key < r.key THEN Left(r, InsertIn(r.L, p))
  ELSE IF r.key < p.key THEN Right(r, InsertIn(r.R, p))
  ELSE r

RECURSIVE InsertDupIn(_, _)
InsertDupIn(r, p) ==
  IF r = Null THEN p
  ELSE IF p.key < r.key THEN Left(r, InsertDupIn(r.L, p))
  ELSE Right(r, InsertDupIn(r.R, p))

\* Balances on the way back also when it found the key.
RECURSIVE SearchOrInsertIn(_, _)
SearchOrInsertIn(r, p) ==
  IF r = Null THEN p
  ELSE IF p.key < r.key THEN balance([r EXCEPT !.L = SearchOrInsertIn(@, p)])
  ELSE IF r.key < p.key THEN balance([r EXCEPT !.R = SearchOrInsertIn(@, p)])
  ELSE r

RECURSIVE RemoveMinIn(_)
RemoveMinIn(r) == IF r.L = Null THEN r.R ELSE balance([r EXCEPT !.L = RemoveMinIn(@)])

\* The node of k takes the key of its successor, whose node is freed.
RECURSIVE RemoveIn(_, _)
RemoveIn(r, k) ==
  IF r = Null THEN Null
  ELSE IF k < r.key THEN Left(r, RemoveIn(r.L, k))
  ELSE IF r.key < k THEN Right(r, RemoveIn(r.R, k))
  ELSE IF r.L = Null THEN r.R
  ELSE IF r.R = Null THEN r.L
  ELSE balance([r EXCEPT !.R = RemoveMinIn(@), !.key = MinOf(r.R).key])

RECURSIVE CopyOf(_)
CopyOf(r) ==
  IF r = Null THEN Null
  ELSE update_height([AVLNode(r.key) EXCEPT !.L = CopyOf(r.L), !.R = CopyOf(r.R)])

InBalance(r) ==
  /\ balance_factor(r) \in -1..1
  /\ r = update_height(r)

verify(r) ==
  /\ InBalance(r)
  /\ r.L # Null => r.L.key < r.key
  /\ r.R # Null => r.key < r.R.key

-----------------------------------------------------------------------------
insert(k) == Room /\ Inserted(InsertIn(table, AVLNode(k)), num_items + 1, k)

insert_dup(k) == multi /\ Room /\ Become(InsertDupIn(table, AVLNode(k)), num_items + 1, k)

search_or_insert(k) ==
  Room /\ FoundOrInserted(SearchOrInsertIn(table, AVLNode(k)), num_items + 1, k)

search(k) == Lookup(k)

find(k) == Lookup(k)

remove(k) == Alone /\ Removed(RemoveIn(table, k), num_items - 1, k)

min_max == Extremes

clear == Cleared

copy_or_move == CopiedAs(CopyOf(table)) \/ MovedAway

begin == Begin

InorderIterator == Forward

\* The rotations of the removal leave the stack of the iterator as it was.
del == DeleteAt(RemoveIn(table, cursor.curr), num_items - 1, TwoChildren(cursor.curr))

Next ==
  \/ \E k \in KeysInUse :
       \/ insert(k) \/ insert_dup(k) \/ search_or_insert(k)
       \/ remove(k)
  \/ clear \/ copy_or_move
  \/ begin \/ InorderIterator \/ del \/ End

Verified ==
  /\ \A r \in EveryNode(table) : InBalance(r)
  /\ IsInjective(Inorder(table)) => \A r \in EveryNode(table) : verify(r)
  /\ num_items = Len(Inorder(table))

-----------------------------------------------------------------------------
(***************************************************************************)
(* RankedAVLTree                                                           *)
(***************************************************************************)
AVLRkNode(k) == [key |-> k, height |-> 0, count |-> 1, L |-> Null, R |-> Null]

RkInit == TreeInit

update(r) == Counted(update_height(r))

RkRotateLeft(r) == LET q == generic_rotate_left(r) IN update([q EXCEPT !.L = update(@)])

RkRotateRight(r) == LET q == generic_rotate_right(r) IN update([q EXCEPT !.R = update(@)])

RkBalance(node) ==
  LET r == update(node)
  IN  IF balance_factor(r) > 1
      THEN RkRotateRight(
             IF balance_factor(r.L) < 0 THEN [r EXCEPT !.L = RkRotateLeft(@)] ELSE r)
      ELSE IF balance_factor(r) < -1
      THEN RkRotateLeft(
             IF balance_factor(r.R) > 0 THEN [r EXCEPT !.R = RkRotateRight(@)] ELSE r)
      ELSE r

\* All keys of left are before mid, those of right after it.
RECURSIVE join(_, _, _)
join(left, mid, right) ==
  IF left.height > right.height + 1
  THEN RkBalance([left EXCEPT !.R = join(@, mid, right)])
  ELSE IF right.height > left.height + 1
  THEN RkBalance([right EXCEPT !.L = join(left, mid, @)])
  ELSE update([mid EXCEPT !.L = left, !.R = right])

RkLeft(r, l) == IF l = r.L THEN r ELSE RkBalance([r EXCEPT !.L = l])
RkRight(r, g) == IF g = r.R THEN r ELSE RkBalance([r EXCEPT !.R = g])

RECURSIVE RkInsertIn(_, _)
RkInsertIn(r, p) ==
  IF r = Null THEN p
  ELSE IF p.key < r.key THEN RkLeft(r, RkInsertIn(r.L, p))
  ELSE IF r.key < p.key THEN RkRight(r, RkInsertIn(r.R, p))
  ELSE r

RECURSIVE RkInsertDupIn(_, _)
RkInsertDupIn(r, p) ==
  IF r = Null THEN p
  ELSE IF p.key < r.key THEN RkLeft(r, RkInsertDupIn(r.L, p))
  ELSE RkRight(r, RkInsertDupIn(r.R, p))

RECURSIVE RkSearchOrInsertIn(_, _)
RkSearchOrInsertIn(r, p) ==
  IF r = Null THEN p
  ELSE IF p.key < r.key THEN RkBalance([r EXCEPT !.L = RkSearchOrInsertIn(@, p)])
  ELSE IF r.key < p.key THEN RkBalance([r EXCEPT !.R = RkSearchOrInsertIn(@, p)])
  ELSE r

RECURSIVE RkRemoveMinIn(_)
RkRemoveMinIn(r) == IF r.L = Null THEN r.R ELSE RkBalance([r EXCEPT !.L = RkRemoveMinIn(@)])

\* The removal of the node r itself.
RkRemoved(r) ==
  IF r.L = Null THEN r.R
  ELSE IF r.R = Null THEN r.L
  ELSE RkBalance([r EXCEPT !.R = RkRemoveMinIn(@), !.key = MinOf(r.R).key])

RECURSIVE RkRemoveIn(_, _)
RkRemoveIn(r, k) ==
  IF r = Null THEN Null
  ELSE IF k < r.key THEN RkLeft(r, RkRemoveIn(r.L, k))
  ELSE IF r.key < k THEN RkRight(r, RkRemoveIn(r.R, k))
  ELSE RkRemoved(r)

RECURSIVE RemovePosIn(_, _)
RemovePosIn(r, i) ==
  IF r.L.count = i THEN RkRemoved(r)
  ELSE IF i < r.L.count THEN RkBalance([r EXCEPT !.L = RemovePosIn(@, i)])
  ELSE RkBalance([r EXCEPT !.R = RemovePosIn(@, i - r.L.count - 1)])

\* The root becomes the node in the middle of a join, on its side.
RECURSIVE SplitPosIn(_, _)
SplitPosIn(r, i) ==
  LET mid == AVLRkNode(r.key)
  IN  IF i = r.L.count THEN <<r.L, join(Null, mid, r.R)>>
      ELSE IF i < r.L.count
           THEN LET s == SplitPosIn(r.L, i) IN <<s[1], join(s[2], mid, r.R)>>
           ELSE LET s == SplitPosIn(r.R, i - r.L.count - 1) IN <<join(r.L, mid, s[1]), s[2]>>

RECURSIVE RkCopyOf(_)
RkCopyOf(r) ==
  IF r = Null THEN Null
  ELSE update([AVLRkNode(r.key) EXCEPT !.L = RkCopyOf(r.L), !.R = RkCopyOf(r.R)])

RkVerify(r) ==
  /\ balance_factor(r) \in -1..1
  /\ r = update(r)
  /\ r.L # Null => ~(r.key < r.L.key)
  /\ r.R # Null => ~(r.R.key < r.key)
  /\ IsInjective(Inorder(r)) => verify(r)

-----------------------------------------------------------------------------
RkInsert(k) == Room /\ Inserted(RkInsertIn(table, AVLRkNode(k)), 0, k)

RkInsertDup(k) == multi /\ Room /\ Become(RkInsertDupIn(table, AVLRkNode(k)), 0, k)

RkSearchOrInsert(k) ==
  Room /\ FoundOrInserted(RkSearchOrInsertIn(table, AVLRkNode(k)), 0, k)

RkSearch(k) == Lookup(k)

RkFind(k) == Lookup(k)

RkRemove(k) == Alone /\ Removed(RkRemoveIn(table, k), 0, k)

remove_pos(i) ==
  Alone /\ i < table.count /\ Become(RemovePosIn(table, i), 0, generic_select(table, i).key)

RkMinMax == Extremes

select_position == Ranks

\* The object is left empty; the program goes on with the first half in it.
split_pos(i) ==
  LET s == SplitPosIn(table, i) IN Alone /\ i < table.count /\ Halves(s[1], s[2])

RkClear == Cleared

RkCopyOrMove == CopiedAs(RkCopyOf(table)) \/ Swapped

RkBegin == Begin

RkInorderIterator == Forward

RkDel == DeleteAt(RkRemoveIn(table, cursor.curr), 0, TwoChildren(cursor.curr))

RkNext ==
  \/ \E k \in KeysInUse :
       \/ RkInsert(k) \/ RkInsertDup(k) \/ RkSearchOrInsert(k)
       \/ RkRemove(k)
  \/ \E i \in 0..(MaxItems - 1) : remove_pos(i) \/ split_pos(i)
  \/ RkClear \/ RkCopyOrMove
  \/ RkBegin \/ RkInorderIterator \/ RkDel \/ End

RkVerified == \A r \in EveryNode(table) \cup EveryNode(rest) : RkVerify(r)
=============================================================================
