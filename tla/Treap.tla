-------------------------------- MODULE Treap --------------------------------
(***************************************************************************)
(* treap.hpp: Treap and, prefixed Rk, RankedTreap.  A priority comes from  *)
(* a random generator, here a choice from Priors; the smaller one is       *)
(* nearer the root.                                                        *)
(***************************************************************************)
EXTENDS SearchTree

CONSTANT Priors

PriorsBelowNull == \A p \in Priors : p < Null.prior

TreapNode(k, p) == [key |-> k, prior |-> p, L |-> Null, R |-> Null]

Init == TreeInit

-----------------------------------------------------------------------------
(***************************************************************************)
(* Treap: functions of the nodes.                                          *)
(***************************************************************************)
\* The rotations after the recursive call for one side.
LeftUp(r) == IF r.L.prior < r.prior THEN generic_rotate_right(r) ELSE r
RightUp(r) == IF r.R.prior < r.prior THEN generic_rotate_left(r) ELSE r

\* r itself when it has the key.
RECURSIVE InsertIn(_, _)
InsertIn(r, p) ==
  IF r = Null THEN p
  ELSE IF p.key < r.key
       THEN LET l == InsertIn(r.L, p) IN IF l = r.L THEN r ELSE LeftUp([r EXCEPT !.L = l])
  ELSE IF r.key < p.key
       THEN LET g == InsertIn(r.R, p) IN IF g = r.R THEN r ELSE RightUp([r EXCEPT !.R = g])
  ELSE r

RECURSIVE InsertDupIn(_, _)
InsertDupIn(r, p) ==
  IF r = Null THEN p
  ELSE IF p.key < r.key THEN LeftUp([r EXCEPT !.L = InsertDupIn(@, p)])
  ELSE RightUp([r EXCEPT !.R = InsertDupIn(@, p)])

\* The same but for the node it returns.
SearchOrInsertIn(r, p) == InsertIn(r, p)

RECURSIVE ExclusiveJoin(_, _)
ExclusiveJoin(ts, tg) ==
  IF ts = Null THEN tg
  ELSE IF tg = Null THEN ts
  ELSE IF ts.prior < tg.prior THEN [ts EXCEPT !.R = ExclusiveJoin(@, tg)]
  ELSE [tg EXCEPT !.L = ExclusiveJoin(ts, @)]

RECURSIVE RemoveIn(_, _)
RemoveIn(r, k) ==
  IF r = Null THEN Null
  ELSE IF k < r.key THEN [r EXCEPT !.L = RemoveIn(@, k)]
  ELSE IF r.key < k THEN [r EXCEPT !.R = RemoveIn(@, k)]
  ELSE ExclusiveJoin(r.L, r.R)

RECURSIVE CopyOf(_)
CopyOf(r) ==
  IF r = Null THEN Null
  ELSE [TreapNode(r.key, r.prior) EXCEPT !.L = CopyOf(r.L), !.R = CopyOf(r.R)]

-----------------------------------------------------------------------------
(***************************************************************************)
(* Treap: its methods.                                                     *)
(***************************************************************************)
NewNode(k) == {TreapNode(k, p) : p \in Priors}

insert(k) ==
  Room /\ \E n \in NewNode(k) : Inserted(InsertIn(table, n), num_items + 1, k)

insert_dup(k) ==
  multi /\ Room /\ \E n \in NewNode(k) : Become(InsertDupIn(table, n), num_items + 1, k)

search_or_insert(k) ==
  Room /\ \E n \in NewNode(k) :
            FoundOrInserted(SearchOrInsertIn(table, n), num_items + 1, k)

search(k) == Lookup(k)

find(k) == Lookup(k)

remove(k) == Alone /\ Removed(RemoveIn(table, k), num_items - 1, k)

min_max == Extremes

clear == Cleared

copy_or_move == CopiedAs(CopyOf(table)) \/ MovedAway

begin == Begin

InorderIterator == Forward

del == DeleteAt(RemoveIn(table, cursor.curr), num_items - 1, FALSE)

Next ==
  \/ \E k \in KeysInUse :
       \/ insert(k) \/ insert_dup(k) \/ search_or_insert(k)
       \/ remove(k)
  \/ clear \/ copy_or_move
  \/ begin \/ InorderIterator \/ del \/ End

\* A heap by priority, as the comment on the class has it, and the counter.
Verified ==
  /\ \A r \in EveryNode(table) : r.prior <= r.L.prior /\ r.prior <= r.R.prior
  /\ num_items = Len(Inorder(table))

-----------------------------------------------------------------------------
(***************************************************************************)
(* RankedTreap: functions of the nodes, which keep COUNT.                  *)
(***************************************************************************)
RkTreapNode(k, p) == [key |-> k, prior |-> p, count |-> 1, L |-> Null, R |-> Null]

RkRotateLeft(r) == LET q == generic_rotate_left(r) IN Counted([q EXCEPT !.L = Counted(@)])

RkRotateRight(r) == LET q == generic_rotate_right(r) IN Counted([q EXCEPT !.R = Counted(@)])

\* ++COUNT(r) and the rotation, after a node was inserted on one side.
LeftGrown(r, l) ==
  LET q == [r EXCEPT !.L = l, !.count = @ + 1]
  IN  IF l.prior < r.prior THEN RkRotateRight(q) ELSE q
RightGrown(r, g) ==
  LET q == [r EXCEPT !.R = g, !.count = @ + 1]
  IN  IF g.prior < r.prior THEN RkRotateLeft(q) ELSE q

RECURSIVE RkInsertIn(_, _)
RkInsertIn(r, p) ==
  IF r = Null THEN p
  ELSE IF p.key < r.key
       THEN LET l == RkInsertIn(r.L, p) IN IF l = r.L THEN r ELSE LeftGrown(r, l)
  ELSE IF r.key < p.key
       THEN LET g == RkInsertIn(r.R, p) IN IF g = r.R THEN r ELSE RightGrown(r, g)
  ELSE r

RECURSIVE RkInsertDupIn(_, _)
RkInsertDupIn(r, p) ==
  IF r = Null THEN p
  ELSE IF p.key < r.key THEN LeftGrown(r, RkInsertDupIn(r.L, p))
  ELSE RightGrown(r, RkInsertDupIn(r.R, p))

RkSearchOrInsertIn(r, p) == RkInsertIn(r, p)

RECURSIVE RkExclusiveJoin(_, _)
RkExclusiveJoin(ts, tg) ==
  IF ts = Null THEN tg
  ELSE IF tg = Null THEN ts
  ELSE IF ts.prior < tg.prior
       THEN [ts EXCEPT !.R = RkExclusiveJoin(@, tg), !.count = @ + tg.count]
  ELSE [tg EXCEPT !.L = RkExclusiveJoin(ts, @), !.count = @ + ts.count]

RECURSIVE RkRemoveIn(_, _)
RkRemoveIn(r, k) ==
  LET OneLess(q) == [q EXCEPT !.count = @ - 1]
  IN  IF r = Null THEN Null
      ELSE IF k < r.key
           THEN LET l == RkRemoveIn(r.L, k)
                IN  IF l = r.L THEN r ELSE OneLess([r EXCEPT !.L = l])
      ELSE IF r.key < k
           THEN LET g == RkRemoveIn(r.R, k)
                IN  IF g = r.R THEN r ELSE OneLess([r EXCEPT !.R = g])
      ELSE RkExclusiveJoin(r.L, r.R)

RECURSIVE RemovePosIn(_, _)
RemovePosIn(r, i) ==
  IF r.L.count = i THEN RkExclusiveJoin(r.L, r.R)
  ELSE IF i < r.L.count THEN [r EXCEPT !.L = RemovePosIn(@, i), !.count = @ - 1]
  ELSE [r EXCEPT !.R = RemovePosIn(@, i - r.L.count - 1), !.count = @ - 1]

\* r on one side of a split of its left or right subtree into s[1] and s[2].
LeftSplit(r, s) == <<s[1], [r EXCEPT !.L = s[2], !.count = @ - s[1].count]>>
RightSplit(r, s) == <<[r EXCEPT !.R = s[1], !.count = @ - s[2].count], s[2]>>

RECURSIVE SplitPosIn(_, _)
SplitPosIn(r, i) ==
  IF i = r.L.count THEN LeftSplit(r, <<r.L, Null>>)
  ELSE IF i < r.L.count THEN LeftSplit(r, SplitPosIn(r.L, i))
  ELSE RightSplit(r, SplitPosIn(r.R, i - r.L.count - 1))

\* Of a tree without k: otherwise the code returns before it changes a node.
RECURSIVE SplitKeyIn(_, _)
SplitKeyIn(r, k) ==
  IF r = Null THEN <<Null, Null>>
  ELSE IF k < r.key THEN LeftSplit(r, SplitKeyIn(r.L, k))
  ELSE RightSplit(r, SplitKeyIn(r.R, k))

RECURSIVE SplitKeyDupIn(_, _)
SplitKeyDupIn(r, k) ==
  IF r = Null THEN <<Null, Null>>
  ELSE IF k < r.key THEN LeftSplit(r, SplitKeyDupIn(r.L, k))
  ELSE RightSplit(r, SplitKeyDupIn(r.R, k))

\* The nodes of t2, in preorder, are reset and inserted into t1.
RECURSIVE JoinDupIn(_, _)
JoinDupIn(t1, t2) ==
  IF t2 = Null THEN t1
  ELSE JoinDupIn(
         JoinDupIn(RkInsertDupIn(t1, RkTreapNode(t2.key, t2.prior)), t2.L), t2.R)

RECURSIVE RkCopyOf(_)
RkCopyOf(r) ==
  IF r = Null THEN Null
  ELSE [r EXCEPT !.L = RkCopyOf(r.L), !.R = RkCopyOf(r.R)]

verify(r) ==
  /\ r.count = r.L.count + r.R.count + 1
  /\ r.prior <= r.L.prior /\ r.prior <= r.R.prior
  /\ r.L # Null => r.L.key < r.key
  /\ r.R # Null => r.key < r.R.key

verify_dup(r) ==
  /\ r.count = r.L.count + r.R.count + 1
  /\ r.prior <= r.L.prior /\ r.prior <= r.R.prior
  /\ r.L # Null => ~(r.key < r.L.key)
  /\ r.R # Null => ~(r.R.key < r.key)

-----------------------------------------------------------------------------
(***************************************************************************)
(* RankedTreap: its methods.                                               *)
(***************************************************************************)
RkNewNode(k) == {RkTreapNode(k, p) : p \in Priors}

RkInit == TreeInit

RkInsert(k) == Room /\ \E n \in RkNewNode(k) : Inserted(RkInsertIn(table, n), 0, k)

\* append_dup of an rvalue is insert: it refuses a key that is there.
RkInsertDup(k) == multi /\ Room /\ \E n \in RkNewNode(k) : Become(RkInsertDupIn(table, n), 0, k)

RkSearchOrInsert(k) ==
  Room /\ \E n \in RkNewNode(k) : FoundOrInserted(RkSearchOrInsertIn(table, n), 0, k)

RkSearch(k) == Lookup(k)

RkFind(k) == Lookup(k)

RkRemove(k) == Alone /\ Removed(RkRemoveIn(table, k), 0, k)

remove_pos(i) ==
  Alone /\ i < table.count /\ Become(RemovePosIn(table, i), 0, generic_select(table, i).key)

RkMinMax == Extremes

\* The object is left empty; the program goes on with the first half in it.
split_pos(i) ==
  LET s == SplitPosIn(table, i) IN Alone /\ i < table.count /\ Halves(s[1], s[2])

split_key(k) ==
  LET s == SplitKeyIn(table, k)
  IN  Alone /\ IF generic_search(table, k) # Null THEN Answer(0) ELSE Halves(s[1], s[2])

split_key_dup(k) == LET s == SplitKeyDupIn(table, k) IN Alone /\ Halves(s[1], s[2])

\* The keys of the first tree must not be after those of the second.
exclusive_join == Joinable /\ Halves(RkExclusiveJoin(table, rest), Null)

join_dup == rest # Null /\ Halves(JoinDupIn(table, rest), Null)

select_position == Ranks

RkClear == Cleared

RkCopyOrMove == CopiedAs(RkCopyOf(table)) \/ Swapped

RkBegin == Begin

RkInorderIterator == Forward

RkDel == DeleteAt(RkRemoveIn(table, cursor.curr), 0, FALSE)

RkNext ==
  \/ \E k \in KeysInUse :
       \/ RkInsert(k) \/ RkInsertDup(k) \/ RkSearchOrInsert(k)
       \/ RkRemove(k)
       \/ split_key(k) \/ split_key_dup(k)
  \/ \E i \in 0..(MaxItems - 1) : remove_pos(i) \/ split_pos(i)
  \/ exclusive_join \/ join_dup \/ RkClear \/ RkCopyOrMove
  \/ RkBegin \/ RkInorderIterator \/ RkDel \/ End

PreorderIterator == PreorderRun

PostorderIterator == PostorderRun

for_each_preorder == Preorder(table)

for_each_postorder == Postorder(table)

\* verify() of the class, and the walks of its iterators.
RkVerified ==
  LET repeats == ~IsInjective(Inorder(table))
  IN  \A r \in EveryNode(table) \cup EveryNode(rest) :
        IF repeats \/ rest # Null THEN verify_dup(r) ELSE verify(r)

\* The iterators that walk with a stack visit what the recursions visit.
WalksAgree ==
  IsInjective(Inorder(table)) =>
    /\ PreorderIterator = for_each_preorder
    /\ PostorderIterator = for_each_postorder
=============================================================================
