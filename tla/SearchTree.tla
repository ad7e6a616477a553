----------------------------- MODULE SearchTree -----------------------------
(***************************************************************************)
(* What the binary search trees of the library share: the nodes and the    *)
(* generic functions of nodesdef.hpp, the members of a tree object, and    *)
(* the in-order iterator, whose text every tree class repeats.             *)
(*                                                                         *)
(* A subtree is the record of its root; Null is the sentinel.  Two trees   *)
(* never share a node.  A node is named by its key where the iterator      *)
(* keeps a pointer to it: while there is an iterator, no key is repeated.  *)
(***************************************************************************)
EXTENDS Integers, Sequences, SequencesExt

CONSTANTS Keys,        \* positive integers
          MaxItems,    \* bound: the keys in one tree
          BagKeys      \* bound: the largest key of a tree that may repeat keys

VARIABLES table,       \* the tree
          rest,        \* the second tree that a split returns
          num_items,   \* the counter of the classes without COUNT
          cursor,      \* the iterator
          reply,       \* what the last operation returned
          multi        \* whether the program uses insert_dup: chosen at the start

treeVars == <<table, rest, num_items, cursor, reply, multi>>

\* The priority of the sentinel is the largest there is.
Null == [count |-> 0, height |-> -1, color |-> "BLACK", prior |-> 1000]

NoCursor == [curr |-> -1, stack |-> <<>>, root |-> 0, dangling |-> FALSE]

TreeInit ==
  /\ table = Null /\ rest = Null /\ num_items = 0 /\ cursor = NoCursor /\ reply = 0
  /\ multi \in BOOLEAN

-----------------------------------------------------------------------------
(***************************************************************************)
(* nodesdef.hpp                                                            *)
(***************************************************************************)
generic_rotate_left(r) == [r.R EXCEPT !.L = [r EXCEPT !.R = r.R.L]]

generic_rotate_right(r) == [r.L EXCEPT !.R = [r EXCEPT !.L = r.L.R]]

RECURSIVE generic_select(_, _), generic_position(_, _), generic_search(_, _)
generic_select(r, i) ==
  IF r.L.count = i THEN r
  ELSE IF i < r.L.count THEN generic_select(r.L, i)
  ELSE generic_select(r.R, i - r.L.count - 1)

\* A bug: the smaller keys of the left subtree are not counted.
position_below(r, k) ==
  IF r = Null THEN -1
  ELSE IF k < r.key THEN generic_position(r.L, k)
  ELSE IF r.key < k THEN generic_position(r.R, k)
  ELSE r.L.count

generic_position(r, k) ==
  IF r = Null THEN -1
  ELSE IF k < r.key THEN generic_position(r.L, k)
  ELSE IF r.key < k
       THEN LET p == generic_position(r.R, k) IN IF p = -1 THEN p ELSE p + r.L.count + 1
  ELSE r.L.count

\* generic_bst_search_by, and the search of every class.
generic_search(r, k) ==
  IF r = Null \/ r.key = k THEN r
  ELSE generic_search(IF k < r.key THEN r.L ELSE r.R, k)

RECURSIVE MinOf(_), MaxOf(_)
MinOf(r) == IF r.L = Null THEN r ELSE MinOf(r.L)
MaxOf(r) == IF r.R = Null THEN r ELSE MaxOf(r.R)

\* preorder_rec, inorder_rec and postorder_rec of the classes.
RECURSIVE Preorder(_), Inorder(_), Postorder(_)
Preorder(r) == IF r = Null THEN <<>> ELSE <<r.key>> \o Preorder(r.L) \o Preorder(r.R)
Inorder(r) == IF r = Null THEN <<>> ELSE Inorder(r.L) \o <<r.key>> \o Inorder(r.R)
Postorder(r) == IF r = Null THEN <<>> ELSE Postorder(r.L) \o Postorder(r.R) \o <<r.key>>

RECURSIVE EveryNode(_)
EveryNode(r) == IF r = Null THEN {} ELSE {r} \cup EveryNode(r.L) \cup EveryNode(r.R)

Counted(r) == [r EXCEPT !.count = r.L.count + r.R.count + 1]

-----------------------------------------------------------------------------
(***************************************************************************)
(* The object.  Bounds: a tree that was split is first joined, cleared or  *)
(* moved away; a tree with an iterator is not changed by others.           *)
(***************************************************************************)
KeysInUse == {k \in Keys : multi => k <= BagKeys}

Alone == rest = Null /\ cursor = NoCursor
Room == Alone /\ Len(Inorder(table)) < MaxItems

\* The call leaves t, counts n items, and returns a.
Become(t, n, a) ==
  table' = t /\ num_items' = n /\ reply' = a /\ UNCHANGED <<rest, cursor, multi>>

Answer(a) == Become(table, num_items, a)

\* The answers of insert, remove and search_or_insert, which leave t.
Inserted(t, n, k) == IF t = table THEN Answer(0) ELSE Become(t, n, k)
Removed(t, n, k) == Inserted(t, n, k)
FoundOrInserted(t, n, k) == IF t = table THEN Answer(k) ELSE Become(t, n, k)

KeyOrNone(r) == IF r = Null THEN 0 ELSE r.key

\* Questions change nothing; their values are the answers.  find() throws where search() answers nullptr: both are 0 here.
Lookup(k) == KeyOrNone(generic_search(table, k))

Extremes == [min |-> MinOf(table).key, max |-> MaxOf(table).key]

Ranks == [select |-> [i \in 0..(table.count - 1) |-> generic_select(table, i).key],
          position |-> [k \in Keys |-> generic_position(table, k)]]

Cleared == cursor = NoCursor /\ table # Null /\ Become(Null, 0, 0)

\* The object moved into another one, which leaves it new.
MovedAway == Alone /\ table # Null /\ Become(Null, 0, 0)

\* Copied, and the copy is used from here on.
CopiedAs(t) == Alone /\ table # Null /\ Become(t, num_items, 0)

Halves(ts, tg) ==
  table' = ts /\ rest' = tg /\ reply' = 0 /\ UNCHANGED <<num_items, cursor, multi>>

Swapped == cursor = NoCursor /\ rest # Null /\ Halves(rest, table)

Joinable ==
  rest # Null /\ \A a \in ToSet(Inorder(table)), b \in ToSet(Inorder(rest)) : a <= b

-----------------------------------------------------------------------------
(***************************************************************************)
(* The in-order iterator: the current node, the stack of the ancestors     *)
(* whose left subtree it was in when it came by, the root it was made      *)
(* with, and whether the current node was freed.  What is read of a freed  *)
(* node is not modelled: the program then only resets or ends.             *)
(***************************************************************************)
RECURSIVE SearchMin(_, _)
SearchMin(r, c) ==
  IF r.L = Null THEN [c EXCEPT !.curr = r.key]
  ELSE SearchMin(r.L, [c EXCEPT !.stack = Append(@, r.key)])

\* init() and reset_first(), from the root t.
Started(t) ==
  IF t = Null THEN [NoCursor EXCEPT !.curr = 0]
  ELSE SearchMin(t, [NoCursor EXCEPT !.root = t.key])

Advanced(t, c) ==
  LET right == generic_search(t, c.curr).R
  IN  IF right # Null THEN SearchMin(right, c)
      ELSE IF c.stack # <<>> THEN [c EXCEPT !.curr = Last(c.stack), !.stack = Front(@)]
      ELSE [c EXCEPT !.curr = 0]

Move(c) == cursor' = c /\ reply' = 0 /\ UNCHANGED <<table, rest, num_items, multi>>

Begin == Alone /\ IsInjective(Inorder(table)) /\ Move(Started(table))

Usable == cursor.curr > 0 /\ ~cursor.dangling

\* A node on the stack may have been freed too.
Freed(t, c) == c.curr > 0 /\ generic_search(t, c.curr) = Null

\* reset_first and reset_last start from the node that was the root.
Resets ==
  LET r == generic_search(table, cursor.root)
  IN  /\ cursor.curr >= 0 /\ r # Null
      /\ \/ Move(Started(r))
         \/ Move([NoCursor EXCEPT !.curr = MaxOf(r).key, !.root = cursor.root])

Forward ==
  \/ LET c == Advanced(table, cursor)
     IN  Usable /\ Move([c EXCEPT !.dangling = Freed(table, c)])
  \/ Resets

\* The removals that copy the key of the successor into the node of k, and
\* free the successor's node.
TwoChildren(k) ==
  LET r == generic_search(table, k) IN r.L # Null /\ r.R # Null

\* next(), then the removal, which leaves t and n items; frees says whether
\* it frees the node that the iterator moved to: the node of the deleted key
\* then goes by the next key.
DeleteAt(t, n, frees) ==
  /\ Usable
  /\ cursor' = LET c == Advanced(table, cursor)
               IN  [c EXCEPT !.dangling = frees \/ Freed(t, c),
                             !.root = CASE ~frees -> @
                                        [] @ = cursor.curr -> c.curr
                                        [] @ = c.curr -> 0
                                        [] OTHER -> @]
  /\ table' = t
  /\ num_items' = n
  /\ reply' = cursor.curr
  /\ UNCHANGED <<rest, multi>>

End == cursor.curr >= 0 /\ cursor' = NoCursor /\ UNCHANGED <<table, rest, num_items, reply, multi>>

-----------------------------------------------------------------------------
(***************************************************************************)
(* The pre-order and post-order iterators, run from a root to the end.     *)
(* Their nodes are told apart by value: only where no key is repeated.     *)
(***************************************************************************)
RECURSIVE PreorderFrom(_, _), PreorderPop(_)
PreorderFrom(curr, stack) ==
  IF curr = Null THEN <<>>
  ELSE <<curr.key>> \o IF curr.L # Null THEN PreorderFrom(curr.L, Append(stack, curr))
                       ELSE PreorderPop(Append(stack, curr))
PreorderPop(stack) ==
  IF stack = <<>> THEN <<>>
  ELSE IF Last(stack).R # Null THEN PreorderFrom(Last(stack).R, Front(stack))
  ELSE PreorderPop(Front(stack))

RECURSIVE PostorderFirst(_, _), PostorderFrom(_, _)
PostorderFirst(r, stack) ==
  IF r.L # Null THEN PostorderFirst(r.L, Append(stack, r))
  ELSE IF r.R # Null THEN PostorderFirst(r.R, Append(stack, r))
  ELSE PostorderFrom(r, stack)
PostorderFrom(curr, stack) ==
  <<curr.key>> \o
    IF stack = <<>> THEN <<>>
    ELSE IF Last(stack).R \in {curr, Null} THEN PostorderFrom(Last(stack), Front(stack))
    ELSE PostorderFirst(Last(stack).R, stack)

PreorderRun == PreorderFrom(table, <<>>)
PostorderRun == IF table = Null THEN <<>> ELSE PostorderFirst(table, <<>>)

-----------------------------------------------------------------------------
\* The trees as bags in order.  Repeats is TRUE for RandomizedTree.
AsBag(Repeats) == INSTANCE SortedBagSpec
  WITH keys <- Inorder(table), others <- Inorder(rest), at <- cursor.curr, lost <- FALSE

\* The iterator's stack as the tree now has it.
RECURSIVE WayUp(_, _)
WayUp(r, k) ==
  IF k = r.key THEN <<>>
  ELSE IF k < r.key THEN <<r.key>> \o WayUp(r.L, k)
  ELSE WayUp(r.R, k)

\* The node it is at, or its root, is not what it was when it came by.
Lost ==
  \/ cursor.dangling
  \/ cursor.curr > 0 /\ cursor.stack # WayUp(table, cursor.curr)
  \/ cursor.curr >= 0 /\ table # Null /\ cursor.root # table.key

\* The classes whose removal rotates: a del() may lose the iterator.
AsRotatedBag == INSTANCE SortedBagSpec
  WITH keys <- Inorder(table), others <- Inorder(rest), at <- cursor.curr, lost <- Lost,
       Repeats <- FALSE

\* The questions are answered from the keys in order.
Answered ==
  LET bag(k) == AsBag(TRUE)!search(k)
      ks == Inorder(table)
  IN  /\ \A k \in Keys : Lookup(k) = bag(k)
      /\ ks # <<>> => Extremes = [min |-> Head(ks), max |-> Last(ks)]

RanksAnswered ==
  /\ \A i \in DOMAIN Ranks.select : Ranks.select[i] = AsBag(TRUE)!select(i)
  /\ \A k \in Keys : Ranks.position[k] \in AsBag(TRUE)!position(k)
=============================================================================
