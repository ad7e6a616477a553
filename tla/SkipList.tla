------------------------------ MODULE SkipList ------------------------------
(***************************************************************************)
(* skiplist.hpp.  A node is named by its key, the header by 0, and nullptr *)
(* is Nil; forward[n] is the tower of node n, from the bottom list up.     *)
(* The height of a new tower is a choice.                                  *)
(***************************************************************************)
EXTENDS SearchTree

CONSTANT MAX_LEVEL     \* bound: 32 in the code

header == 0
Nil == -1

Empty == [level |-> 1, forward |-> [n \in {header} |-> [i \in 1..MAX_LEVEL |-> Nil]]]

Init ==
  /\ table = Empty /\ rest = Null /\ num_items = 0 /\ cursor = NoCursor /\ reply = 0
  /\ multi = FALSE

\* Along the list of level i while the keys are before k.
RECURSIVE Along(_, _, _, _)
Along(t, n, i, k) ==
  LET m == t.forward[n][i] IN IF m # Nil /\ m < k THEN Along(t, m, i, k) ELSE n

\* The last node before k on each level, from the top one down.
RECURSIVE Descent(_, _, _, _)
Descent(t, n, i, k) ==
  IF i = 0 THEN <<>> ELSE LET m == Along(t, n, i, k) IN Append(Descent(t, m, i - 1, k), m)

locate_update(t, k) ==
  LET below == Descent(t, header, t.level, k)
  IN  [i \in 1..MAX_LEVEL |-> IF i <= t.level THEN below[i] ELSE header]

Succ(t, k) == t.forward[locate_update(t, k)[1]][1]

search(k) == IF Succ(table, k) = k THEN k ELSE 0

find(k) == search(k)

RECURSIVE LastOn(_, _, _)
LastOn(t, n, i) ==
  IF i = 0 THEN n
  ELSE IF t.forward[n][i] # Nil THEN LastOn(t, t.forward[n][i], i)
  ELSE LastOn(t, n, i - 1)

min_max == [min |-> table.forward[header][1], max |-> LastOn(table, header, table.level)]

-----------------------------------------------------------------------------
random_level == 1..MAX_LEVEL

InsertIn(t, k, new_level) ==
  LET update == locate_update(t, k)
      n == [i \in 1..new_level |-> t.forward[update[i]][i]]
      Linked(m) == [i \in DOMAIN t.forward[m] |->
                      IF i <= new_level /\ update[i] = m THEN k ELSE t.forward[m][i]]
  IN  [level |-> IF new_level > t.level THEN new_level ELSE t.level,
       forward |-> [m \in DOMAIN t.forward \cup {k} |-> IF m = k THEN n ELSE Linked(m)]]

\* The tower of k leaves the lists from the bottom up to its top, and the
\* level falls while the list of the header is empty.
RemoveIn(t, k) ==
  LET update == locate_update(t, k)
      first == {i \in 1..t.level : t.forward[update[i]][i] # k}
      top == IF first = {} THEN t.level ELSE (CHOOSE i \in first : \A j \in first : i <= j) - 1
      Unlinked(m) == [i \in DOMAIN t.forward[m] |->
                        IF i <= top /\ update[i] = m THEN t.forward[k][i] ELSE t.forward[m][i]]
      f == [m \in DOMAIN t.forward \ {k} |-> Unlinked(m)]
      used == {i \in 2..t.level : f[header][i] # Nil}
  IN  [level |-> IF used = {} THEN 1 ELSE CHOOSE i \in used : \A j \in used : j <= i,
       forward |-> f]

RECURSIVE Listed(_, _, _)
Listed(t, n, i) == IF n = Nil THEN <<>> ELSE <<n>> \o Listed(t, t.forward[n][i], i)

ListOf(t, i) == Listed(t, t.forward[header][i], i)

-----------------------------------------------------------------------------
insert(k) ==
  /\ Alone
  /\ IF Succ(table, k) = k THEN Answer(0)
     ELSE /\ num_items < MaxItems
          /\ \E l \in random_level : Become(InsertIn(table, k, l), num_items + 1, k)

search_or_insert(k) == IF search(k) = k THEN Alone /\ Answer(k) ELSE insert(k)

remove(k) ==
  /\ Alone
  /\ IF Succ(table, k) = k THEN Become(RemoveIn(table, k), num_items - 1, k) ELSE Answer(0)

clear == Alone /\ Become(Empty, 0, 0)

\* A copy inserts the keys anew; a moved list is left as a new one.
copy_or_move ==
  /\ Alone
  /\ LET ks == ListOf(table, 1)
     IN  \/ \E l \in [DOMAIN ks -> random_level] :
              Become(FoldLeft(LAMBDA t, i : InsertIn(t, ks[i], l[i]), Empty, [i \in DOMAIN ks |-> i]),
                     num_items, 0)
         \/ Become(Empty, 0, 0)

At(n) == Move([cursor EXCEPT !.curr = IF n = Nil THEN 0 ELSE n])

begin == Alone /\ At(table.forward[header][1])

Iterator == cursor.curr > 0 /\ At(table.forward[cursor.curr][1])

Next ==
  \/ \E k \in Keys : insert(k) \/ search_or_insert(k) \/ remove(k)
  \/ clear \/ copy_or_move
  \/ begin \/ Iterator \/ End

-----------------------------------------------------------------------------
\* Each list is a part of the one below, in order; the top one is not empty.
Verified ==
  LET f == table.forward
  IN  /\ num_items = Len(ListOf(table, 1))
      /\ ToSet(ListOf(table, 1)) = DOMAIN f \ {header}
      /\ \A i \in 1..MAX_LEVEL :
           /\ ToSet(ListOf(table, i)) = {n \in DOMAIN f \ {header} : Len(f[n]) >= i}
           /\ \A j \in 2..Len(ListOf(table, i)) : ListOf(table, i)[j - 1] < ListOf(table, i)[j]
           /\ i > table.level => f[header][i] = Nil
      /\ table.level = 1 \/ f[header][table.level] # Nil

ListBag == INSTANCE SortedBagSpec
  WITH keys <- ListOf(table, 1), others <- <<>>, at <- cursor.curr, lost <- FALSE, Repeats <- FALSE

ListAnswered ==
  /\ \A k \in Keys : search(k) = ListBag!search(k) /\ find(k) = search(k)
  /\ num_items > 0 =>
       min_max = [min |-> Head(ListOf(table, 1)), max |-> Last(ListOf(table, 1))]
=============================================================================
