---------------------- MODULE SeparateChainingHashTable ----------------------
(***************************************************************************)
(* SeparateChainingHashTable of chainedhash.hpp: an array of lists that    *)
(* doubles when it is three quarters full and halves when it is a quarter  *)
(* full.  The order of a list can only be seen by an iterator, so a list   *)
(* is the bag of its keys.                                                 *)
(*                                                                         *)
(* One object is followed; moving its contents away leaves a new table.    *)
(* A copy has the same lists as its original, so copying is no step.       *)
(***************************************************************************)
EXTENDS Naturals, FiniteSetsExt

CONSTANTS Keys,
          Hash,        \* Hash[k]: the value of hash_fct
          DFT_SIZE,    \* capacity of a table by default, and lower limit
          Sizes,       \* the capacities a table is constructed with
          MaxItems     \* bound: items in the table

SizesPositive == DFT_SIZE \in Sizes /\ Sizes \subseteq Nat \ {0}
KeysHashed == IsFiniteSet(Keys) /\ Hash \in [Keys -> Nat]
Legal == SizesPositive /\ KeysHashed

VARIABLES table,       \* table[i][k]: how often k is in list i
          num_items,
          reply        \* whether the last operation did or found something

vars == <<table, num_items, reply>>

NoKeys == [k \in Keys |-> 0]
EmptyTable(sz) == [i \in 0..(sz - 1) |-> NoKeys]

capacity == Cardinality(DOMAIN table)
h(k, cap) == Hash[k] % cap

Init ==
  /\ \E sz \in Sizes : table = EmptyTable(sz)
  /\ num_items = 0
  /\ reply = "no"

-----------------------------------------------------------------------------
\* alpha() against upper_alpha = 3/4 and lower_alpha = 1/4.
BelowUpper == 4 * num_items < 3 * capacity
AboveLower(n) == 4 * n > capacity

Has(k) == table[h(k, capacity)][k] > 0

\* Mutant of resize: the items stay in the list with their old number.
resize_unhashed(t, sz) ==
  [i \in 0..(sz - 1) |->
     [k \in Keys |-> IF i \in DOMAIN t /\ t[i][k] > 0 THEN 1 ELSE 0]]

\* resize moves every item with append, which refuses a key that is already
\* there.  The new table is below upper_alpha until the last of them.
resize(t, sz) ==
  [i \in 0..(sz - 1) |->
     [k \in Keys |->
        IF h(k, sz) = i /\ \E j \in DOMAIN t : t[j][k] > 0 THEN 1 ELSE 0]]

\* The items of a table.
Size(t) ==
  MapThenSumSet(LAMBDA i : MapThenSumSet(LAMBDA k : t[i][k], Keys), DOMAIN t)

\* An insertion that found room, or made it.
Add(k) ==
  LET t == IF BelowUpper THEN table ELSE resize(table, 2 * capacity)
      i == h(k, Cardinality(DOMAIN t))
  IN  /\ num_items < MaxItems
      /\ table' = [t EXCEPT ![i][k] = @ + 1]
      /\ num_items' = 1 + (IF BelowUpper THEN num_items ELSE Size(t))
      /\ reply' = "yes"

Answer(b) == reply' = b /\ UNCHANGED <<table, num_items>>

insert(k) == IF Has(k) THEN Answer("no") ELSE Add(k)

search_or_insert(k) == IF Has(k) THEN Answer("yes") ELSE Add(k)

insert_dup(k) == Add(k)

search(k) == Answer(IF Has(k) THEN "yes" ELSE "no")

Removed(k) == [table EXCEPT ![h(k, capacity)][k] = @ - 1]

remove(k) ==
  \/ ~Has(k) /\ Answer("no")
  \/ /\ Has(k)
     /\ reply' = "yes"
     /\ IF capacity = DFT_SIZE \/ AboveLower(num_items - 1)
        THEN /\ table' = Removed(k)
             /\ num_items' = num_items - 1
        ELSE /\ table' = resize(Removed(k), Max({DFT_SIZE, capacity \div 2}))
             /\ num_items' = Size(table')

clear ==
  /\ table' = EmptyTable(capacity)
  /\ num_items' = 0
  /\ reply' = "yes"

move_away ==
  /\ table' = EmptyTable(DFT_SIZE)
  /\ num_items' = 0
  /\ reply' = "yes"

Next ==
  \/ \E k \in Keys :
       insert(k) \/ insert_dup(k) \/ search_or_insert(k) \/ search(k) \/ remove(k)
  \/ clear \/ move_away

Spec == Init /\ [][Next]_vars

-----------------------------------------------------------------------------
(***************************************************************************)
(* After any resize every key is in the list where search looks for it,    *)
(* and num_items counts the items that are really there.                   *)
(***************************************************************************)
ListsInOrder ==
  /\ num_items = Size(table)
  /\ \A i \in DOMAIN table, k \in Keys : table[i][k] > 0 => i = h(k, capacity)

\* The table as a bag of keys.
Contents == [k \in Keys |-> MapThenSumSet(LAMBDA i : table[i][k], DOMAIN table)]

AsTable == INSTANCE TableSpec WITH bag <- Contents
=============================================================================
