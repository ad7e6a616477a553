----------------------- MODULE OpenAddressingHashTable -----------------------
(***************************************************************************)
(* OpenAddressingHashTable of openhash.hpp with its three probing          *)
(* policies: keys live in the slots of the array, a removal leaves a       *)
(* tombstone (DELETED), and the table doubles, dropping its tombstones,    *)
(* when half of its slots are not EMPTY.                                   *)
(*                                                                         *)
(* One object is followed; moving its contents away leaves a new table,    *)
(* and a copy is slot for slot its original.                               *)
(***************************************************************************)
EXTENDS Naturals, SequencesExt

CONSTANTS Keys,
          Hash,        \* Hash[k]: the value of hash_fct
          EMPTY, DELETED,
          DFT_SIZE,    \* capacity of a table by default
          Sizes,       \* the capacities a table is constructed with
          MaxCap       \* bound: the capacity the table may grow to

\* The numbers that have no odd divisor but 1.
PowerOfTwo(n) ==
  /\ n \in Nat \ {0}
  /\ \A d \in 1..n, e \in 1..n : d * e = n => d = 1 \/ d % 2 = 0

\* next_pow2 makes the capacities powers of two; secondary_hash divides by
\* capacity / 2, so that a table of one slot must not be used.
SizesArePowers ==
  /\ DFT_SIZE \in Sizes
  /\ \A n \in Sizes : PowerOfTwo(n) /\ n # 1

\* An Entry is EMPTY, DELETED or OCCUPIED by a key.
KeysApart == EMPTY # DELETED /\ {EMPTY, DELETED} \cap Keys = {}

Legal == SizesArePowers /\ KeysApart /\ Hash \in [Keys -> Nat]

VARIABLES table,           \* table[i]: a key, EMPTY or DELETED
          num_items,
          num_tombstones,
          probing,         \* the Probing policy of the class
          reply            \* whether the last operation did or found something

vars == <<table, num_items, num_tombstones, probing, reply>>

Policies == {"LinearProbing", "QuadraticProbing", "DoubleHashing"}

make_empty_table(cap) == [i \in 0..(cap - 1) |-> EMPTY]

Init ==
  /\ \E cap \in Sizes : table = make_empty_table(cap)
  /\ num_items = 0
  /\ num_tombstones = 0
  /\ probing \in Policies
  /\ reply = "no"

-----------------------------------------------------------------------------
CapOf(t) == Cardinality(DOMAIN t)

secondary_hash(k, cap) == 2 * ((Hash[k] \div cap) % (cap \div 2)) + 1

\* Mutant of probe: the quadratic offset is i * i.
probe_squares(k, i, cap) ==
  (Hash[k] + CASE probing = "LinearProbing" -> i
               [] probing = "QuadraticProbing" -> i * i
               [] probing = "DoubleHashing" -> i * secondary_hash(k, cap)) % cap

\* The slot examined by the i-th probe for key k.
probe(k, i, cap) ==
  (Hash[k] + CASE probing = "LinearProbing" -> i
               [] probing = "QuadraticProbing" -> (i * (i + 1)) \div 2
               [] probing = "DoubleHashing" -> i * secondary_hash(k, cap)) % cap

\* The probes for k that come before the first EMPTY slot, and that probe.
Passed(t, k) ==
  {i \in 0..(CapOf(t) - 1) :
     \A j \in 0..i : t[probe(k, j, CapOf(t))] # EMPTY}

Found(k) == \E i \in Passed(table, k) : table[probe(k, i, CapOf(table))] = k

\* find_target_slot: the first tombstone on the way, or the EMPTY slot that
\* ends it; the capacity, never a slot, if there is no EMPTY slot to end it.
find_target_slot(t, k) ==
  LET cap == CapOf(t)
      tombs == {i \in Passed(t, k) : t[probe(k, i, cap)] = DELETED}
      end == Cardinality(Passed(t, k))
  IN  IF end = cap THEN cap
      ELSE probe(k, IF tombs = {} THEN end ELSE Min(tombs), cap)

Occupied(t) == {i \in DOMAIN t : t[i] \in Keys}

\* What rehash does with slot i of the old table, when the new one is t.
Moved(t, i) ==
  IF table[i] \in Keys THEN [t EXCEPT ![find_target_slot(t, table[i])] = table[i]] ELSE t

\* rehash re-inserts the keys in the order of the slots.
rehash(cap) ==
  FoldLeft(LAMBDA t, i : Moved(t, i - 1), make_empty_table(cap), [i \in 1..CapOf(table) |-> i])

\* alpha() >= upper_alpha = 1/2: tombstones count as items.
MustGrow == 2 * (num_items + num_tombstones) >= CapOf(table)

\* Mutant of raw_insert: a tombstone that is used again stays counted.
raw_insert_counted(t, tombstones, k) ==
  LET target == find_target_slot(t, k)
  IN  /\ target # CapOf(t)
      /\ table' = [t EXCEPT ![target] = k]
      /\ num_items' = num_items + 1
      /\ num_tombstones' = tombstones
      /\ reply' = "yes"

\* The insertion of k into t, a table with that many tombstones.  Without an
\* EMPTY slot find_target_slot throws logic_error, and only the rehash stays.
raw_insert(t, tombstones, k) ==
  LET target == find_target_slot(t, k)
  IN  \/ /\ target = CapOf(t)
         /\ table' = t
         /\ num_items' = num_items
         /\ num_tombstones' = tombstones
         /\ reply' = "logic_error"
      \/ /\ target # CapOf(t)
         /\ table' = [t EXCEPT ![target] = k]
         /\ num_items' = num_items + 1
         /\ num_tombstones' = tombstones - (IF t[target] = DELETED THEN 1 ELSE 0)
         /\ reply' = "yes"

\* grow_if_needed and raw_insert.
Add(k) ==
  \/ ~MustGrow /\ raw_insert(table, num_tombstones, k)
  \/ /\ MustGrow
     /\ 2 * CapOf(table) <= MaxCap
     /\ raw_insert(rehash(2 * CapOf(table)), 0, k)

Answer(b) == reply' = b /\ UNCHANGED <<table, num_items, num_tombstones>>

insert(k) == IF Found(k) THEN Answer("no") ELSE Add(k)

search_or_insert(k) == IF Found(k) THEN Answer("yes") ELSE Add(k)

search(k) == Answer(IF Found(k) THEN "yes" ELSE "no")

\* Mutant of remove: the slot becomes EMPTY again.
remove_empties(k) ==
  \/ ~Found(k) /\ Answer("no")
  \/ /\ Found(k)
     /\ table' = [i \in DOMAIN table |-> IF table[i] = k THEN EMPTY ELSE table[i]]
     /\ num_items' = num_items - 1
     /\ num_tombstones' = num_tombstones
     /\ reply' = "yes"

remove(k) ==
  \/ ~Found(k) /\ Answer("no")
  \/ \E i \in Passed(table, k) :
       LET slot == probe(k, i, CapOf(table))
       IN  /\ table[slot] = k
           /\ table' = [table EXCEPT ![slot] = DELETED]
           /\ num_items' = num_items - 1
           /\ num_tombstones' = num_tombstones + 1
           /\ reply' = "yes"

clear ==
  /\ table' = make_empty_table(CapOf(table))
  /\ num_items' = 0
  /\ num_tombstones' = 0
  /\ reply' = "yes"

move_away ==
  /\ table' = make_empty_table(DFT_SIZE)
  /\ num_items' = 0
  /\ num_tombstones' = 0
  /\ reply' = "yes"

Next ==
  /\ probing' = probing
  /\ \/ \E k \in Keys : insert(k) \/ search_or_insert(k) \/ search(k) \/ remove(k)
     \/ clear \/ move_away

Spec == Init /\ [][Next]_vars

-----------------------------------------------------------------------------
(***************************************************************************)
(* What verify() tests: the counters agree with the slots, so that the     *)
(* load factor that decides about growth is the true one.                  *)
(***************************************************************************)
CountersAgree ==
  /\ num_items = Cardinality(Occupied(table))
  /\ num_tombstones = Cardinality({i \in DOMAIN table : table[i] = DELETED})

(***************************************************************************)
(* The policies visit every slot: each key has a probe that reaches an     *)
(* EMPTY slot, so that no search runs through the whole table and the      *)
(* "load factor invariant violated" of find_target_slot is not thrown.     *)
(***************************************************************************)
ProbesEnd == \A k \in Keys : find_target_slot(table, k) # CapOf(table)

\* The table as a bag of keys.
Contents == [k \in Keys |-> Cardinality({i \in DOMAIN table : table[i] = k})]

AsTable == INSTANCE TableSpec WITH bag <- Contents
=============================================================================
