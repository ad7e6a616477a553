------------------------- MODULE ExtendibleHashTable -------------------------
(***************************************************************************)
(* ExtendibleHashTable of extendiblehash.hpp: a directory of 2^global_depth*)
(* slots that refer to buckets, several slots to one bucket where its      *)
(* local depth is smaller.  A bucket is named by its place in all_buckets, *)
(* and is the set of its keys: their order cannot be seen.                 *)
(*                                                                         *)
(* One object is followed.  A bucket that was deleted stays in the model   *)
(* as long as something refers to it, so that deleting it again shows.     *)
(***************************************************************************)
EXTENDS Naturals, FiniteSetsExt, Functions, SequencesExt

CONSTANTS Keys,
          Hash,              \* Hash[k]: super_fast_hash of k
          HashBits,          \* the width of a hash value
          BUCKET_CAPACITY

\* mask(n) + 1, which is 1 << n.
Bit[n \in Nat] == IF n = 0 THEN 1 ELSE 2 * Bit[n - 1]

\* With more keys of one hash value than a bucket holds, insert would split
\* for ever.
NoHashFlood ==
  \A n \in {Hash[k] : k \in Keys} :
    /\ n < Bit[HashBits]
    /\ Cardinality({k \in Keys : Hash[k] = n}) <= BUCKET_CAPACITY

Legal == HashBits \in Nat /\ BUCKET_CAPACITY \in Nat /\ NoHashFlood

VARIABLES global_depth,
          directory,         \* directory[i]: the bucket of slot i
          all_buckets,       \* the buckets, [local_depth, keys, deleted]
          double_deleted,    \* a bucket was deleted that was deleted before
          reply              \* whether the last operation did or found something

vars == <<global_depth, directory, all_buckets, double_deleted, reply>>

Bucket(ld) == [local_depth |-> ld, keys |-> {}, deleted |-> FALSE]

NewTable == [global_depth |-> 0, directory |-> [i \in {0} |-> 1],
             all_buckets |-> <<Bucket(0)>>]

Become(t) ==
  /\ global_depth' = t.global_depth
  /\ directory' = t.directory
  /\ all_buckets' = t.all_buckets

This == [global_depth |-> global_depth, directory |-> directory,
         all_buckets |-> all_buckets]

Init ==
  /\ global_depth = 0
  /\ directory = [i \in {0} |-> 1]
  /\ all_buckets = <<Bucket(0)>>
  /\ double_deleted = FALSE
  /\ reply = "no"

-----------------------------------------------------------------------------
\* The operations on a table t, a record of the three members.
BitSet(n, pos) == (n \div Bit[pos]) % 2 = 1

find_bucket(t, k) == t.directory[Hash[k] % Bit[t.global_depth]]

\* Mutant of double_directory: every slot is doubled where it stands.
double_in_place(t) ==
  [t EXCEPT !.directory = [i \in 0..(Bit[t.global_depth + 1] - 1) |-> @[i \div 2]],
            !.global_depth = @ + 1]

double_directory(t) ==
  [t EXCEPT !.directory = [i \in 0..(Bit[t.global_depth + 1] - 1) |->
                             @[i % Bit[t.global_depth]]],
            !.global_depth = @ + 1]

\* Mutant of split_bucket: the keys are divided by the bit below.
split_by_lower_bit(s, b) ==
  LET t == IF s.all_buckets[b].local_depth = s.global_depth
           THEN double_directory(s) ELSE s
      pos == t.all_buckets[b].local_depth
      new == Len(t.all_buckets) + 1
      moving == {k \in t.all_buckets[b].keys : pos > 0 /\ BitSet(Hash[k], pos - 1)}
      left == [t.all_buckets EXCEPT ![b].local_depth = pos + 1, ![b].keys = @ \ moving]
  IN  [t EXCEPT
         !.directory = [i \in DOMAIN @ |->
                          IF @[i] = b /\ BitSet(i, pos) THEN new ELSE @[i]],
         !.all_buckets = Append(left, [Bucket(pos + 1) EXCEPT !.keys = moving])]

split_bucket(s, b) ==
  LET t == IF s.all_buckets[b].local_depth = s.global_depth
           THEN double_directory(s) ELSE s
      pos == t.all_buckets[b].local_depth
      new == Len(t.all_buckets) + 1
      moving == {k \in t.all_buckets[b].keys : BitSet(Hash[k], pos)}
      left == [t.all_buckets EXCEPT ![b].local_depth = pos + 1, ![b].keys = @ \ moving]
  IN  [t EXCEPT
         !.directory = [i \in DOMAIN @ |->
                          IF @[i] = b /\ BitSet(i, pos) THEN new ELSE @[i]],
         !.all_buckets = Append(left, [Bucket(pos + 1) EXCEPT !.keys = moving])]

Has(t, k) == k \in t.all_buckets[find_bucket(t, k)].keys

Full(t, b) == Cardinality(t.all_buckets[b].keys) >= BUCKET_CAPACITY

\* insert, for a key that is not there: split until its bucket has room.
Inserted(t, k) ==
  LET after[n \in 0..HashBits] ==
        IF n = 0 THEN t
        ELSE LET u == after[n - 1]
                 b == find_bucket(u, k)
             IN  IF Full(u, b) THEN split_bucket(u, b) ELSE u
      room == after[HashBits]
  IN  [room EXCEPT !.all_buckets[find_bucket(room, k)].keys = @ \cup {k}]

\* The table that the copy constructor builds from one with the keys ks:
\* the order of the insertions does not show in it.
CopyOf(ks) ==
  LET keys == SetToSeq(ks)
      built[n \in 0..Len(keys)] ==
        IF n = 0 THEN NewTable ELSE Inserted(built[n - 1], keys[n])
  IN  built[Len(keys)]

\* destroy_buckets deletes what all_buckets holds.
Deleted(t) == [t EXCEPT !.all_buckets = [i \in DOMAIN @ |-> [@[i] EXCEPT !.deleted = TRUE]]]

DeletedBefore(t) == \E i \in DOMAIN t.all_buckets : t.all_buckets[i].deleted

KeysOf(t) == UNION {t.all_buckets[i].keys : i \in DOMAIN t.all_buckets}

-----------------------------------------------------------------------------
insert(k) ==
  /\ \/ Has(This, k) /\ Become(This) /\ reply' = "no"
     \/ ~Has(This, k) /\ Become(Inserted(This, k)) /\ reply' = "yes"
  /\ UNCHANGED double_deleted

search(k) ==
  /\ reply' = IF Has(This, k) THEN "yes" ELSE "no"
  /\ Become(This)
  /\ UNCHANGED double_deleted

remove(k) ==
  /\ reply' = IF Has(This, k) THEN "yes" ELSE "no"
  /\ Become([This EXCEPT !.all_buckets[find_bucket(This, k)].keys = @ \ {k}])
  /\ UNCHANGED double_deleted

\* destroy_buckets, then all three members start again.
clear ==
  /\ Become(NewTable)
  /\ double_deleted' = DeletedBefore(This)
  /\ reply' = "yes"

\* The copy takes the place of the original, which is destroyed.
copy ==
  /\ Become(CopyOf(KeysOf(This)))
  /\ double_deleted' = DeletedBefore(This)
  /\ reply' = "yes"

\* A new object is swapped with this one.
move_away ==
  /\ Become(NewTable)
  /\ UNCHANGED double_deleted
  /\ reply' = "yes"

\* operator=(const&): destroy_buckets, swap with the copy, and the
\* destructor of what is now in the copy's place.
assign(ks) ==
  /\ Become(CopyOf(ks))
  /\ double_deleted' = (DeletedBefore(This) \/ DeletedBefore(Deleted(This)))
  /\ reply' = "yes"

\* What comes after a second deletion is undefined: nothing is modelled.
undefined == double_deleted /\ UNCHANGED vars

Next ==
  \/ /\ ~double_deleted
     /\ \/ \E k \in Keys : insert(k) \/ search(k) \/ remove(k)
        \/ \E ks \in SUBSET Keys : assign(ks)
        \/ clear \/ copy \/ move_away
  \/ undefined

Spec == Init /\ [][Next]_vars

-----------------------------------------------------------------------------
(***************************************************************************)
(* Through splits and doublings, a bucket of local depth d is referred to  *)
(* by exactly the slots that agree with its keys in their low d bits, and  *)
(* no bucket overflows: search looks into the right bucket, and every      *)
(* bucket of all_buckets can be reached.                                   *)
(***************************************************************************)
DirectoryAgrees ==
  /\ DOMAIN directory = 0..(Bit[global_depth] - 1)
  /\ \A b \in DOMAIN all_buckets :
       LET d == all_buckets[b].local_depth
           slots == {i \in DOMAIN directory : directory[i] = b}
       IN  /\ d <= global_depth
           /\ Cardinality(slots) = Bit[global_depth - d]
           /\ Cardinality(all_buckets[b].keys) <= BUCKET_CAPACITY
           /\ \A i \in slots, j \in slots : i % Bit[d] = j % Bit[d]
           /\ \A i \in slots, k \in all_buckets[b].keys : Hash[k] % Bit[d] = i % Bit[d]

\* The table as a bag of keys.
Contents ==
  [k \in Keys |->
     Cardinality({b \in DOMAIN all_buckets : k \in all_buckets[b].keys})]

AsTable == INSTANCE TableSpec WITH bag <- Contents
=============================================================================
