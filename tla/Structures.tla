----------------------------- MODULE Structures -----------------------------
(***************************************************************************)
(* The structures over arrays and pointers, buffers, caches, hash tables   *)
(* and the forests of union-find, in one specification: a behaviour        *)
(* follows one object of one kind, or in the caches all of them.  The      *)
(* variables of the other kinds are 0.                                     *)
(***************************************************************************)
EXTENDS Integers, Sequences

CONSTANTS Kinds,                                              \* what is followed
          Items, Raw, Garbage, MIN_SIZE, WordSize, MaxItems, CopyEmpty,
          Caches, CacheKeys, Values, Nodes, None, NoValue, Caps,
          Keys, Hash, HashBits, DFT_SIZE, EMPTY, DELETED,     \* of the tables
          ChainedSizes, OpenSizes, MaxCap, BUCKET_CAPACITY,
          Members, Rooms                                      \* of the forests

VARIABLES kind,
          cap, num_items, f, r, array, out,
          heap, cache, moved, reply,
          table, num_tombstones, probing,
          global_depth, directory, all_buckets, double_deleted,
          forest

bufferVars == <<cap, f, r, array, out>>
cacheVars == <<heap, cache, moved>>
tableVars == <<table, num_tombstones, probing,
               global_depth, directory, all_buckets, double_deleted>>
vars == <<kind, bufferVars, cacheVars, tableVars, num_items, reply, forest>>

\* The queues are the same buffers with other operations.
Deque == INSTANCE DynDeque
FDeque == INSTANCE FixedDeque WITH CAP <- MIN_SIZE
Cache == INSTANCE LRUCache WITH Keys <- CacheKeys
Chained == INSTANCE SeparateChainingHashTable WITH Sizes <- ChainedSizes
Open == INSTANCE OpenAddressingHashTable WITH Sizes <- OpenSizes
Ext == INSTANCE ExtendibleHashTable
Union == INSTANCE UnionFind

ASSUME BuffersAreLegal == Deque!Legal /\ FDeque!Legal
ASSUME CachesAreLegal == Cache!Legal
ASSUME TablesAreLegal == Chained!Legal /\ Open!Legal /\ Ext!Legal
ASSUME ForestsAreLegal == Union!Legal

Fixed == {"FixedDeque", "FixedQueue"}
Buffers == {"DynDeque", "DynQueue"} \cup Fixed
Tables == {"chained", "open", "extendible"}
Forests == {"DisjointSet", "TRelation"}
ArrayKinds == Buffers \cup {"LRUCache"} \cup Tables \cup Forests

-----------------------------------------------------------------------------
BuffersInit ==
  /\ kind \in Fixed => FDeque!Init /\ cap = MIN_SIZE
  /\ kind \in Buffers \ Fixed => Deque!Init
  /\ kind \notin Buffers => cap = 0 /\ f = 0 /\ r = 0 /\ array = 0 /\ out = 0

CachesInit == IF kind = "LRUCache" THEN Cache!Init ELSE heap = 0 /\ cache = 0 /\ moved = 0

TablesInit ==
  /\ kind = "chained" => Chained!Init
  /\ kind = "open" => Open!Init
  /\ kind = "extendible" => Ext!Init
  /\ kind \notin {"chained", "open"} => table = 0
  /\ kind # "open" => num_tombstones = 0 /\ probing = 0
  /\ kind # "extendible" =>
       global_depth = 0 /\ directory = 0 /\ all_buckets = 0 /\ double_deleted = 0

ForestsInit ==
  /\ kind = "DisjointSet" => Union!Init
  /\ kind = "TRelation" => Union!TrInit
  /\ kind \notin Forests => forest = 0

\* Every variable of the module, for any kind.
ArraysInit ==
  /\ BuffersInit /\ CachesInit /\ TablesInit /\ ForestsInit
  /\ kind \notin Buffers \cup {"chained", "open"} => num_items = 0
  /\ kind \notin Tables \cup {"LRUCache"} => reply = 0

Init == kind \in Kinds \cap ArrayKinds /\ ArraysInit

Still(kinds, these) == IF kind \in kinds THEN TRUE ELSE UNCHANGED these

Next ==
  /\ UNCHANGED kind
  /\ CASE kind = "DynDeque" -> Deque!Next
       [] kind = "DynQueue" -> Deque!QueueNext
       [] kind = "FixedDeque" -> FDeque!Next /\ UNCHANGED cap
       [] kind = "FixedQueue" -> FDeque!QueueNext /\ UNCHANGED cap
       [] kind = "LRUCache" -> Cache!Next
       [] kind = "chained" -> Chained!Next
       [] kind = "open" -> Open!Next
       [] kind = "extendible" -> Ext!Next
       [] kind = "DisjointSet" -> Union!Next
       [] kind = "TRelation" -> Union!TrNext
  /\ Still(Buffers, bufferVars) /\ Still({"LRUCache"}, cacheVars)
  /\ Still({"chained", "open"}, table) /\ Still({"open"}, <<num_tombstones, probing>>)
  /\ Still({"extendible"}, <<global_depth, directory, all_buckets, double_deleted>>)
  /\ Still(Buffers \cup {"chained", "open"}, num_items)
  /\ Still(Tables \cup {"LRUCache"}, reply) /\ Still(Forests, forest)

Spec == Init /\ [][Next]_vars

-----------------------------------------------------------------------------
(***************************************************************************)
(* The members of the buffers and caches have the types of their           *)
(* declarations.                                                           *)
(***************************************************************************)
TypeOK ==
  /\ kind \in Buffers \ Fixed => Deque!TypeOK
  /\ kind = "LRUCache" => Cache!TypeOK

\* LiveRange, for the buffers that construct and destroy: an item is alive in exactly
\* the slots from f to r.
DynLiveRange == kind \in Buffers \ Fixed => Deque!LiveRange

(***************************************************************************)
(* The buffers that grow, whatever was pushed, popped and copied: those    *)
(* slots are alive, no other, and the next push finds a raw one (RoomLeft).*)
(***************************************************************************)
DynSlotsRight == DynLiveRange /\ (kind \in Buffers \ Fixed => Deque!RoomLeft)

(***************************************************************************)
(* All four kinds of buffer are sequences: bounded ones that refuse a push *)
(* when they hold CAP items, or unbounded ones; the queues use only two of *)
(* the four ends.                                                          *)
(***************************************************************************)
BuffersAreDeques ==
  [][/\ kind \in Buffers \ Fixed => [Deque!AsDeque!Next]_(Deque!AsDeque!vars)
     /\ kind \in Fixed => [FDeque!AsDeque!Next]_(FDeque!AsDeque!vars)]_vars

(***************************************************************************)
(* LRUCache: the index leads from every key to its node, and the list has  *)
(* the same nodes, linked both ways.                                       *)
(***************************************************************************)
ListAndIndexAgree == kind = "LRUCache" => Cache!ListAndIndexAgree

\* LRUCache: every node is in one list; none is lost and none is shared after a move.
NodesOwnedOnce == kind = "LRUCache" => Cache!NodesOwnedOnce

(***************************************************************************)
(* The caches behave as sequences of entries, latest use first, which a    *)
(* put or a get reorders and a put into a full cache shortens at its end.  *)
(***************************************************************************)
ImplementsLRU ==
  /\ kind = "LRUCache" => Cache!LRU!Init
  /\ [][kind = "LRUCache" => [Cache!LRU!Next]_(Cache!LRU!vars)]_vars

-----------------------------------------------------------------------------
(***************************************************************************)
(* Separate chaining: whatever it grew to or shrank to, search looks for   *)
(* every key in the list that holds it, and num_items counts the items.    *)
(***************************************************************************)
ListsInOrder == kind = "chained" => Chained!ListsInOrder

(***************************************************************************)
(* Open addressing: the item and tombstone counters that decide about      *)
(* growth agree with the slots.                                            *)
(***************************************************************************)
CountersAgree == kind = "open" => Open!CountersAgree

(***************************************************************************)
(* Open addressing: under every probing policy the probes for any key      *)
(* reach an EMPTY slot, so that find_target_slot never throws.             *)
(***************************************************************************)
ProbesEnd == kind = "open" => Open!ProbesEnd

(***************************************************************************)
(* Extendible hashing: the directory refers each hash value to the bucket  *)
(* of its low bits, and buckets neither overflow nor get lost.             *)
(***************************************************************************)
DirectoryAgrees == kind = "extendible" => Ext!DirectoryAgrees

(***************************************************************************)
(* Every table is a set of keys, apart from the duplicates of insert_dup:  *)
(* what it answers to insert, search and remove is what a bag would.       *)
(***************************************************************************)
HashTablesAreTables ==
  [][ /\ kind = "chained" => [Chained!AsTable!Next]_<<Chained!Contents, reply>>
      /\ kind = "open" => [Open!AsTable!Next]_<<Open!Contents, reply>>
      /\ kind = "extendible" => [Ext!AsTable!Next]_<<Ext!Contents, reply>> ]_vars

-----------------------------------------------------------------------------
(***************************************************************************)
(* Union-find: ranks and sizes bound the depths, and what same_set,        *)
(* are_connected, find, join and union_sets answer and make of the         *)
(* partition is what they should, while path halving moves the nodes.      *)
(***************************************************************************)
ForestsAgree ==
  /\ kind = "DisjointSet" => Union!Ranked
  /\ kind = "TRelation" => Union!Sized
=============================================================================
