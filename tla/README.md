# A verification project for DeSiGNAR

DeSiGNAR is a header-only C++ library of containers, graphs and algorithms with
a small layer for concurrency. This directory models the parts of it whose
correctness depends on the order of steps - of threads, or of long sequences of
legal calls - and the algorithms on its containers and graphs, and checks them
with TLC; what matters most is proved with TLAPS.
Paths below are relative to `src/include/`.

## 1. Inventory

### Components, their state and their operations

| Component | Source | State | Operations | Hard because |
|---|---|---|---|---|
| `ListQueue`, `ConcurrentQueue` | `queue.hpp` | a mutex, a condition variable, a list | `put`, `get` (blocks), `size`, `is_empty` | wakeups, spurious wakeups, who gets the mutex next, a `put` that throws |
| `ThreadPool` | `threadpool.hpp` | task queue, array of threads, one future per task | constructor, `submit`, `worker_loop`, destructor | shutdown with one empty task per worker; tasks that throw, submit or wait |
| `ConcurrentGraph` | `concurrentgraph.hpp` | a mutex and a graph | insertions, removals, traversals under the lock | callers keep pointers after the lock is gone |
| `GraphAgent` | `graphagent.hpp` | a graph, a pool | `parallel_for_each_node`, `parallel_for_each_arc` | snapshot against change, exceptions, two calls in one pool |
| `ConcurrentMap`, `ConcurrentSet` | `concurrentmap.hpp` | a mutex and a hash map | `insert`, `put`, `get`, `contains`, `remove`, `size`, `clear`, `with_lock` | `put` is two steps, `with_lock` runs the caller's code, exceptions |
| circular buffers | `deque.hpp`, `queue.hpp` | array, capacity, two indexes, a count | push and pop at both ends, peeks, `clear`, copy, move | index arithmetic in an unsigned word, growth while wrapped, object lifetime |
| `LRUCache` | `lrucache.hpp` | doubly linked list of nodes, hash index, capacity | `put`, `get`, `clear`, moves | two structures over one set of nodes |
| hash tables | `chainedhash.hpp`, `openhash.hpp`, `extendiblehash.hpp` | lists, slots with tombstones, or a directory of shared buckets | `insert`, `search`, `remove`, `clear`, growth and shrinking | rehashing, tombstones, aliasing, termination of probes |
| linked lists | `list.hpp`, `nodesdef.hpp` | nodes, head and tail, or a ring | insertion at both ends, removal, concatenation, reversal, split, copy, move, iterators that delete | links on both sides, the empty list, lists that take each other's nodes |
| search trees | `tree.hpp`, `rankedtree.hpp`, `treap.hpp`, `randomizedtree.hpp`, `avltree.hpp`, `rbtree.hpp`, `splaytree.hpp` | linked nodes with counts, heights, colours or priorities | insert, insert_dup, search_or_insert, remove, remove_pos, split, join, select, position, iterators with a stack, `del` | balance and counts through long sequences of operations; iterators whose `del` rotates the tree under their stack |
| B-trees, skip list | `btree.hpp`, `skiplist.hpp` | arrays of keys and children; towers of links | insert, remove, range, traversal | splits, borrows and merges on one way down; the chain of leaves; towers of every height |
| heaps | `heap.hpp`, `leftistheap.hpp`, `pairingheap.hpp`, `binomialheap.hpp`, `fibonacciheap.hpp` | a complete tree of links, an array, or a forest | insert, get, remove, update, decrease_key, merge | surgery on nodes that are leaf, child and root at once; cascading cuts |
| sorts | `sort.hpp` | an array or a list | eleven sorts, two searches | indices at the ends of a part |
| `Graph`, `Digraph` | `graph.hpp` | node, arc and adjacency lists | insertion, removal by node, arc and iterator, copy, swap, sort | three lists per arc, self loops |
| union-find | `unionfind.hpp`, `relation.hpp` | arrays of parents and ranks or sizes | `make_set`, `union_sets`, `find`, `same_set`, `join` | path halving during a query |
| graph algorithms | `graphalgorithms.hpp`, `bridges.hpp`, `allpairsshortestpaths.hpp`, `maxflow.hpp`, `bipartitematching.hpp`, `graphcoloring.hpp` | tags, counters and cookies on nodes and arcs; heaps, tables and residual networks | traversals, components, orders, spanning trees, shortest paths, cuts, flows, matchings, colours | what earlier algorithms left on the graph, ties, loops and parallel arcs |
| parsers, automata | `grammar.hpp`, `llparser.hpp`, `lrparser.hpp`, `automata.hpp`, `turingmachine.hpp` | tables | fixed points | pure functions, boundary cases |
| geometry, metaheuristics, numerics | the rest | - | - | floating point and random numbers |

`PROJECT.json` lists all of them with their status.

### How they interact

`ThreadPool` owns a `ConcurrentQueue<std::function<void()>, ListQueue>` and
blocks in its `get`. `GraphAgent` owns a `ThreadPool`, reads a `ConcurrentGraph`
under its lock, submits one task per element and waits for the futures.
`ConcurrentMap` wraps a `HashMap`, that is a `GenMap` over one of the hash
tables. `LRUCache` uses the same map as its index. `ConcurrentQueue` can wrap
any of the queues; `DynQueue` and `DynDeque` share one growth scheme. Nothing is
persisted and nothing is sent: there are no crashes to recover from and no
messages to lose. What fails are allocations, constructors and the callbacks of
the user.

## 2. Modules

| Module | Models | Specification | Promise it is compared with |
|---|---|---|---|
| `ConcurrentQueue` | `queue.hpp`: mutex, condition variable, wait loop, step by step | `Spec` | `BlockingFIFO` |
| `ThreadPool` | `threadpool.hpp` over a blocking FIFO | `Spec` | properties |
| `GraphAgent` | `graphagent.hpp` and `concurrentgraph.hpp`, EXTENDS `ThreadPool` | `AgentSpec` | properties |
| `ConcurrentMap` | `concurrentmap.hpp` | `Spec` | `AtomicMap` |
| `DynDeque`, `FixedDeque` | the circular buffers down to slots and indexes; the `DynQueue` and `FixedQueue` of `queue.hpp` as their `QueueNext` | `Spec`, `QueueSpec` | `DequeSpec` |
| `LRUCache` | `lrucache.hpp` on a heap of nodes | `Spec` | `LRUSpec` |
| `SeparateChainingHashTable`, `OpenAddressingHashTable`, `ExtendibleHashTable` | the hash tables | `Next` of each | `TableSpec` |
| `Lists` | `list.hpp`: `SLList` and, prefixed `Dl`, `DLList`, link by link | `Next`, `DlNextState` | `ListSpec` |
| `SearchTree` | what the trees share: `nodesdef.hpp`, the members of a tree object, the in-order iterator | extended by the next ones | `SortedBagSpec` |
| `BinaryTrees` | `tree.hpp`, `rankedtree.hpp` (`Rk`), `splaytree.hpp` (`Sp`), `randomizedtree.hpp` (`Rz`) | `Next`, `RkNext`, `SpNext`, `RzNext` | `SortedBagSpec` |
| `Treap`, `AVLTree`, `RbTree` | the file of that name, with the `Ranked` class prefixed `Rk` | `Next`, `RkNext` | `SortedBagSpec` |
| `BTree` | `btree.hpp`: `BTree` and, prefixed `Plus`, `BPlusTree` | `Next`, `PlusNext` | `SortedBagSpec` |
| `SkipList` | `skiplist.hpp` | `Next` | `SortedBagSpec` |
| `Heaps` | the heap of linked nodes (`Lh`) and the array heaps (`Ar`) of `heap.hpp`, leftist (`Le`), pairing (`Pa`), binomial (`Bi`) and Fibonacci (`Fi`) heaps | `LhNext`, `ArNext`, ... | `SortedBagSpec` |
| `Sorting` | `sort.hpp`, as operators | - | the sorted permutation |
| `Graph` | `graph.hpp`: `Graph` and `Digraph` | `Next` | `GraphSpec` |
| `UnionFind` | `unionfind.hpp`, and `TRelation` of `relation.hpp` | `Next`, `TrNext` | the partition |
| `GraphSearch` | traversals, paths, components, cut nodes, bridges, orders | operators | reachability |
| `GraphPaths` | Kruskal, Prim, Dijkstra, A*, Bellman-Ford, Floyd-Warshall, Johnson; Karger, Ford-Fulkerson, Edmonds-Karp, matching, colouring | operators | the lightest of all trees and paths, the least of all cuts, the largest of all matchings |
| `Structures` | one buffer, the caches, one hash table or one union-find forest, as the first state chooses | `Spec` | those of its parts |
| `MCConcurrentMap`, `MCThreadPool`, `MCGraphAgent` | small instances of the concurrent modules; `ConcurrentQueue` needs none | | |
| `MCStructures` | `Structures`, or a list, a graph or a graph for the algorithms, as the first state chooses | `StructuresSpec` | |
| `MCOrderedSets` | an ordered container of one of many kinds, or an array to be sorted | `SetSpec` | |
| `ConcurrentQueueProofs`, `GraphAgentProofs` (with the pool), `ConcurrentMapProofs`, `DynDequeProofs`, `FixedDequeProofs`, `LRUCacheProofs` | the theorems about the module of that name | | |
| `UnionFindProofs`, `StructuresProofs` | those of the union-find forests; of the hash tables, the buffers and the caches: for the specification that is checked | | |

### How state and actions correspond to the code

**ConcurrentQueue.** `mtx` is `std::mutex`, `queue` the wrapped `ListQueue`, and
`pc[t]` the line a thread is at. The constructor of the lock is `Lock`, its
destructor `Unlock`; `put` is `PutInsert`, `NotifyOne` (still under the lock, as
the code calls it), or `PutThrows`; `get` is `WaitTest`, `GetTake` and the
returns to the mutex after a wakeup. The condition variable is its set of
waiting threads; it may wake one by itself. What a thread does between these
points cannot be seen by another.

**ThreadPool.** `tasks` is the queue, taken as the blocking FIFO that
`ConcurrentQueue` is proved to be, so that `put` and `get` are single steps.
`worker[w]` is the line of `worker_loop`; `future[t]` is the shared state of the
packaged task; `stage`, `stops` and `joined` follow the owner through the
constructor and the destructor. A task may throw, submit a child, and wait for
that child's future. `StartFails` is the `std::thread` constructor that throws:
the threads that exist are joinable when they are destroyed, which ends the
program.

**GraphAgent.** A `ConcurrentGraph` operation is one step: it holds the graph's
mutex throughout and blocks on nothing else. A call is `Snapshot`, one
`SubmitNext` per element, one `GetNext` per future and `Return`; `SubmitThrows`
is memory that runs out in the loop. The callers respect the rule in the class
comment that nothing is removed while a call may use it.

**ConcurrentMap.** `put` is `PutIndex` (`map[k]`, which creates an entry with a
default value) and `PutAssign`; `with_lock` is `WithLockRead` and
`WithLockWrite`, a function that reads one entry and writes what it computed.
`BodyThrows` is an exception before the map changed. `ConcurrentSet` has the
same methods without values.

**Circular buffers.** `array[i]` is the object in slot `i` or `Raw`; an index
computed as `(i + cap - 1) % cap` is computed in `nat_t` first (`WordSize`). A
copy takes the place of its original; a move leaves the shell. `FixedQueue` and
`DynQueue` have the text of the deques' `push_back` and `pop_front`, and no more:
they are the `QueueNext` of the same modules.

**LRUCache.** `heap[n]` is what is at address `n`; `unlink`, `push_front` and
`evict_tail` are operators on the heap and one cache, composed as the methods
compose them, including both moves. `moved` are the caches moved from by
assignment: their list is empty but the index, exchanged by the move of the map
(line 187), still holds keys of deleted nodes. They are only assigned to or
destroyed afterwards.

**Hash tables.** A list of the chained table is the bag of its keys; a slot of
the open table is a key, `EMPTY` or `DELETED`; a bucket of the extendible table
is named by its place in `all_buckets`, and `Bit[n]` is the code's `1 << n`. A hash
value is a parameter. The load
factors are the defaults. `resize` of the chained table re-inserts with
`append`, so duplicates of `insert_dup` are dropped, and cannot itself trigger
another resize at these load factors. A loop over probes is the set of probes
before the first `EMPTY` slot; `rehash` is a fold over the slots of the old table.

**Linked lists.** A node is named by its item, so `next[n]` and `prev[n]` are the
links as the code keeps them, and the two lists of a program can take each
other's nodes (`concat`, `split`). `head_ptr` of a `DLList` is a node too. An
iterator is `pred` and `curr`, or `curr` alone. While there is one, the list is
changed through it only.

**Search trees.** A subtree is the record of its root with the records of its
children in `L` and `R`; `Null` is the sentinel node, with the fields the code
gives it and no others, so that reading another field ends a run with an error.
A function that gets a `Node*&` returns the new subtree; one that also returns a
pointer returns a record of both. Random priorities, and every random choice of
`RandomizedTree`, are followed in all their outcomes. `rest` is the second tree
of a split, taken up again by a join. The in-order iterator keeps its stack of
nodes, named by their keys; `del`, of all ten classes, moves on before it
removes, as in the code. A removal at a node with two children that copies the
next key frees the node the iterator has moved to: the iterator is marked as
dangling, and as reading its node is undefined, only `reset_first`, `reset_last`
or its end follow. A removal that rotates (AVL, red-black and splay trees)
leaves the stack and the iterator's root as they were, and the iterator goes on
from them. `Lost` says when they are no longer the way up from its node and the
root of the tree; the bag then promises nothing of `next`.

**B-trees and skip list.** A node of a `BTree` is the record of its arrays. A
leaf of a `BPlusTree` has an identity of its own, by which the leaf before it
refers to it, so that a merge which forgets the chain is seen. A tower of the
skip list is the sequence of its links; its height is a choice.

**Heaps.** The heap of `Lh` keeps the links `L`, `R` and `U` of every node as in the code,
where those of a leaf are the ring of the leaves. The nodes are renamed in level
order after each call, which keeps the states few. The forests of the other
heaps are sequences of nodes with their sequences of children; a handle is the
path to a node. The array heaps are arrays; the part of `sort.hpp` they call is
that of `Sorting`.

**Sorting.** Items carry a tag besides the key, so that stability can be seen. A
loop over indices is a fold, a recursive sort a recursive operator; a pivot is
the one that `select_pivot` computes.

**Graph.** The `DL` lists are sequences here (their links are the subject of
`Lists`), the nodes and arcs are names that are given again once freed. An arc
of an undirected graph is in the adjacency lists of both of its ends, a loop
once in the one list there is.

**Graph algorithms.** An algorithm is an operator on a graph - its lists in
order, so that the order of a traversal is that of the code - and on the tags
that are on the nodes and arcs when it starts. Every `reset_tag` of the code is
in the operator, and nothing else clears a tag. A loop is a fold or a recursion
over the same worklist. Where the order of a heap with equal keys, of a hash
table or a random number decides, the operator gives the set of all results, and
the property is about all of them. The operators `...Right` of each module
compare the results with reference definitions: reachability, the least weight
of all paths, the least of all cuts.

## 3. What the runs check

| Run | Instance | Shows |
|---|---|---|
| `concurrent_queue` | 3 threads, 2 calls each, 1 spurious wakeup | types; a waiter and an item never coexist without a thread that answers for the item (`NoLostWakeup`); `get` never takes from an empty queue (`TakeFindsItem`); the queue implements `BlockingFIFO`, liveness included |
| `concurrent_map` | 2 threads, 2 calls each, 2 keys, 3 values | mutual exclusion; what `put` and `with_lock` found is true when they write (`FoundStaysTrue`); the map implements `AtomicMap`: every call takes effect at one instant and returns |
| `thread_pool` | 2 workers, 5 tasks: one throws, one submits a child, one submits a child and waits | a pending task is in one place; each worker takes one empty task; tasks submitted before the destructor are served and finish; the destructor returns |
| `thread_pool_late` (violation) | the same | a task submitted by a running task while the destructor is at work is accepted and never runs |
| `graph_agent` | 2 calls, 2 workers, 2 nodes, 1 arc, 4 changes of the graph | a call that returns has run on its whole snapshot; the first failure in order is what it throws; tasks run on live elements and a live operation; calls end |
| `graph_agent_throw` (violation) | the same, submissions do not fail | after an exception later tasks of the call are left with a reference into its frame |
| `structures` | see below, one kind of object per behaviour | buffers: the live slots are the range the indexes describe and there is room for the next push (`DynSlotsRight`), all four behave as sequences; caches: list and index describe the same entries, every node has one owner, the cache is an LRU sequence; hash tables: items are where a search looks, counters are right, every probe sequence ends, the directory agrees with the buckets, answers are those of a bag of keys; forests: ways to roots are short, ranks, sizes and counts right, and the partition is what the calls ask for (`ForestsAgree`); lists and graphs: links, counters and lists agree (`LinksAgree`), they behave as sequences (`ListsAreSequences`); algorithms: `TraversalsRight`, `ComponentsRight`, `ShortestRight`, `FlowsRight` |
| `ordered_sets` | see below, one kind of container per behaviour | every container keeps the shape its class promises (`ShapesKept`: order, counts, balance, colours, degrees, towers, heap order, rings), answers from it what the sorted keys say (`QuestionsAnswered`; with the pre-order and post-order iterators of the ranked treap), and changes as a sorted bag does (`OrderedContainersAreBags`; iterators included, up to a `del` that loses them); the sorts sort, in part and whole, stably where they promise it (`SortsSort`) |
| `deque_copy_empty` (violation) | `DynDeque`, copy of an empty deque allowed | such a copy has `r = 2^64 - 1`, its range is lost after two operations |
| `rb_repeated_keys` (violation) | `RbTree` with `insert_dup`, 3 different keys, at most 5 items | a removal loses a second item: the counter and the tree differ |
| `tree_remove_if` (violation) | `AVLTree`, 7 keys, at most 5 items | a loop of `next` and `del` ends with greater keys in the tree, which `remove_if` then never examines |
| `graph_adjacent_remove` (violation) | `Graph`, 2 nodes, 2 arcs | `remove_adjacent_arc_if` leaves arcs in the list of arcs and at their other end |

Every property of a passing run has a mutant of the code's definition in
`PROJECT.json` that it detects; the mutants are the operators commented `Mutant
of` or `A bug:`.

### Bounds

Named bounds limit what a program may repeat without limit: `MaxCalls` and
`MaxSpurious` per behaviour of the queue, `MaxCalls` of the map, `MaxChanges` of
the graph, `MaxItems` of buffers and the chained table, `MaxCap` of the open
table. They are large enough for what is interesting: three threads are needed
for a notification that reaches the wrong thread; six items take a buffer of
three slots through growth to 5, 7 and more and back; a capacity of two evicts
from a list with head and tail apart, and three addresses let a node be freed
and used again; hash values 0, 4, 8, 12 collide modulo 2, 4 and 8, which makes
the open table probe over tombstones and the extendible table split a bucket
several times in one insertion. `WordSize` is small so that `num_items - 1` for
zero items is a representable index, and larger than any index the code
computes from a live buffer.

Lists hold 3 items, enough for a head, a middle and a tail, between two lists.
Graphs under change have 2 nodes, each with a second name for a new node of the
same information, and 2 arcs, so that there are loops, parallel arcs and names
given again. Forests have 4 members: two trees of rank 1 that are joined, and a
path that is halved; a relation is made for 3 or 4 items, with and without room
for all members. The algorithms get every subset of 8 arcs on 4 nodes, with
a loop, a pair of parallel arcs and one of opposite arcs, in both orders of the
lists and with tags fresh or left over; those with weights get every subset of
7 arcs under 3 patterns of weights, one with equal and zero weights and one with
negative ones.

AVL and red-black trees hold at most 5 of 7 keys, treaps and randomized trees,
where the random choices multiply the states, 4, plain and splay trees 5; with
repeated keys there are 3 different ones. Five keys give red-black trees of
three levels, and AVL trees that need double rotations and rotations after a
removal. `RbTree` and `RankedRBTree` are checked without repeated keys in
`ordered_sets` because of finding 5, `SplayTree` as its class is, a set. A `BTree` of minimum
degree 2 with 9 keys has three levels, so that a borrow and a merge happen below
the root; a `BPlusTree` has 7. The skip list has 3 levels. Heaps hold 8 items of
3 keys, a binomial tree of order three; pairing and Fibonacci heaps, where
`decrease_key` and merges multiply the states, 5. Arrays have up to 6 items with
keys 2, 10 and 12, which have one and two digits, and `QuicksortThreshold` is 2
instead of the 40 of the code so that both branches of `quicksort` are taken.

The symmetry of `structures` permutes the addresses and the values of the
caches, which no action distinguishes; no liveness is checked there.

### Fairness

Threads inside a call are scheduled: weak fairness on the steps of each thread
(`Continue`, `WorkerStep`, `CallStep`) and on the owner of a pool once its
constructor or destructor began. Nobody is forced to start a call, a destructor
or a spurious wakeup. A mutex is not assumed to be fair; because calls are
bounded, a thread that waits for it is eventually alone, so weak fairness is
enough. `CHECK_DEADLOCK FALSE` stands where behaviours end: all calls made, pool
closed, no caller left to put what a getter waits for, no address left.

## 4. What is proved

The theorems hold for every number of threads, workers, callers, keys, nodes,
slots and calls. Assumed is only what the modules assume of their constants and,
as `Legal`, what a theorem names, all of it evaluated by the runs: sets of
threads, keys, addresses and graph elements are finite, marker values differ
from real ones, a pool has a worker, a buffer grows by at least a slot and its
indexes fit in a word (`Legal` of `DynDeque`, `FixedDeque` and `LRUCache`), the
buckets of a chained table and its default are not zero, the capacities of an
open table are powers of two, but not one, as `next_pow2` makes them, and no
more keys share one hash value than a bucket of the extendible table holds,
which `insert` would split for ever (`Legal` of the three tables), and the
number of items of a relation is a natural number (`Legal` of `UnionFind`). The
theorems on the pool admit every tree of tasks that submit tasks; those on the
agent assume `Legal` of `GraphAgent`: the tasks of its pool are those of its
calls, one per element, and submit none. The theorems on deques need more:
`DynDeque` and `FixedDeque` are what they promise to be if no empty one is
copied (`~CopyEmpty`), which is finding 3; the queues need it not.

| Component | Proved | Invariant |
|---|---|---|
| `ConcurrentQueue` | `TypeOK`, `TakeFindsItem`, `NoLostWakeup`; steps of `BlockingFIFO` | `IInv` |
| `ThreadPool` | `TypeOK`, `PendingInOnePlace`, `OneStopPerWorker`, `EarlyTasksServed`; a result is final | `IInv` |
| `GraphAgent` | `AgentTypeOK`, `ReturnMeansAllRan`, `FirstFailureThrown`, `RunsOnLiveData`; its pool is a `ThreadPool` | `AgentInv` |
| `ConcurrentMap` | `TypeOK`, `FoundStaysTrue`; steps of `AtomicMap` | `IInv` |
| `DynDeque`, `DynQueue` | types, `DynSlotsRight`; refinement of `DequeSpec` | `DInv`, `QInv` |
| `FixedDeque`, `FixedQueue` | refinement of `DequeSpec` | `DInv`, `QInv` |
| `LRUCache` | types, `ListAndIndexAgree`, `NodesOwnedOnce`; refinement of `LRUSpec` | `CacheInv` |
| `SeparateChainingHashTable` | `ListsInOrder`; refinement of `TableSpec` | `ChainedInv` |
| `OpenAddressingHashTable` | `CountersAgree`, `ProbesEnd`; refinement of `TableSpec` | `OpenInv` |
| `ExtendibleHashTable` | `DirectoryAgrees`; refinement of `TableSpec` | `ExtInv` |
| `DisjointSet`, `TRelation` | `ForestsAgree`: the forests are the partitions | `ForestsInv`: `RankInv`, `SizeInv` |

**ConcurrentQueueProofs.** The inductive invariant is
`IInv == TypeOK /\ MutexHeld /\ TakeFindsItem /\ NoLostWakeup`. `TakeFindsItem`
is not inductive alone: that the item seen by the predicate is still there needs
that only the holder of the mutex is inside a critical section (`MutexHeld`).
`NoLostWakeup` compares the number of items with the number of `Carriers`,
threads that are awake in a `get` or about to notify: a putter becomes a carrier
with its item, `notify_one` hands the role to a waiter, and a getter stops being
one only with an item or when none is left. The lemmas on `Carriers` count how
the set changes. `ImplementsBlockingFIFO` shows that each step is one of
`BlockingFIFO` or changes nothing there; the mapping is `Stage`, from the line
of a thread to how far its call is.

**GraphAgentProofs, the pool.** None of the four checked properties is inductive alone.
`WorkersAgree` ties the line of a worker to the task it holds, `StagesAgree` the
stage of the owner to its counters. `PendingInOnePlace` counts: the positions of
a task in the queue plus the workers that hold it are one while its future is
pending and none otherwise, so a task that is submitted, taken or finished moves
exactly one unit. The same counting gives `OneStopPerWorker`. `EarlyTasksServed`
is about the end of the destructor and rests on the order of the queue:
`LateBehindStops` says that behind an empty task there are only late tasks, and
as each worker leaves with one, what remains when all have left is late.
`BrokenAtTheEnd` keeps promises whole until then. `ResultsFinal` is the action
property that a future, once ready, never changes.

**GraphAgentProofs, the agent.** `AgentUsesThePool` shows that a step of the agent is one
of its pool or leaves the pool alone, so that the pool's invariant is available
(`IInv` is the first conjunct of `AgentInv`). `CallsAgree` is what a call knows at
its loop index: the futures before it have values, and no task is pending
outside the snapshot or after the call returned. `SnapshotsLive` says that what a
call works on is in the graph: mutators never remove it while a call is in
progress, as the class comment asks. From these follow that a returned call has
run on everything, that the failure thrown is the first in order, and that what
a worker runs on is alive as long as the call waits for it.

**ConcurrentMapProofs.** The inductive invariant is
`IInv == TypeOK /\ Stages /\ FoundStaysTrue`, with mutual exclusion in `TypeOK`.
The map that others may know (`Visible`) is the map without the entry of a `put`
in progress; `ImplementsAtomicity` maps `PutIndex` and `WithLockRead` to
stutters and their second halves to the atomic operations. The case that needs
`FoundStaysTrue` is the assignment that throws: it leaves either what was there,
an exception without effect, or the default value of a new key, the one effect
`AtomicMap` admits besides whole operations.

**DynDequeProofs, FixedDequeProofs.** `%` is removed first: an index that is
reduced is below twice the capacity, so reducing it is `Wrapped`, a subtraction at
most. The invariant says that a slot is alive exactly if its `Offset` behind `f`
is below `num_items` (`Alive`), that `r` is where the last item then is
(`BackRight`), and that the capacity is one that growing and shrinking leave
(`GoodCap`): the smallest, or one of which more than 0.4 is used. The last is
what makes the reduced array of `resize_down` large enough and gives `RoomLeft`.
The copy of an empty buffer sets `r` to the largest word. `QInv` admits it: the
queue only ever advances `r`, which brings it back to zero, so `DynQueue` and
`FixedQueue` need no assumption; `pop_back` of a deque would use it. The
contents, a sequence, are a function of `f`, `num_items` and the array, and each
operation does to it what `DequeSpec` says.

**LRUCacheProofs.** `IsList(h, o, s)` says that the nodes of `s` are distinct,
that head and tail of the cache `o` are its ends, and that the links of the heap
`h` run along it both ways. `ListIsListed` shows that the walk over `next` finds
just this sequence. `unlink` takes it to `Gone(s, i)` and `push_front` to
`Pushed(n, s)`, whatever the position, with head and tail updated at the ends
(`Unlinked`, `PushedFront`). `CacheInv` is `Good`: every cache has its list, of
`num_items` nodes and within its capacity, no two lists share a node, every
allocated node is on one, and the index of a cache that was not moved from says
where each key is. A method changes one list and leaves the nodes of the others
alone (`OneListChanges`), a move passes a whole list on (`ListMoves`). The
entries of a list are then what `LRUSpec` calls the cache's sequence; each method
is one of its operations. The capacity of zero, which never evicts, is included.

**StructuresProofs** carries these theorems over to the specification of the run
`structures`, where they are instances, chosen by the first state. The lemmas
`DynNext`, `LruNext` and so on show that the instance under its two names is the
same. It proves the three hash tables itself, one by one, and then together
(`AllTablesAreTables`); what would be an induction over numbers is there an
argument about the least counterexample (`LeastOf`).

*The chained table.* `ChainedInv` says that a key is only in the list of its hash
value modulo the capacity, whatever that is, and that `num_items` is the number
of items. That number is a fold over the lists of folds over the keys;
`SumIsUnits` shows that such a fold is the cardinality of a set of units, which
changes by one where one count does. `Counted` is that change, `Resized` what
`resize` does: it keeps one of each key, as `TableSpec` allows. With the
invariant the bag of the table is what its lists hold (`ContentsAre`).

*The open table.* `Sound` says that each key is in one slot, and that its probes
come to this slot before an `EMPTY` one; `OpenInv` adds that the counters are the
numbers of slots and that keys and tombstones are at most half of them. Writing a
key or a tombstone keeps it (`Insertion`, `Tombstone`): neither makes a slot
`EMPTY` that a probe passes. That there is an `EMPTY` slot on the way of every key
is number theory. For a power of two, an odd factor cancels (`OddCancels`), so
that offsets of two probes never differ by a multiple of the capacity
(`NoMultipleApart`, for each of the three policies), and as many probes as slots
visit every slot (`ProbesVisitAll`). `rehash` folds over the slots; the fold is
unrolled into a recursive function (`RehashIsFold`, with its existence and
uniqueness), and `Rehashed` says what has been done after `m` slots.

*The extendible table.* `DirectoryAgrees` compares slots and keys of a bucket with
each other and is not inductive: a split must know that a bucket has *all* the
slots that end in its bits, or a key could find its way to another. `Good` names
these bits: for each bucket of local depth `d` there is a `p` below `Bit[d]` such
that a slot refers to it exactly if it is `p` modulo `Bit[d]`, and its keys hash to
`p` modulo `Bit[d]`. Doubling leaves every `p` as it is (`Doubled`); a split gives
`p` to one half and `p + Bit[d]` to the other (`Halves`, `DividedIsGood`), which for
slots and keys is the same test of bit `d`. That a bucket with `d` bits has
`Bit[global_depth - d]` slots is then a bijection (`SlotCount`). An insertion
splits until there is room: each split takes the bucket of the key one bit deeper,
and a bucket as deep as a hash value holds keys of one hash value only, for which
there is room (`RoomGrows`, `EnoughRoom`). A copy inserts the keys one by one and
has all of them (`BuiltInserts`). `Bit` and the two loops are recursive functions;
one lemma gives their equations.

**UnionFindProofs.** The loops over parents are recursive functions with as many
steps as there are keys; that a root is reached by then is part of what is proved.
Along a way something grows, the rank in `DisjointSet` and the size in `TRelation`,
and stays below the number of keys: `Climbs(id, m)` says so for any measure `m`.
From it follow that a way ends at its root (`WayEnds`) and that a node may be hung to
its grandparent without any root changing (`HalfWaySame`), which is path halving
(`FindsRoot`). `ForestsAgree` is about the calls in one state and not inductive.
`RankInv` adds to the types that keys are distinct, that ranks climb, and that a tree
of rank `r` has at least `2^r` members; `SizeInv` that the size of a root is the
cardinality of its tree, that sizes at least double with each step up, and that
`num_blocks` counts the roots, those of indexes that no item has yet included. A link
makes one tree of two (`RootsLinked`), of which the cardinalities add up, and the
depth of a node is at most the rank, or the logarithm of the size, of its root
(`DepthBelow`, `DepthDoubles`). The partition is the image of the map from members to
roots (`Cells`), so that what a call does to it is seen from what it does to that map.

**Only model-checked.** Liveness and all that needs `ENABLED`: the fair half of
the refinements of the queue and the map, `EarlyTasksFinish`, `ShutdownCompletes`,
`CallsEnd`. `LinksAgree`, `ListsAreSequences`, and
everything about graphs, trees, heaps, sorts and algorithms: they are
recursive over data, or are stated with reference definitions that are, which is
out of the prover's reach.

## 5. Findings

1. `threadpool.hpp:114`: `submit` from a task that runs during the destructor
   puts the new task behind the empty ones; it is accepted and never runs.
2. `graphagent.hpp:79`: `task.get()` rethrows and leaves the call while later
   tasks still refer to its parameter `op`.
3. `deque.hpp:532`: the copy of an empty `DynDeque` computes `num_items - 1`
   below zero; `pop_back` after `push_front` then touches a slot that does not
   exist.
4. `avltree.hpp:705`: `InorderIterator::del` removes the key behind the iterator,
   and where the removal rotates, the iterator's stack is not the way up any more.
   Of 1, 2, 3, 4 in an AVL tree a `remove_if` that matches 1, 3 and 4 examines 1
   and 2 only. The ranked AVL tree and both red-black trees leave keys out too
   (red-black trees of 1, 2, 3 never come to 3 after deleting 1); in a splay tree a key may be
   visited again, or the iterator pop a node that was freed.
5. `rbtree.hpp:1030`: with repeated keys, `remove` can reach `delete_min` at a
   node that has a right child, which it unlinks with the node: after
   inserting 1, 2, 2, 2, `remove(2)` leaves two nodes and a counter of 3.
6. `graph.hpp:841`: `remove_adjacent_arc_if` of an undirected graph takes arcs
   out of one adjacency list only; the list of arcs and the other end keep them.

Limits met on the way, not checked by a run.

- `85 * 1.4` is computed in `double` and grows a buffer to 118, not 119 (the
  model multiplies exactly; the next growth is one push earlier and nothing else
  changes).
- An open table with one slot divides by zero in the secondary hash
  (`openhash.hpp:198`); more than `BUCKET_CAPACITY` equal hash values never end
  an insertion into the extendible table; as many waiting tasks as workers block
  a pool for ever.
- The constructor of the n-th thread of a pool may throw with the first ones
  joinable (`StartFails` of the model ends the program there); an item whose
  constructor throws in `push_back`, or an allocation that fails inside
  `LRUCache::put`, `make_set` or `insert_garc`, leaves half of the change.
- Copy assignment of the extendible table (`extendiblehash.hpp:214`) destroys its
  buckets and swaps them into a temporary, whose destructor destroys them again:
  `assign` of the model sees it (`double_deleted`), and nothing follows there.
- `DLList::Iterator::del` at the end of the list deletes the list's own head
  node; `InorderIterator::del` at a node with two children leaves the iterator
  at a node that was freed, which `remove_if` then reads (a `Tree` of 2, 1, 3 and
  the key 2); `SLList`'s `reset_first` keeps `pred`.
- `Digraph::sort_arcs` (`graph.hpp:2405`) cannot be instantiated: it calls
  `quicksort<Arc, Cmp>` on a node of its own list of arcs, which no overload
  takes. The model sorts the arcs of a `Graph` only.
- `FixedHeap::copy` (`heap.hpp:187`) copies the slots 1 to `cap` of an array that
  has 0 to `cap - 1`; `LHeap::swap` (`heap.hpp:925`) leaves the root linked to
  the `head_node` of the heap it came from; the second
  `RankedTreap::append_dup` (`treap.hpp:1254`) calls `insert`, which refuses a
  repeated key; `RankedRBTree::split_pos` (`rbtree.hpp:1708`) drops repeated
  keys; `RandomizedTree::insert` may put a key in again above the node that
  holds it.
- `radix_sort`'s `exp` wraps for keys near 2^64 (`sort.hpp:994`); `merge_sort`
  of linked lists is not stable.
- `GraphPaths` follows A* with a heuristic that is zero, where it is Dijkstra's
  algorithm: the code adds the heuristic into the accumulated distance
  (`graphalgorithms.hpp:2351`). `BellmanFord::search_min_path`
  (`graphalgorithms.hpp:2518`) calls a function that does not exist and cannot
  be instantiated.
- `KargerMinCut` is for connected graphs without loops; `compute_cut_nodes`
  starts from the first node only; `max_flow` with `source = sink` does not end.

## 6. Not modelled

Of the modelled components: the traits, `with_lock` of `ConcurrentGraph`
(arbitrary code of the caller under the lock), load factors other than the
defaults, constructors and allocations that throw except where a module says so,
re-entrant calls under a lock (forbidden by the comments), the queries of
`BaseGraph` that only read, `DL::concat`, Karger's fast recursion on more than
six nodes, and the functions that only copy marked nodes into a new graph or
paint one.

Of the library: the travelling salesman heuristics, the trie, the quadtree and
the multiway tree node, the stacks, the randomized algorithms, arrays and bit
sets, facades and iterator adaptors, parsers, automata, the intermediate
representation, cellular automata, number theory, strings and dynamic
programming. Geometry, metaheuristics and numerics are floating point.
`PROJECT.json` gives the reason for each.

## 7. Plan

Order, by how much depends on the part and how far tests reach into it:

1. *(done)* the concurrent core: queue, pool, agent, map.
2. *(done)* the stateful containers below it: buffers, cache, hash tables.
3. *(done)* the ordered containers: search trees, B-trees, skip list, heaps, and
   the sorts.
4. *(done)* lists, graphs, union-find and the graph algorithms.
5. Parsers and automata as operators against reference definitions: FIRST and
   FOLLOW, the shift/reduce loop, subset construction, the step limit of the
   Turing machine; the trie and the bit set as further kinds of `MCStructures`.
6. Failing allocations in `LRUCache`, `make_set` and `insert_garc`, as actions of
   the modules that exist.

Runs stay few: a new structure is a kind that an MC module chooses in its first
state.

Proofs. *(done)* the queue and the map with their refinements; the pool; the
agent on top of it; the four buffers and the caches down to their abstract
specifications, in the composition that is checked; the three hash
tables and the two kinds of union-find. Next, for what is left of `structures`, once
its operators are recursive functions: `LinksAgree` of the singly linked list, with
the lemmas on links of the caches as a model.
