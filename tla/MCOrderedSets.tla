---------------------------- MODULE MCOrderedSets ----------------------------
(***************************************************************************)
(* The ordered containers for model checking: the search trees, the        *)
(* B-trees, the skip list and the heaps, one behaviour for each kind.  A   *)
(* behaviour of the kind "array" is an array that is given to the sorts.   *)
(***************************************************************************)
EXTENDS Integers, Sequences, TLC

CONSTANTS Kinds,       \* the containers to check
          BagKinds,    \* those that are checked with repeated keys too
          Keys, BagKeys, MaxItems, Priors,
          TreapKeys, TreapItems, PlainKeys, BTreeKeys, BTreeItems, PlusItems,
          MinDegree, MAX_LEVEL,
          HeapKeys, HeapItems,
          QuicksortThreshold, SortKeys, SortItems

VARIABLES kind, table, rest, num_items, cursor, reply, multi

treeVars == <<table, rest, num_items, cursor, reply, multi>>
setVars == <<kind, treeVars>>

Treaps == INSTANCE Treap WITH Keys <- TreapKeys, MaxItems <- TreapItems
Plain == INSTANCE BinaryTrees WITH Keys <- PlainKeys
Rand == INSTANCE BinaryTrees WITH Keys <- TreapKeys, MaxItems <- TreapItems
AVL == INSTANCE AVLTree
RB == INSTANCE RbTree
B == INSTANCE BTree WITH Keys <- BTreeKeys, MaxItems <- BTreeItems
BPlus == INSTANCE BTree WITH MaxItems <- PlusItems
Skip == INSTANCE SkipList WITH Keys <- TreapKeys, MaxItems <- TreapItems
Heap == INSTANCE Heaps WITH Keys <- HeapKeys, MaxItems <- HeapItems
Small == INSTANCE Heaps WITH Keys <- HeapKeys

Sorts == INSTANCE Sorting

ASSUME ContainersAreLegal == B!MinDegreeAtLeastTwo /\ Treaps!PriorsBelowNull

Ranked == {"ranked_treap", "ranked_tree", "randomized", "ranked_avl", "ranked_rb"}
Rotating == {"avl", "ranked_avl", "rb", "ranked_rb", "splay"}
HeapKinds == {"lheap", "array_heap", "leftist", "pairing", "binomial", "fibonacci"}

\* The items are told apart by their tags.
Arrays ==
  {[i \in DOMAIN s |-> [key |-> s[i], tag |-> i]] :
     s \in UNION {[1..n -> SortKeys] : n \in 1..SortItems}}

SetInit ==
  /\ kind \in Kinds
  /\ CASE kind = "btree" -> B!Init
       [] kind = "bplus" -> BPlus!PlusInit
       [] kind = "skip_list" -> Skip!Init
       [] kind = "lheap" -> Heap!LhInit
       [] kind \in {"array_heap", "pairing", "binomial"} -> Heap!ArInit
       [] kind = "leftist" -> Heap!LeInit
       [] kind = "fibonacci" -> Small!FiInit(2)
       [] kind = "array" -> /\ table \in Arrays
                            /\ rest = 0 /\ num_items = 0 /\ cursor = 0 /\ reply = 0 /\ multi = FALSE
       [] OTHER -> Plain!Init
  /\ multi => kind \in BagKinds \cup HeapKinds

SetNext ==
  /\ kind' = kind
  /\ CASE kind = "treap" -> Treaps!Next
       [] kind = "ranked_treap" -> Treaps!RkNext
       [] kind = "tree" -> Plain!Next
       [] kind = "ranked_tree" -> Plain!RkNext
       [] kind = "randomized" -> Rand!RzNext
       [] kind = "avl" -> AVL!Next
       [] kind = "ranked_avl" -> AVL!RkNext
       [] kind = "rb" -> RB!Next
       [] kind = "ranked_rb" -> RB!RkNext
       [] kind = "splay" -> Plain!SpNext
       [] kind = "btree" -> B!Next
       [] kind = "bplus" -> BPlus!PlusNext
       [] kind = "skip_list" -> Skip!Next
       [] kind = "lheap" -> Heap!LhNext
       [] kind = "array_heap" -> Heap!ArNext
       [] kind = "leftist" -> Heap!LeNext
       [] kind = "pairing" -> Small!PaNext
       [] kind = "binomial" -> Heap!BiNext
       [] kind = "fibonacci" -> Small!FiNext
       [] kind = "array" -> UNCHANGED treeVars

SetSpec == SetInit /\ [][SetNext]_setVars

Abs == INSTANCE SearchTree

-----------------------------------------------------------------------------
(***************************************************************************)
(* Every container keeps the shape that its class promises, after every    *)
(* sequence of calls: the keys in order and the counters right; the        *)
(* priorities of a treap in heap order; the heights of AVL nodes within    *)
(* one; no red child of a red node and as many black nodes on every path;  *)
(* B-tree nodes neither too full nor too empty and the leaves at one depth *)
(* (in a B+ tree chained in order); every level of a skip list a part of   *)
(* the one below; a heap with no child before its parent, the links of     *)
(* LHeap those of a complete tree and its ring of leaves, the trees of a   *)
(* binomial heap binomial, no tree of a Fibonacci heap too thin.  These    *)
(* are the verify() functions of the classes, and for the others what      *)
(* their comments say.                                                     *)
(***************************************************************************)
ShapesKept ==
  CASE kind = "treap" -> Treaps!Verified
    [] kind = "ranked_treap" -> Treaps!RkVerified
    [] kind = "tree" -> Plain!Verified
    [] kind = "ranked_tree" -> Plain!RkVerified
    [] kind = "randomized" -> Rand!RzVerified
    [] kind = "avl" -> AVL!Verified
    [] kind = "ranked_avl" -> AVL!RkVerified
    [] kind = "rb" -> RB!Verified
    [] kind = "ranked_rb" -> RB!RkVerified
    [] kind = "splay" -> Plain!SpVerified
    [] kind = "btree" -> B!Verified
    [] kind = "bplus" -> BPlus!PlusVerified
    [] kind = "skip_list" -> Skip!Verified
    [] kind = "lheap" -> Heap!LhVerified
    [] kind = "array_heap" -> Heap!ArVerified
    [] kind = "leftist" -> Heap!LeVerified
    [] kind = "pairing" -> Small!PaVerified
    [] kind = "binomial" -> Heap!BiVerified
    [] kind = "fibonacci" -> Small!FiVerified
    [] kind = "array" -> TRUE

(***************************************************************************)
(* The questions are answered from the shape as from the keys in order:    *)
(* search and find, min and max in every search tree, B-tree and skip      *)
(* list, select and position where the nodes have counts.  The pre-order   *)
(* and post-order iterators, which RankedTreap alone has and which walk    *)
(* with a stack, visit the keys as its recursive traversals do.            *)
(***************************************************************************)
QuestionsAnswered ==
  CASE kind = "btree" -> B!BAnswered
    [] kind = "bplus" -> BPlus!PlusAnswered
    [] kind = "skip_list" -> Skip!ListAnswered
    [] kind \in HeapKinds \cup {"array"} -> TRUE
    [] OTHER -> /\ Abs!Answered
                /\ kind \in Ranked => Abs!RanksAnswered
                /\ kind = "ranked_treap" => Treaps!WalksAgree

(***************************************************************************)
(* Every call changes the keys, and answers, as the sorted bag does: no    *)
(* rotation, split, merge, join, promotion or cut loses, doubles or        *)
(* invents a key, and remove and get take exactly the one they answer.  An *)
(* iterator visits the keys in order, and its del() takes the key that it  *)
(* is at and goes to the next one.  Where the removal rotates (AVL, red-   *)
(* black and splay trees) that holds of the del() itself and of what       *)
(* follows as long as the iterator's root is the root and its stack is the *)
(* way up from its node; see RemovalReachesEveryKey for when it is not.    *)
(***************************************************************************)
OrderedContainersAreBags ==
  [][CASE kind = "randomized" -> [Abs!AsBag(TRUE)!Next]_setVars
       [] kind = "btree" -> [B!BBag!Next]_setVars
       [] kind = "bplus" -> [BPlus!BPlusBag!Next]_setVars
       [] kind = "skip_list" -> [Skip!ListBag!Next]_setVars
       [] kind = "lheap" -> [Heap!LinkedBag!HeapNext]_setVars
       [] kind = "leftist" -> [Heap!LeBag!HeapNext]_setVars
       [] kind \in {"array_heap", "pairing", "binomial", "fibonacci"} ->
            [Heap!HeapBag!HeapNext]_setVars
       [] kind = "array" -> TRUE
       [] kind \in Rotating -> [Abs!AsRotatedBag!Next]_setVars
       [] OTHER -> [Abs!AsBag(FALSE)!Next]_setVars]_setVars

(***************************************************************************)
(* Every sort, given the whole array or the part without its ends, sorts   *)
(* it and leaves the rest alone; those that compare neighbours, merge or   *)
(* distribute keep the order of equal items; binary and sequential search  *)
(* find the place of every key in the result.                              *)
(***************************************************************************)
SortsSort ==
  kind = "array" => \A l \in {1, 2} :
    l <= Len(table) => Sorts!SortsRight(table, l, Len(table) + 1 - l, 16, 8)

(***************************************************************************)
(* The counter of the items is the number of them.  What insert and remove *)
(* of the red-black tree should do with repeated keys: rbtree.hpp says     *)
(* remove deletes one leaf, or swaps in the in-order successor and deletes *)
(* that instead.                                                           *)
(***************************************************************************)
RepeatedKeysKept == kind = "rb" => num_items = Len(Abs!Inorder(table))

(***************************************************************************)
(* A loop over a tree with next() and del() ends behind the greatest key:  *)
(* remove_if, which every container offers, is said to erase every element *)
(* that matches, via the iterator's own del().                             *)
(***************************************************************************)
RemovalReachesEveryKey ==
  [][cursor.curr > 0 /\ cursor'.curr = 0
       => \A k \in Abs!ToSet(Abs!Inorder(table')) : k <= cursor.curr]_setVars
=============================================================================
