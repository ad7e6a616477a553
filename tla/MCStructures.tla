---------------------------- MODULE MCStructures ----------------------------
(***************************************************************************)
(* The structures of Structures, the linked lists and the graphs in one    *)
(* run: a behaviour follows one object, or two, of one kind.  The          *)
(* variables of the other kinds are 0.  A behaviour of the kinds "search"  *)
(* and "weighted" is a graph that is given to the algorithms.              *)
(***************************************************************************)
EXTENDS Structures, TLC

CONSTANTS ListItems, Directed, NodeInfos, MaxArcs, AdjacentDel,
          SearchArcs, WeightedArcs,                           \* how many arcs a graph may have
          k1, k2, k3, k4, k5

\* The keys of a table collide modulo 2, 4 and 8.
KeyHash == k1 :> 0 @@ k2 :> 4 @@ k3 :> 8 @@ k4 :> 12 @@ k5 :> 3

VARIABLES list, it, answer, graph, cursor, problem

listVars == <<list, it, answer>>
graphVars == <<graph, cursor>>
linkedVars == <<listVars, graphVars, problem>>
structureVars == <<vars, linkedVars>>

Linked == INSTANCE Lists WITH Items <- ListItems
G == INSTANCE Graph
Algorithms == INSTANCE GraphPaths

LinkedLists == {"SLList", "DLList"}
Problems == {"search", "weighted"}

-----------------------------------------------------------------------------
(***************************************************************************)
(* The graphs that the algorithms get: four nodes, a subset of the pairs   *)
(* as arcs, with parallel arcs and a loop, in the order of the pairs or    *)
(* against it, with the weights of a pattern, and the tags that another    *)
(* algorithm has left or none.                                             *)
(***************************************************************************)
Pairs(directed) ==
  IF directed THEN <<<<1, 2>>, <<2, 3>>, <<3, 1>>, <<2, 4>>, <<3, 2>>, <<1, 3>>, <<1, 2>>, <<4, 4>>>>
  ELSE <<<<1, 2>>, <<3, 1>>, <<1, 4>>, <<2, 3>>, <<4, 2>>, <<2, 1>>, <<3, 3>>, <<3, 4>>>>

Patterns == {<<2, 1, 1, 3, 2, 4, 1, 1>>, <<1, 1, 1, 1, 0, 1, 1, 1>>, <<3, -2, 1, 2, 2, -1, 1, 0>>}

GraphOf(directed, chosen, ascending, weight) ==
  LET pairs == Pairs(directed)
      arcs == SelectSeq([i \in DOMAIN pairs |-> i], LAMBDA i : i \in chosen)
  IN  Algorithms!Adjacency(
        [directed |-> directed, nodes |-> <<1, 2, 3, 4>>, adjacent |-> <<>>, weight |-> weight,
         arcs |-> IF ascending THEN arcs ELSE Algorithms!Reverse(arcs),
         src |-> [i \in DOMAIN pairs |-> pairs[i][1]], tgt |-> [i \in DOMAIN pairs |-> pairs[i][2]]])

Fresh == [nodes |-> {}, arcs |-> {}]
Stale == [nodes |-> {1, 2}, arcs |-> {1, 3}]

SearchProblem ==
  \E directed, ascending \in BOOLEAN, chosen \in SUBSET (1..SearchArcs), tags \in {Fresh, Stale} :
    problem = [g |-> GraphOf(directed, chosen, ascending, <<>>), tags |-> tags]

WeightedProblem ==
  \E directed \in BOOLEAN, chosen \in SUBSET (1..WeightedArcs), weight \in Patterns :
    problem = [g |-> GraphOf(directed, chosen, TRUE, weight), tags |-> Stale]

-----------------------------------------------------------------------------
LinkedInit ==
  /\ CASE kind = "SLList" -> Linked!Init
       [] kind = "DLList" -> Linked!DlInit
       [] kind \notin LinkedLists -> list = 0 /\ it = 0 /\ answer = 0
  /\ IF kind = "Graph" THEN G!Init ELSE graph = 0 /\ cursor = 0
  /\ CASE kind = "search" -> SearchProblem
       [] kind = "weighted" -> WeightedProblem
       [] kind \notin Problems -> problem = 0

StructuresInit == kind \in Kinds /\ ArraysInit /\ LinkedInit

LinkedNext ==
  /\ UNCHANGED <<vars, problem>>
  /\ CASE kind = "SLList" -> Linked!Next
       [] kind = "DLList" -> Linked!DlNextState
       [] kind = "Graph" -> G!Next
       [] kind \in Problems -> TRUE
  /\ Still(LinkedLists, listVars) /\ Still({"Graph"}, graphVars)

StructuresNext ==
  \/ kind \in ArrayKinds /\ Next /\ UNCHANGED linkedVars
  \/ kind \notin ArrayKinds /\ LinkedNext

StructuresSpec == StructuresInit /\ [][StructuresNext]_structureVars

\* The addresses and values of caches are compared for equality only.
Symmetry == Permutations(Nodes) \cup Permutations(Values)

-----------------------------------------------------------------------------
(***************************************************************************)
(* What refers to the same thing from two sides agrees: the last node of a *)
(* list and tail, next and prev, the counters and the lengths; the list of *)
(* the arcs of a graph and the adjacency lists.                            *)
(***************************************************************************)
LinksAgree ==
  CASE kind = "SLList" -> Linked!Verified
    [] kind = "DLList" -> Linked!DlVerified
    [] kind = "Graph" -> G!ListsAgree
    [] OTHER -> TRUE

(***************************************************************************)
(* Graph, for the run that calls remove_adjacent_arc_if: graph.hpp says of *)
(* an arc that it appears once in each endpoint's adjacency list.          *)
(***************************************************************************)
AdjacencyComplete == kind = "Graph" => G!ListsAgree

(***************************************************************************)
(* A linked list changes, and answers, as a sequence does, and a graph as  *)
(* a list of nodes and a list of arcs: removing a node takes its arcs and  *)
(* no others, del() of an iterator the item it is at, a copy is equal and  *)
(* apart.                                                                  *)
(***************************************************************************)
ListsAreSequences ==
  [][/\ kind = "SLList" => [Linked!Sequences!Next]_(Linked!Sequences!vars)
     /\ kind = "DLList" => [Linked!DlSequences!Next]_(Linked!DlSequences!vars)
     /\ kind = "Graph" => [G!AsLists!Next]_(G!AsLists!vars)]_structureVars

-----------------------------------------------------------------------------
(***************************************************************************)
(* Whatever an earlier algorithm left in the tags: the traversals meet     *)
(* every node once, in an order of depth or of distance; a path is found   *)
(* where there is one; a cycle is reported where there is one; the         *)
(* iterative functions do as the recursive ones.                           *)
(***************************************************************************)
TraversalsRight ==
  kind = "search" => LET g == problem.g
                         tags == problem.tags
                     IN  /\ Algorithms!TraversalRight(g, tags)
                         /\ Algorithms!BreadthRight(g, tags)
                         /\ Algorithms!PathsRight(g, tags)
                         /\ Algorithms!CyclesRight(g, tags)

(***************************************************************************)
(* The parts of a graph are those that reachability defines: connected     *)
(* components, bridges, cut nodes and what they separate, strong           *)
(* components by both algorithms; and both topological orders and the      *)
(* ranks respect every arc.                                                *)
(***************************************************************************)
ComponentsRight ==
  kind = "search" => LET g == problem.g
                         tags == problem.tags
                     IN  /\ Algorithms!PartsRight(g, tags)
                         /\ Algorithms!CutsRight(g)
                         /\ Algorithms!StrongRight(g, tags)
                         /\ Algorithms!OrdersRight(g, tags)

(***************************************************************************)
(* No tree weighs less than those of Kruskal and Prim, and no path less    *)
(* than those of Dijkstra, Bellman and Ford, Floyd and Warshall, and       *)
(* Johnson, which tell a negative cycle where there is one; the heap of    *)
(* arcs and its table never disagree, whichever of equal arcs is taken.    *)
(***************************************************************************)
ShortestRight ==
  kind = "weighted" => LET g == problem.g
                           tags == problem.tags
                       IN  /\ Algorithms!SpanningRight(g, tags)
                           /\ Algorithms!DijkstraRight(g, tags)
                           /\ Algorithms!BellmanFordRight(g)
                           /\ Algorithms!AllPairsRight(g)

(***************************************************************************)
(* Karger's cut separates the graph, both flows are as large as the least  *)
(* cut, the matching as large as any, and no neighbours get one colour,    *)
(* whatever the order of the hash tables and the random numbers.           *)
(***************************************************************************)
FlowsRight ==
  kind = "weighted" =>
    LET g == problem.g
        positive == \A a \in Algorithms!ArcSet(g) : g.weight[a] >= 0
    IN  /\ ~g.directed => Algorithms!KargerRight(g)
        /\ positive => Algorithms!FlowsRight(g)
        /\ Algorithms!MatchingRight(g) /\ Algorithms!ColoringRight(g)
=============================================================================
