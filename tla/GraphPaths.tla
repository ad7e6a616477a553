----------------------------- MODULE GraphPaths -----------------------------
(***************************************************************************)
(* The spanning trees, shortest paths, cuts, flows, matchings and colours: *)
(* graphalgorithms.hpp, allpairsshortestpaths.hpp, maxflow.hpp,            *)
(* bipartitematching.hpp and graphcoloring.hpp.  A graph is one of         *)
(* GraphSearch with the weights of its arcs.  Where the order of a heap, a *)
(* hash table or a random number decides, all outcomes are followed, as a  *)
(* set of results; a tree that is built has the nodes and arcs it copies.  *)
(***************************************************************************)
EXTENDS GraphSearch

MAX == 1000          \* bound: what no sum of weights reaches

\* The function that is v everywhere on S.
Constantly(S, v) == CHOOSE f \in [S -> {v}] : TRUE

ZERO(g) == Constantly(NodeSet(g), 0)
OnlyAt(g, s) == [Constantly(NodeSet(g), MAX) EXCEPT ![s] = 0]

Rel == INSTANCE UnionFind WITH Members <- {}, Rooms <- {}, forest <- 0

RECURSIVE Total(_, _)
Total(g, arcs) == IF arcs = <<>> THEN 0 ELSE g.weight[Head(arcs)] + Total(g, Tail(arcs))

-----------------------------------------------------------------------------
(***************************************************************************)
(* Kruskal: the arcs by weight, in the order of the list of arcs.          *)
(***************************************************************************)
RECURSIVE ByWeight(_, _)
ByWeight(g, l) ==
  LET below == SelectSeq(Tail(l), LAMBDA a : g.weight[a] < g.weight[Head(l)])
      rest == SelectSeq(Tail(l), LAMBDA a : g.weight[a] >= g.weight[Head(l)])
  IN  IF Len(l) < 2 THEN l ELSE ByWeight(g, below) \o <<Head(l)>> \o ByWeight(g, rest)

WithNode(tree, n) ==
  IF n \in ToSet(tree.nodes) THEN tree ELSE [tree EXCEPT !.nodes = Append(@, n)]

Kruskal(g) ==
  LET Take(t, a) ==
        LET met == WithNode(WithNode(t.tree, g.src[a]), g.tgt[a])
            rel == Rel!Named(t.rel, g.src[a], g.tgt[a])
        IN  CASE Len(t.tree.arcs) >= Len(g.nodes) - 1 -> t
              [] Len(t.tree.arcs) < Len(g.nodes) - 1
                   /\ Rel!are_connected(rel, g.src[a], g.tgt[a]) -> [tree |-> met, rel |-> rel]
              [] OTHER -> [tree |-> [met EXCEPT !.arcs = Append(@, a)],
                           rel |-> Rel!join(rel, g.src[a], g.tgt[a])]
  IN  FoldLeft(Take, [tree |-> NoPart, rel |-> Rel!RelationOf(Len(g.nodes))],
               ByWeight(g, g.arcs)).tree

-----------------------------------------------------------------------------
(***************************************************************************)
(* ArcHeap: for a node the lightest arc towards it.  key is what the heap  *)
(* compares, index[n] the arc that the table has for n, or 0.  Of arcs     *)
(* with equal keys any may be on top.                                      *)
(***************************************************************************)
NoArcs(g) == [heap |-> {}, index |-> Constantly(NodeSet(g), 0)]

\* A bug: the first arc towards a node stays, whatever comes later.
insert_first_arc(h, key, a, t) ==
  IF h.index[t] # 0 THEN h
  ELSE [heap |-> h.heap \cup {a}, index |-> [h.index EXCEPT ![t] = a]]

insert_arc(h, key, a, t) ==
  LET put == [heap |-> (h.heap \ {h.index[t]}) \cup {a}, index |-> [h.index EXCEPT ![t] = a]]
  IN  IF h.index[t] # 0 /\ key[h.index[t]] < key[a] THEN h ELSE put

Tops(h, key) == {a \in h.heap : \A b \in h.heap : key[a] <= key[b]}

\* InSync is what the program throws a logic_error without.
InSync(g, h, a) == a \in {h.index[g.src[a]], h.index[g.tgt[a]]}
get_min_arc(g, h, a) ==
  LET n == IF h.index[g.src[a]] = a THEN g.src[a] ELSE g.tgt[a]
  IN  [heap |-> h.heap \ {a}, index |-> [h.index EXCEPT ![n] = 0]]

\* The trees that Prim can build on; t also has what is visited.
RECURSIVE PrimTrees(_, _)
PrimTrees(g, t) ==
  LET Reach1(u, a) == [u EXCEPT !.h = insert_arc(@, g.weight, a, get_tgt_node(g, a, u.p))]
      After(a) ==
        LET p == IF g.src[a] \in t.nodes THEN g.tgt[a] ELSE g.src[a]
            u == [t EXCEPT !.h = get_min_arc(g, @, a), !.sync = @ /\ InSync(g, t.h, a)]
            v == [VisitArc(VisitNode(u, p), a) EXCEPT
                    !.p = p, !.tree = [nodes |-> Append(@.nodes, p), arcs |-> Append(@.arcs, a)]]
        IN  CASE a \in t.arcs -> u
              [] a \notin t.arcs /\ p \in t.nodes -> VisitArc(u, a)
              [] a \notin t.arcs /\ p \notin t.nodes -> FoldLeft(Reach1, v, g.adjacent[p])
  IN  IF t.h.heap = {} \/ Len(t.tree.nodes) = Len(g.nodes) THEN {t}
      ELSE UNION {PrimTrees(g, After(a)) : a \in Tops(t.h, g.weight)}

Prim(g, tags, start) ==
  LET u == reset_tag(tags)
      Reach1(h, a) == insert_arc(h, g.weight, a, get_tgt_node(g, a, start))
  IN  PrimTrees(g, [nodes |-> u.nodes \cup {start}, arcs |-> u.arcs, p |-> start, sync |-> TRUE,
                    tree |-> [nodes |-> <<start>>, arcs |-> <<>>],
                    h |-> FoldLeft(Reach1, NoArcs(g), g.adjacent[start])])

-----------------------------------------------------------------------------
(***************************************************************************)
(* Dijkstra, and A*, which adds heuristic[n] to the arcs towards n.  An    *)
(* arc is put in the heap once, with the potential it has then.  The       *)
(* search for a path stops at end; 0: it builds the whole tree.            *)
(***************************************************************************)
put_in_heap(g, t, a, tgt, sum, heuristic) ==
  LET pot == [t.pot EXCEPT ![a] = sum + heuristic[tgt]]
  IN  [VisitArc(t, a) EXCEPT !.pot = pot, !.h = insert_arc(@, pot, a, tgt)]

RECURSIVE Grow(_, _, _, _)
Grow(g, t, end, heuristic) ==
  LET After(a) ==
        LET p == IF g.src[a] \in t.nodes THEN g.tgt[a] ELSE g.src[a]
            u == [t EXCEPT !.h = get_min_arc(g, @, a), !.sync = @ /\ InSync(g, t.h, a)]
            v == [VisitNode(u, p) EXCEPT
                    !.acc[p] = u.pot[a],
                    !.tree = [nodes |-> Append(@.nodes, p), arcs |-> Append(@.arcs, a)]]
            Put(w, b) ==
              LET q == get_tgt_node(g, b, p)
              IN  CASE b \in w.arcs -> w
                    [] b \notin w.arcs /\ q \in w.nodes -> VisitArc(w, b)
                    [] b \notin w.arcs /\ q \notin w.nodes ->
                         put_in_heap(g, w, b, q, w.acc[p] + g.weight[b], heuristic)
        IN  CASE {g.src[a], g.tgt[a]} \subseteq t.nodes -> Grow(g, u, end, heuristic)
              [] p \notin t.nodes /\ p = end -> {v}
              [] p \notin t.nodes /\ p # end ->
                   Grow(g, FoldLeft(Put, v, g.adjacent[p]), end, heuristic)
  IN  IF t.h.heap = {} \/ Len(t.tree.nodes) = Len(g.nodes) THEN {t}
      ELSE UNION {After(a) : a \in Tops(t.h, t.pot)}

Start(g, tags, start, heuristic) ==
  LET u == reset_tag(tags)
      zero == Constantly(ArcSet(g), 0)
      Put(w, a) == put_in_heap(g, w, a, get_tgt_node(g, a, start), g.weight[a], heuristic)
  IN  FoldLeft(Put, [nodes |-> u.nodes \cup {start}, arcs |-> u.arcs, sync |-> TRUE, pot |-> zero,
                     acc |-> ZERO(g), h |-> NoArcs(g),
                     tree |-> [nodes |-> <<start>>, arcs |-> <<>>]],
               g.adjacent[start])

build_min_path_tree(g, tags, start) == Grow(g, Start(g, tags, start, ZERO(g)), 0, ZERO(g))

build_partial_min_path_tree(g, tags, start, end) ==
  Grow(g, Start(g, tags, start, ZERO(g)), end, ZERO(g))

Astar(g, tags, start, end, heuristic) == Grow(g, Start(g, tags, start, heuristic), end, heuristic)

AsGraph(g, tree) ==
  Adjacency([directed |-> g.directed, nodes |-> tree.nodes, arcs |-> tree.arcs,
             adjacent |-> <<>>, src |-> g.src, tgt |-> g.tgt, weight |-> g.weight])

NoTags == [nodes |-> {}, arcs |-> {}]

\* A node that is not in the tree has no node to look for.
search_min_path(g, tree, start, end) ==
  IF end \in ToSet(tree.nodes)
  THEN depth_first_search_path(AsGraph(g, tree), NoTags, start, end) ELSE <<>>

-----------------------------------------------------------------------------
(***************************************************************************)
(* Bellman and Ford.                                                       *)
(***************************************************************************)
relax(g, t, a) ==
  LET sum == t.acc[g.src[a]] + g.weight[a]
  IN  IF t.acc[g.src[a]] # MAX /\ sum < t.acc[g.tgt[a]]
      THEN [t EXCEPT !.acc[g.tgt[a]] = sum, !.arcs[g.tgt[a]] = a] ELSE t

Relaxed(g, t) == FoldLeft(LAMBDA u, a : relax(g, u, a), t, g.arcs)

\* n rounds, as long as they change something; then one that must not.
RECURSIVE generic_algorithm(_, _, _)
generic_algorithm(g, t, n) ==
  LET u == Relaxed(g, t)
  IN  IF n = 0 \/ u = t THEN [result |-> u = t, t |-> u] ELSE generic_algorithm(g, u, n - 1)

BellmanFord(g, start) ==
  LET zero == [acc |-> OnlyAt(g, start), arcs |-> ZERO(g)]
      done == generic_algorithm(g, zero, Len(g.nodes) - 1)
      Add(tree, n) ==
        LET a == done.t.arcs[n]
        IN  IF a = 0 THEN tree
            ELSE [WithNode(WithNode(tree, g.src[a]), g.tgt[a]) EXCEPT !.arcs = Append(@, a)]
  IN  [result |-> done.result,
       tree |-> IF done.result THEN FoldLeft(Add, NoPart, g.nodes) ELSE NoPart]

-----------------------------------------------------------------------------
(***************************************************************************)
(* Floyd and Warshall, and Johnson: m has dist[i, j] and next[i, j], the   *)
(* node after i on the way to j, or -1.  A round of Floyd and Warshall is  *)
(* one step: row and column k, which it reads, change only where a cycle   *)
(* is negative, and then the diagonal is below 0 in both.                  *)
(***************************************************************************)
Better(m, i, j, w, via) ==
  IF w < m.dist[i, j] THEN [m EXCEPT !.dist[i, j] = w, !.next[i, j] = via] ELSE m

FloydWarshall(g) ==
  LET pairs == NodeSet(g) \X NodeSet(g)
      none == [dist |-> FoldLeft(LAMBDA d, n : [d EXCEPT ![n, n] = 0], Constantly(pairs, MAX), g.nodes),
               next |-> Constantly(pairs, -1)]
      Put(m, a) ==
        LET there == Better(m, g.src[a], g.tgt[a], g.weight[a], g.tgt[a])
        IN  IF g.directed THEN there ELSE Better(there, g.tgt[a], g.src[a], g.weight[a], g.src[a])
      Sum(m, k, p) == IF MAX \in {m.dist[p[1], k], m.dist[k, p[2]]} THEN MAX
                      ELSE m.dist[p[1], k] + m.dist[k, p[2]]
      Round(m, k) ==
        [dist |-> [p \in pairs |-> Min({m.dist[p], Sum(m, k, p)})],
         next |-> [p \in pairs |-> IF Sum(m, k, p) < m.dist[p] THEN m.next[p[1], k] ELSE m.next[p]]]
      last == FoldLeft(Round, FoldLeft(Put, none, g.arcs), g.nodes)
  IN  [dist |-> last.dist, next |-> last.next,
       has_negative_cycle |-> \E n \in NodeSet(g) : last.dist[n, n] < 0]

RECURSIVE path_between(_, _, _)
path_between(m, i, j) ==
  CASE i = j -> <<i>>
    [] i # j /\ m.next[i, j] = -1 -> <<>>
    [] i # j /\ m.next[i, j] # -1 -> <<i>> \o path_between(m, m.next[i, j], j)

\* changed: whether the last of the rounds still changed something.
RECURSIVE relax_potentials(_, _, _)
relax_potentials(g, h, rounds) ==
  LET Edge(u, a) ==
        LET sum == u[g.src[a]] + g.weight[a]
        IN  IF sum < u[g.tgt[a]] THEN [u EXCEPT ![g.tgt[a]] = sum] ELSE u
      relaxed == FoldLeft(Edge, h, g.arcs)
  IN  CASE rounds = 0 -> [h |-> h, changed |-> TRUE]
        [] rounds > 0 /\ relaxed = h -> [h |-> h, changed |-> FALSE]
        [] rounds > 0 /\ relaxed # h -> relax_potentials(g, relaxed, rounds - 1)

\* Dijkstra over the weights w, without a heap: the first of the nearest nodes.
RECURSIVE Nearest(_, _, _, _)
Nearest(g, w, src, t) ==
  LET open == SelectSeq(g.nodes, LAMBDA n : n \notin t.visited /\ t.d[n] # MAX)
      near == SelectSeq(open, LAMBDA n : \A m \in ToSet(open) : t.d[n] <= t.d[m])
      u == Head(near)
      Edge(v, a) ==
        LET q == g.tgt[a]
        IN  IF v.d[u] + w[a] < v.d[q]
            THEN [v EXCEPT !.d[q] = v.d[u] + w[a], !.nxt[q] = IF u = src THEN q ELSE v.nxt[u]]
            ELSE v
  IN  IF open = <<>> THEN t
      ELSE Nearest(g, w, src, FoldLeft(Edge, [t EXCEPT !.visited = @ \cup {u}], g.adjacent[u]))

Johnson(g) ==
  LET rounds == Len(g.nodes) - 1
      first == IF rounds = 0 THEN ZERO(g) ELSE relax_potentials(g, ZERO(g), rounds).h
      last == relax_potentials(g, first, 1)
      h == last.h
      w == [a \in ArcSet(g) |-> g.weight[a] + h[g.src[a]] - h[g.tgt[a]]]
      From(s) == Nearest(g, w, s, [visited |-> {}, d |-> OnlyAt(g, s),
                                   nxt |-> Constantly(NodeSet(g), -1)])
      of == [s \in NodeSet(g) |-> From(s)]
  IN  IF last.changed THEN [has_negative_cycle |-> TRUE]
      ELSE [has_negative_cycle |-> FALSE,
            dist |-> [p \in NodeSet(g) \X NodeSet(g) |->
                        IF of[p[1]].d[p[2]] = MAX THEN MAX
                        ELSE of[p[1]].d[p[2]] - h[p[1]] + h[p[2]]],
            next |-> [p \in NodeSet(g) \X NodeSet(g) |-> of[p[1]].nxt[p[2]]]]

-----------------------------------------------------------------------------
(***************************************************************************)
(* What they are to find: by the subsets of the arcs, and by the walks of  *)
(* at most as many arcs as there are nodes.                                *)
(***************************************************************************)
Weights(g, S) == MapThenSumSet(LAMBDA a : g.weight[a], S)

\* The least weight of sets of arcs that leave as many components as all arcs do.
LeastForest(g) ==
  LET all == Components(g, ArcSet(g), {})
  IN  Min({Weights(g, S) : S \in {T \in SUBSET ArcSet(g) : Components(g, T, {}) = all}})

\* A forest with the components of g and no weight more than it needs; Kruskal's has the
\* nodes that arcs lead to, and Prim's, of a connected graph, all of them.
SpanningRight(g, tags) ==
  ~g.directed /\ (\A a \in ArcSet(g) : g.weight[a] >= 0) =>
    LET all == Components(g, ArcSet(g), {})
        Spans(tree) == /\ IsInjective(tree.nodes) /\ IsInjective(tree.arcs)
                       /\ Components(g, ToSet(tree.arcs), {}) = all
                       /\ Total(g, tree.arcs) = LeastForest(g)
    IN  /\ Spans(Kruskal(g))
        /\ Connected(g) => \A s \in NodeSet(g) : \A t \in Prim(g, tags, s) :
                             t.sync /\ Spans(t.tree) /\ ToSet(t.tree.nodes) = NodeSet(g)

\* dist[k][n]: the least weight of a walk of at most k arcs from s to n, or MAX.
RECURSIVE Walks(_, _, _)
Walks(g, s, k) ==
  IF k = 0 THEN [n \in NodeSet(g) |-> IF n = s THEN 0 ELSE MAX]
  ELSE LET d == Walks(g, s, k - 1)
           By(n) == {d[g.src[a]] + g.weight[a] : a \in {b \in ArcSet(g) : g.tgt[b] = n}}
                    \cup (IF g.directed THEN {}
                          ELSE {d[g.tgt[a]] + g.weight[a] : a \in {b \in ArcSet(g) : g.src[b] = n}})
       IN  [n \in NodeSet(g) |-> Min({d[n]} \cup {w \in By(n) : w < MAX \div 2})]

Shortest(g, s) == Walks(g, s, Len(g.nodes))

NegativeFrom(g, s) == Walks(g, s, Len(g.nodes)) # Walks(g, s, Len(g.nodes) - 1)

\* The nodes reached from s, each at its shortest distance along the arcs of the tree.
IsShortestTree(g, tree, s) ==
  LET h == AsGraph(g, tree)
  IN  /\ IsOrderOf(tree.nodes, Reach(g, s))
      /\ IsInjective(tree.arcs) /\ Len(tree.arcs) = Len(tree.nodes) - 1
      /\ \A n \in Reach(g, s) : Shortest(h, s)[n] = Shortest(g, s)[n]

PathWeight(g, path) ==
  LET Lightest(p, q) == Min({g.weight[a] : a \in {b \in ArcSet(g) :
                               q \in Steps(g, {b}, {p})}})
  IN  MapThenSumSet(LAMBDA i : Lightest(path[i], path[i + 1]), 1..Len(path) - 1)

IsShortestPath(g, path, s, e) ==
  /\ IsPath(g, path, s, e)
  /\ path # <<>> => PathWeight(g, path) = Shortest(g, s)[e]

\* Dijkstra, for weights that are not negative: the whole tree and the part up to a node;
\* and A*, with the heuristic that it has by default.
DijkstraRight(g, tags) ==
  (\A a \in ArcSet(g) : g.weight[a] >= 0) => \A s \in NodeSet(g) :
    /\ \A t \in build_min_path_tree(g, tags, s) : t.sync /\ IsShortestTree(g, t.tree, s)
    /\ \A e \in NodeSet(g) \ {s} : \A t \in build_partial_min_path_tree(g, tags, s, e)
                                             \cup Astar(g, tags, s, e, ZERO(g)) :
         t.sync /\ IsShortestPath(g, search_min_path(g, t.tree, s, e), s, e)

\* Bellman and Ford, on digraphs: the tree, where no cycle that is reached is negative.
BellmanFordRight(g) ==
  g.directed => \A s \in NodeSet(g) :
    LET b == BellmanFord(g, s)
    IN  /\ b.result = ~NegativeFrom(g, s)
        /\ b.result => IF Reach(g, s) = {s} THEN b.tree = NoPart
                       ELSE IsShortestTree(g, b.tree, s)

\* Floyd and Warshall and Johnson: every distance, and a path of that weight.
AllPairsRight(g) ==
  LET negative == \E s \in NodeSet(g) : NegativeFrom(g, s)
      IsRight(m) == \A s, e \in NodeSet(g) :
                      /\ m.dist[s, e] = Shortest(g, s)[e]
                      /\ IsShortestPath(g, path_between(m, s, e), s, e)
      floyd == FloydWarshall(g)
      johnson == Johnson(g)
  IN  /\ g.directed \/ ~negative => /\ floyd.has_negative_cycle = negative
                                    /\ ~negative => IsRight(floyd)
      /\ g.directed => /\ johnson.has_negative_cycle = negative
                       /\ ~negative => IsRight(johnson)

-----------------------------------------------------------------------------
(***************************************************************************)
(* Karger: a node of the contracted graph is the list of the nodes that    *)
(* became one, an arc [src, tgt, info] has the arc it stands for.          *)
(***************************************************************************)
build_mgraph(g) ==
  [nodes |-> {<<n>> : n \in NodeSet(g)},
   arcs |-> [i \in DOMAIN g.arcs |-> [src |-> <<g.src[g.arcs[i]]>>, tgt |-> <<g.tgt[g.arcs[i]]>>,
                                      info |-> g.arcs[i]]]]

EndsOf(a) == {a.src, a.tgt}

\* The arcs of p that do not lead to q lead to r now.
contract_arc(mg, p, q, r) ==
  LET moved == SelectSeq(mg.arcs, LAMBDA a : p \in EndsOf(a) /\ q \notin EndsOf(a))
  IN  [i \in DOMAIN moved |->
         [moved[i] EXCEPT !.src = IF moved[i].src = p THEN moved[i].tgt ELSE @, !.tgt = r]]

Contracted(mg, ma) ==
  LET x == ma.src
      y == ma.tgt
      z == x \o y
  IN  [nodes |-> (mg.nodes \ {x, y}) \cup {z},
       arcs |-> SelectSeq(mg.arcs, LAMBDA a : {x, y} \cap EndsOf(a) = {})
                  \o contract_arc(mg, x, y, z) \o contract_arc(mg, y, x, z)]

\* What is left when any arcs were chosen until limit nodes are left.
RECURSIVE contract(_, _)
contract(mg, limit) ==
  IF Cardinality(mg.nodes) <= limit THEN {mg}
  ELSE UNION {contract(Contracted(mg, mg.arcs[i]), limit) : i \in DOMAIN mg.arcs}

\* After num_it iterations: the first of the smallest cuts that were found.
RECURSIVE KargerMinCut(_, _)
KargerMinCut(g, num_it) ==
  LET Cut(mg) == [ss |-> mg.arcs[1].src, ts |-> mg.arcs[1].tgt,
                  cut |-> [i \in DOMAIN mg.arcs |-> mg.arcs[i].info]]
      found == {Cut(mg) : mg \in contract(build_mgraph(g), 2)}
  IN  IF num_it = 1 THEN found
      ELSE {IF Len(c.cut) < Len(b.cut) THEN c ELSE b :
              b \in KargerMinCut(g, num_it - 1), c \in found}

-----------------------------------------------------------------------------
(***************************************************************************)
(* Maximum flow: r[u, v] is the capacity that is left from u to v.         *)
(***************************************************************************)
residual(g) ==
  FoldLeft(LAMBDA r, a : [r EXCEPT ![g.src[a], g.tgt[a]] = @ + g.weight[a]],
           [p \in NodeSet(g) \X NodeSet(g) |-> 0], g.arcs)

Open(r, u) == {p[2] : p \in {q \in DOMAIN r : q[1] = u /\ r[q] > 0}}

\* FordFulkerson: depth first; untried are the edges that u has left, in any order.
RECURSIVE find_augmenting_path_rec(_, _, _, _, _)
find_augmenting_path_rec(r, u, t, s, untried) ==
  LET Down(v) == find_augmenting_path_rec(
                   r, v, t, [path |-> Append(s.path, v), visited |-> s.visited \cup {v},
                             found |-> v = t], Open(r, v))
      After(v) == IF v \in s.visited THEN {s} ELSE Down(v)
  IN  CASE s.found -> {s}
        [] ~s.found /\ untried = {} -> {[s EXCEPT !.path = Front(@)]}
        [] OTHER -> UNION {find_augmenting_path_rec(r, u, t, o, untried \ {v}) :
                             <<v, o>> \in UNION {{v} \X After(v) : v \in untried}}

DepthFirstPaths(r, s, t) ==
  {o.path : o \in find_augmenting_path_rec(
                    r, s, t, [path |-> <<s>>, visited |-> {s}, found |-> s = t], Open(r, s))}

\* EdmondsKarp: breadth first; the nodes behind u are put in the queue in any order.
RECURSIVE find_augmenting_path(_, _, _, _, _)
find_augmenting_path(r, s, t, parent, q) ==
  LET u == Head(q)
      new == Open(r, u) \ ({s} \cup {n \in DOMAIN parent : parent[n] # 0})
      after == [n \in DOMAIN parent |-> IF n \in new THEN u ELSE parent[n]]
  IN  CASE q = <<>> \/ (q # <<>> /\ Head(q) = t) ->
             IF t # s /\ parent[t] = 0 THEN {<<>>} ELSE {BackTo(parent, t, s)}
        [] OTHER -> UNION {find_augmenting_path(r, s, t, after, Tail(q) \o order) :
                             order \in SetToSeqs(new)}

BreadthFirstPaths(g, r, s, t) ==
  find_augmenting_path(r, s, t, [n \in NodeSet(g) |-> 0], <<s>>)

Bottleneck(r, path) == Min({r[path[i], path[i + 1]] : i \in 1..Len(path) - 1})

\* A bug: what is sent cannot be taken back.
PushedForGood(r, path) ==
  [e \in DOMAIN r |-> IF \E i \in 1..Len(path) - 1 : e = <<path[i], path[i + 1]>>
                      THEN r[e] - Bottleneck(r, path) ELSE r[e]]

Pushed(r, path) ==
  LET On == {<<path[i], path[i + 1]>> : i \in 1..Len(path) - 1}
  IN  [e \in DOMAIN r |-> CASE e \in On -> r[e] - Bottleneck(r, path)
                            [] e \notin On /\ <<e[2], e[1]>> \in On -> r[e] + Bottleneck(r, path)
                            [] OTHER -> r[e]]

\* All that max_flow of a source and another node, the sink, may leave behind.
RECURSIVE Augmented(_, _, _, _, _)
Augmented(g, r, s, t, breadth) ==
  LET paths == IF breadth THEN BreadthFirstPaths(g, r, s, t) ELSE DepthFirstPaths(r, s, t)
  IN  UNION {IF path = <<>> THEN {[total |-> 0, residual |-> r]}
             ELSE {[f EXCEPT !.total = @ + Bottleneck(r, path)] :
                     f \in Augmented(g, Pushed(r, path), s, t, breadth)} : path \in paths}

FordFulkerson(g, source, sink) == Augmented(g, residual(g), source, sink, FALSE)
EdmondsKarp(g, source, sink) == Augmented(g, residual(g), source, sink, TRUE)

-----------------------------------------------------------------------------
(***************************************************************************)
(* Bipartite matching: match[n] is the node that n has, or 0.              *)
(***************************************************************************)
RECURSIVE try_augment(_, _, _, _)
try_augment(g, left, s, u) ==
  LET Along(t, a) ==
        LET v == get_tgt_node(g, a, u)
            seen == [t EXCEPT !.visited = @ \cup {v}]
            freed == IF t.match[v] = 0 THEN [seen EXCEPT !.done = TRUE]
                     ELSE try_augment(g, left, seen, t.match[v])
        IN  CASE t.done \/ v \in left \cup t.visited -> t
              [] ~t.done /\ v \notin left \cup t.visited ->
                   IF freed.done THEN [freed EXCEPT !.match[v] = u, !.match[u] = v] ELSE freed
  IN  FoldLeft(Along, s, g.adjacent[u])

\* order: the nodes of left as their hash table goes through them.
BipartiteMatching(g, order) ==
  LET Add(match, u) ==
        IF match[u] # 0 THEN match
        ELSE try_augment(g, ToSet(order), [visited |-> {}, match |-> match, done |-> FALSE], u).match
  IN  FoldLeft(Add, [n \in NodeSet(g) |-> 0], order)

-----------------------------------------------------------------------------
(***************************************************************************)
(* Greedy colouring: the nodes by degree; equal ones in any order.         *)
(***************************************************************************)
RECURSIVE SortedNodes(_, _)
SortedNodes(g, S) ==
  LET first == {n \in S : \A m \in S : Len(g.adjacent[m]) <= Len(g.adjacent[n])}
  IN  IF S = {} THEN {<<>>} ELSE UNION {{<<n>> \o s : s \in SortedNodes(g, S \ {n})} : n \in first}

\* -1: not coloured yet.
greedy_graph_coloring(g) ==
  LET Color(color, p) ==
        LET used == {color[get_tgt_node(g, a, p)] : a \in ToSet(g.adjacent[p])}
        IN  [color EXCEPT ![p] = Min((0..Len(g.nodes)) \ used)]
  IN  {FoldLeft(Color, [n \in NodeSet(g) |-> -1], nodes) : nodes \in SortedNodes(g, NodeSet(g))}

count_colors_used(color) ==
  IF DOMAIN color = {} THEN 0 ELSE Max({color[n] : n \in DOMAIN color}) + 1

-----------------------------------------------------------------------------
(***************************************************************************)
(* What they are to find, over the subsets of the nodes and of the arcs.   *)
(***************************************************************************)
Crossing(g, S) == {a \in ArcSet(g) : (g.src[a] \in S) # (g.tgt[a] \in S)}

Sides(g) == SUBSET NodeSet(g) \ {{}, NodeSet(g)}

\* Karger, on a connected graph without loops: a cut every time, some time a smallest one.
KargerRight(g) ==
  Connected(g) /\ Len(g.nodes) > 1 /\ (\A a \in ArcSet(g) : g.src[a] # g.tgt[a]) =>
    LET smallest == Min({Cardinality(Crossing(g, S)) : S \in Sides(g)})
        once == KargerMinCut(g, 1)
    IN  /\ \A c \in KargerMinCut(g, 2) :
             /\ IsOrderOf(c.ss \o c.ts, NodeSet(g)) /\ c.ss # <<>> /\ c.ts # <<>>
             /\ IsOrderOf(c.cut, Crossing(g, ToSet(c.ss)))
        /\ \E c \in once : Len(c.cut) = smallest

\* The flow is as large as the smallest capacity between the source and the sink.
FlowsRight(g) ==
  g.directed => \A s \in NodeSet(g) : \A t \in NodeSet(g) \ {s} :
    LET Capacity(S) == MapThenSumSet(LAMBDA a : g.weight[a],
                                     {a \in ArcSet(g) : g.src[a] \in S /\ g.tgt[a] \notin S})
        least == Min({Capacity(S) : S \in {T \in SUBSET NodeSet(g) : s \in T /\ t \notin T}})
        Sent(r, u, v) == residual(g)[u, v] - r[u, v]
        Out(r, u) == MapThenSumSet(LAMBDA v : Sent(r, u, v), NodeSet(g))
    IN  \A f \in FordFulkerson(g, s, t) \cup EdmondsKarp(g, s, t) :
          /\ f.total = least
          /\ \A e \in DOMAIN f.residual : f.residual[e] >= 0
          /\ \A u \in NodeSet(g) : Out(f.residual, u) = CASE u = s -> least
                                                          [] u = t -> -least
                                                          [] OTHER -> 0

\* A matching along arcs between the sides, as large as one can be, whatever the order.
MatchingRight(g) ==
  ~g.directed => \A left \in SUBSET NodeSet(g) :
    LET across == Crossing(g, left)
        Apart(M) == \A a, b \in M : a = b \/ {g.src[a], g.tgt[a]} \cap {g.src[b], g.tgt[b]} = {}
        most == Max({Cardinality(M) : M \in {N \in SUBSET across : Apart(N)}})
    IN  \A order \in SetToSeqs(left) :
          LET match == BipartiteMatching(g, order)
              matched == {n \in NodeSet(g) : match[n] # 0}
          IN  /\ \A n \in matched : /\ match[match[n]] = n
                                    /\ \E a \in across : {g.src[a], g.tgt[a]} = {n, match[n]}
              /\ Cardinality(matched \cap left) = most

\* Of a graph: no two neighbours have one colour, and no more colours than the degrees allow.
ColoringRight(g) ==
  ~g.directed => \A color \in greedy_graph_coloring(g) :
    /\ \A a \in ArcSet(g) : g.src[a] = g.tgt[a] \/ color[g.src[a]] # color[g.tgt[a]]
    /\ \A n \in NodeSet(g) : color[n] \in 0..Len(g.adjacent[n])
    /\ count_colors_used(color) = Cardinality({color[n] : n \in NodeSet(g)})
=============================================================================
