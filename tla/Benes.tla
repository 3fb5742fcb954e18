--------------------------------- MODULE Benes ---------------------------------
(***************************************************************************)
(* Benes networks of any size (BenesNetwork.cpp): 2k - 1 levels, each of   *)
(* which leaves an element where it is or moves it by the shift amount of  *)
(* the level, and how levels are best done together                        *)
(* (OptimizePermutations.cpp).  A permutation is a function on 0..(n - 1). *)
(***************************************************************************)
EXTENDS Integers, SequencesExt, TLC

LOCAL AbsOf(x) == IF x < 0 THEN -x ELSE x
\* TLC computes the values of f once.
LOCAL Evaluated(f) == f @@ <<>>

depth(n) == CHOOSE k \in 1..n : 2^k >= n /\ \A l \in 1..(k - 1) : 2^l < n
levelToDepthMap(k, i) == k - 1 - AbsOf(k - 1 - i)
shamt(n, k, i) == (n \div 2^levelToDepthMap(k, i) + 1) \div 2

--------------------------------------------------------------------------------
(***************************************************************************)
(* The outer levels of a network of sz elements, sz0 of which go through   *)
(* the upper inner network.  A walk alternates between the two sides: from *)
(* a node on side dir, along the edge e, through an inner network, to the  *)
(* node of the other side with the same value, whose sibling is next.      *)
(* Each walk ends at a stop node, and starts again at one that no walk has *)
(* met; an element without sibling is where the first starts.              *)
(***************************************************************************)
WalkInit(sz, sz0) ==
  LET sz1 == sz - sz0
      odd == IF sz0 > sz1 THEN sz0 - 1 ELSE sz - 1
  IN [dir |-> 0, e |-> 0, done |-> FALSE, marked |-> <<{}, {}>>,
      node |-> IF sz0 = sz1 THEN 0 ELSE odd,
      stop_node |-> IF sz0 = sz1 THEN sz0 ELSE odd,
      stop_side |-> IF sz0 = sz1 THEN 0 ELSE 1,
      first |-> <<>>, last |-> <<>>, inner |-> <<<<>>, <<>>>>]

Lower(node, sz0) == IF node >= sz0 THEN 1 ELSE 0
Sibling(node, sz0) == IF node < sz0 THEN node + sz0 ELSE node - sz0

\* On the other side, at node3, which the edge e2 has led to.
Turned(s, node3, e2, sz, sz0) ==
  LET unmarked == {j \in 0..(sz - 1) : j \notin s.marked[s.dir + 1]}
      start == Min(unmarked)
  IN IF node3 # s.stop_node \/ s.dir # s.stop_side
     THEN [s EXCEPT !.node = Sibling(node3, sz0), !.e = e2]
     ELSE IF unmarked = {} THEN [s EXCEPT !.done = TRUE]
     ELSE [s EXCEPT !.node = start, !.e = 0, !.stop_node = Sibling(start, sz0), !.stop_side = s.dir]

WalkStep(s, perm, iperm, sz, sz0) ==
  LET net == (Lower(s.node, sz0) + AbsOf(s.e)) % 2
      node1 == s.node - sz0 * Lower(s.node, sz0)
      node3 == IF s.dir = 0 THEN iperm[s.node] ELSE perm[s.node]
      node2 == node3 - sz0 * Lower(node3, sz0)
      e2 == (node3 - (node2 + net * sz0)) \div sz0
      left == IF s.dir = 0 THEN s.node ELSE node3
      marked == [s.marked EXCEPT ![s.dir + 1] = @ \union {s.node}, ![2 - s.dir] = @ \union {node3}]
  IN Turned([s EXCEPT
               !.dir = 1 - s.dir, !.marked = marked,
               !.first = (left :> IF s.dir = 0 THEN s.e ELSE -e2) @@ @,
               !.last = (net * sz0 + (IF s.dir = 0 THEN node2 ELSE node1) :> IF s.dir = 0 THEN e2 ELSE -s.e) @@ @,
               !.inner[net + 1] = (IF s.dir = 0 THEN node2 :> node1 ELSE node1 :> node2) @@ @],
            node3, e2, sz, sz0)

RECURSIVE Walk(_, _, _, _, _)
Walk(s, perm, iperm, sz, sz0) ==
  IF s.done THEN s ELSE Walk(WalkStep(s, perm, iperm, sz, sz0), perm, iperm, sz, sz0)

\* The edges <<level, position>> of the elements from delta_j on.
RECURSIVE recursiveGeneralBenesInit(_, _, _, _, _)
recursiveGeneralBenesInit(n, k, d, delta_j, perm) ==
  LET sz == Cardinality(DOMAIN perm)
      sz0 == shamt(n, k, d)
      iperm == [v \in 0..(sz - 1) |-> CHOOSE j \in 0..(sz - 1) : perm[j] = v]
      w == Walk(WalkInit(sz, sz0), perm, iperm, sz, sz0)
      At(level, row) == [x \in {level} \X {delta_j + j : j \in DOMAIN row} |-> row[x[2] - delta_j]]
  IN IF d = k - 1
     THEN At(d, [j \in 0..(sz - 1) |-> IF perm[0] = 0 THEN 0 ELSE 1 - 2 * j])
     ELSE At(d, w.first) @@ At(2 * k - 2 - d, w.last)
            @@ recursiveGeneralBenesInit(n, k, d + 1, delta_j, w.inner[1])
            @@ recursiveGeneralBenesInit(n, k, d + 1, delta_j + sz0, w.inner[2])

LOCAL Network(n, k, perm) ==
  [n |-> n, k |-> k, level |-> Evaluated(recursiveGeneralBenesInit(n, k, 0, 0, perm))]
GeneralBenesNetwork(perm) == Network(Cardinality(DOMAIN perm), depth(Cardinality(DOMAIN perm)), perm)

\* Where numLvls levels from startLvl on take the element at i.
Routed(net, startLvl, numLvls, i) ==
  FoldLeft(LAMBDA j, l : j + shamt(net.n, net.k, l) * net.level[<<l, j>>],
           i, [x \in 1..numLvls |-> startLvl + x - 1])

testNetwork(net, perm) == \A j \in 0..(net.n - 1) : perm[Routed(net, 0, 2 * net.k - 1, j)] = j

collapseBenesLevels(net, startLvl, numLvls) ==
  Evaluated([i \in 0..(net.n - 1) |-> Routed(net, startLvl, numLvls, i) - i])

--------------------------------------------------------------------------------
(***************************************************************************)
(* The number of shift amounts other than zero when levels i to i + j are  *)
(* done together; good: amounts that are the same modulo n are the same.   *)
(***************************************************************************)
\* Mutant of addOffset: elements move forwards only.
addOffset_Forwards(x, offset, n) == {y \in x \union {v + offset : v \in x} : -n < y /\ y < n}

addOffset(x, offset, n) ==
  {y \in x \union {v + offset : v \in x} \union {v - offset : v \in x} : -n < y /\ y < n}
reducedCount(x, n) == Cardinality({v % n : v \in x})

CollapseCost(n, k, good, i, j) ==
  LET x == FoldLeft(LAMBDA s, l : addOffset(s, shamt(n, k, l), n), {0}, [y \in 1..(j + 1) |-> i + y - 1])
  IN (IF good THEN reducedCount(x, n) ELSE Cardinality(x)) - 1

buildBenesCostTable(n, k, good) ==
  Evaluated([i \in 0..(2 * k - 2) |-> Evaluated([j \in 0..(2 * k - 2 - i) |-> CollapseCost(n, k, good, i, j)])])

(***************************************************************************)
(* optimalBenesAux for every first level at once, with one level more than *)
(* row was computed for: a cost, and how many levels to do together in     *)
(* turn.  Of several best choices the first counts.                        *)
(***************************************************************************)
OneMore(row, costTab, nlev) ==
  LET Cost(i, j) == row[i + j + 1].cost + costTab[i][j]
      Best(i) == CHOOSE j \in 0..(nlev - i - 1) :
                   \A l \in 0..(nlev - i - 1) : Cost(i, j) < Cost(i, l) \/ (Cost(i, j) = Cost(i, l) /\ j <= l)
  IN Evaluated([i \in 0..nlev |->
       IF i = nlev THEN row[i]
       ELSE [cost |-> Cost(i, Best(i)), solution |-> <<Best(i) + 1>> \o row[i + Best(i) + 1].solution]])

AllTogether(costTab, nlev) ==
  [i \in 0..nlev |-> IF i = nlev THEN [cost |-> 0, solution |-> <<>>]
                     ELSE [cost |-> costTab[i][nlev - i - 1], solution |-> <<nlev - i>>]]

optimalBenes(n, budget, good) ==
  LET k == depth(n)
      costTab == buildBenesCostTable(n, k, good)
      row[b \in 1..budget] ==
        IF b = 1 THEN AllTogether(costTab, 2 * k - 1) ELSE OneMore(row[b - 1], costTab, 2 * k - 1)
  IN row[budget][0]

--------------------------------------------------------------------------------
(***************************************************************************)
(* The edges of a bipartite graph in which every node has the same number  *)
(* of edges, coloured so that those of a colour are a matching             *)
(* (matching.cpp).  An edge is a record of from, to and label, labels are  *)
(* unique.  The neighbour lists are hash tables: they, and parallel edges, *)
(* are visited by increasing rank, any function on nodes and labels.       *)
(***************************************************************************)
\* The value on the edge from u to v; one that is not there is a dummy of zero.
Value(f, u, v) == IF <<u, v>> \in DOMAIN f THEN f[<<u, v>>] ELSE 0
Zero(f) == [e \in DOMAIN f |-> 0]

\* Node 0 is the source, 1 to n are the left nodes, then come the right ones and the sink.
buildFlowGraph(edges, n) ==
  LET sink == 2 * n + 1
      Ends == {<<e.from + 1, n + e.to + 1>> : e \in edges}
      Many(u, v) == Cardinality({e \in edges : <<e.from + 1, n + e.to + 1>> = <<u, v>>})
  IN [x \in {<<0, i>> : i \in 1..n} \union Ends \union {<<n + j, sink>> : j \in 1..n} |->
        IF x \in Ends THEN Many(x[1], x[2]) ELSE 1]

\* The order in which a hash table gives its keys.
ByRank(keys, rank) ==
  [i \in 1..Cardinality(keys) |-> CHOOSE k \in keys : Cardinality({x \in keys : rank[x] < rank[k]}) = i - 1]

Neighbours(capacity, u, rank) ==
  ByRank({e[2] : e \in {x \in DOMAIN capacity : x[1] = u}}
           \union {e[1] : e \in {x \in DOMAIN capacity : x[2] = u}}, rank)

\* What more can flow from u to v, also by flowing back less.
Residual(capacity, flow, u, v) == Value(capacity, u, v) - Value(flow, u, v) + Value(flow, v, u)

(***************************************************************************)
(* augmenting_path: a breadth-first search, which ends when it finds the   *)
(* sink.  path[v] is the node before v, on a shortest path from the source.*)
(***************************************************************************)
RECURSIVE Search(_, _, _, _, _, _)
Search(capacity, flow, sink, rank, que, path) ==
  IF que = <<>> \/ sink \in DOMAIN path THEN path
  ELSE LET u == Head(que)
           found == SelectSeq(Neighbours(capacity, u, rank),
                              LAMBDA v : v \notin DOMAIN path /\ Residual(capacity, flow, u, v) > 0)
       IN Search(capacity, flow, sink, rank, Tail(que) \o found,
                 path @@ [v \in ToSet(found) |-> u])

RECURSIVE PathTo(_, _)
PathTo(path, v) == IF v = 0 THEN <<>> ELSE Append(PathTo(path, path[v]), <<path[v], v>>)

\* Less flow back if that is enough, else more forward.
Pushed(flow, u, v, more) ==
  LET back == Value(flow, v, u)
  IN IF back >= more THEN (<<v, u>> :> back - more) @@ flow
     ELSE (<<u, v>> :> Value(flow, u, v) + more - back)
            @@ (IF back > 0 THEN <<v, u>> :> 0 ELSE <<>>) @@ flow

\* Edmonds and Karp: augmenting paths until there are none; the flow and its value.
RECURSIVE maximum_flow(_, _, _, _, _)
maximum_flow(capacity, flow, sink, rank, flowVal) ==
  LET path == Search(capacity, flow, sink, rank, <<0>>, 0 :> 0)
      steps == PathTo(path, sink)
      more == Min({Residual(capacity, flow, e[1], e[2]) : e \in ToSet(steps)})
  IN IF sink \notin DOMAIN path THEN [flow |-> flow, value |-> flowVal]
     ELSE maximum_flow(capacity, FoldLeft(LAMBDA f, e : Pushed(f, e[1], e[2], more), flow, steps),
                       sink, rank, flowVal + more)

\* The first uncoloured edges between u and v, as many as the flow between them.
Taken(edges, colour, n, u, v, flow, rank) ==
  LET free == ByRank({e.label : e \in {x \in edges : x.from + 1 = u /\ n + x.to + 1 = v
                                                        /\ x.label \notin DOMAIN colour}}, rank)
  IN ToSet(SubSeq(free, 1, flow))

(***************************************************************************)
(* partitionToMatchings: one colour for each maximum flow, whose edges     *)
(* lose the capacity that it used.                                         *)
(***************************************************************************)
Remaining(capacity, flow, n) ==
  [e \in DOMAIN capacity |-> IF e[1] \in 1..n THEN capacity[e] - Value(flow, e[1], e[2]) ELSE capacity[e]]

RECURSIVE ColouredFrom(_, _, _, _, _, _)
ColouredFrom(edges, n, rank, capacity, colour, color) ==
  LET max == maximum_flow(capacity, Zero(capacity), 2 * n + 1, rank, 0)
      taken == UNION {Taken(edges, colour, n, e[1], e[2], max.flow[e], rank)
                        : e \in {x \in DOMAIN max.flow : x[1] \in 1..n}}
  IN IF max.value = 0 THEN colour
     ELSE ColouredFrom(edges, n, rank, Remaining(capacity, max.flow, n),
                       colour @@ [l \in taken |-> color], color + 1)

\* The colour of each label; n nodes on either side.
partitionToMatchings(edges, n, rank) ==
  ColouredFrom(edges, n, rank, buildFlowGraph(edges, n), <<>>, 1)
================================================================================
