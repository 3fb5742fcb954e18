------------------------------ MODULE PermNetwork ------------------------------
(***************************************************************************)
(* Permutations of the slots by a network of layers, each of which moves   *)
(* slots along one dimension (permutations.cpp, PermNetwork.cpp), and the  *)
(* choice of its layers (OptimizePermutations.cpp).  Dimensions count from *)
(* 1, all other indices from 0.                                            *)
(***************************************************************************)
EXTENDS EncryptedArray

Bn == INSTANCE Benes

applyPermToVec(in, p1) == [i \in DOMAIN p1 |-> in[p1[i]]]
applyPermsToVec(in, p2, p1) == [i \in DOMAIN p1 |-> in[p2[p1[i]]]]

--------------------------------------------------------------------------------
(***************************************************************************)
(* The choice of layers.  A solution for a generator is a tree: a node     *)
(* splits its order into those of two children, a leaf is a dimension with *)
(* one Benes network, if it has the token of the middle (mid), or two.     *)
(* The budget bounds the layers; the cost counts the rotations.            *)
(***************************************************************************)
NTL_MAX_LONG == 2^30
NoSolution == [cost |-> NTL_MAX_LONG, solution |-> <<>>]

\* Of several candidates with the same cost the first; at numbers them.
Cheapest(candidates) ==
  CHOOSE c \in candidates :
    \A d \in candidates : c.cost < d.cost \/ (c.cost = d.cost /\ c.at <= d.at)
Entry(c) == [cost |-> c.cost, solution |-> c.solution]

Leaf(order, good, mid, first, second) ==
  [at |-> 0, cost |-> first.cost + second.cost,
   solution |-> [order |-> order, good |-> good, mid |-> mid, frstBenes |-> first.solution,
                 scndBenes |-> second.solution, children |-> <<>>]]
LeafFor(order, good, budget, mid) ==
  IF mid = 1 THEN Leaf(order, good, 1, Bn!optimalBenes(order, budget, good), [cost |-> 0, solution |-> <<>>])
  ELSE Leaf(order, good, 0, Bn!optimalBenes(order, budget \div 2, good),
            Bn!optimalBenes(order, budget - budget \div 2, good))

\* Of two orders with a common factor only the first is good.
GoodRight(good, order1, order2) == good /\ Coprime(order1, order2)

\* tab has the entries of the smaller orders.
Split(tab, order, good, budget, mid, order1, budget1, mid1) ==
  LET s1 == tab[<<order1, good, budget1, mid1>>]
      s2 == tab[<<order \div order1, GoodRight(good, order1, order \div order1), budget - budget1, mid - mid1>>]
  IN [at |-> (order1 * budget + budget1) * 2 + mid1,
      cost |-> IF NTL_MAX_LONG \in {s1.cost, s2.cost} THEN NTL_MAX_LONG ELSE s1.cost + s2.cost,
      solution |-> [order |-> order, good |-> good, mid |-> mid, frstBenes |-> <<>>, scndBenes |-> <<>>,
                    children |-> <<s1.solution, s2.solution>>]]

optimalLower(tab, order, good, budget, mid) ==
  LET Splits == {Split(tab, order, good, budget, mid, o, b, t)
                   : o \in {x \in 2..(order - 1) : order % x = 0}, b \in 1..(budget - 1), t \in 0..mid}
  IN IF mid = 0 /\ budget = 1 THEN NoSolution
     ELSE Entry(Cheapest({LeafFor(order, good, budget, mid)} \union Splits))

\* The entries for all factors of the orders, from the smallest factor on.
LowerTable(orders, budget) ==
  LET Factors == SetToSortSeq(UNION {{x \in 2..o : o % x = 0} : o \in orders}, <)
  IN FoldLeft(LAMBDA tab, order :
                tab @@ [key \in {order} \X BOOLEAN \X (1..budget) \X (0..1) |->
                          optimalLower(tab, order, key[2], key[3], key[4])],
              <<>>, Factors)

\* rest[<<budget, mid>>]: the entries for the generators after gen.
optimalUpper(lower, rest, gen, budget, mid) ==
  LET Shares == {[at |-> 2 * b + t, s |-> lower[<<gen.order, gen.good, b, t>>], t |-> rest[<<budget - b, mid - t>>]]
                   : b \in 1..budget, t \in 0..mid}
      Solved == {x \in Shares : x.s.cost # NTL_MAX_LONG /\ x.t.cost # NTL_MAX_LONG}
  IN IF Solved = {} THEN NoSolution
     ELSE Entry(Cheapest({[at |-> x.at, cost |-> x.s.cost + x.t.cost,
                           solution |-> <<x.s.solution>> \o x.t.solution] : x \in Solved}))

UpperTable(lower, gens, depthBound) ==
  FoldRight(LAMBDA gen, rest :
              Computed([x \in (0..depthBound) \X (0..1) |-> optimalUpper(lower, rest, gen, x[1], x[2])]),
            gens, [x \in (0..depthBound) \X (0..1) |-> [cost |-> 0, solution |-> <<>>]])

--------------------------------------------------------------------------------
(***************************************************************************)
(* The tree for a generator, as the sequence of its leaves: the child with *)
(* the token of the middle comes last, and an element moves along a leaf   *)
(* by e times as many positions of the generator (computeEvalues).         *)
(***************************************************************************)
CRTcoeff(p, q) == p * (CHOOSE x \in 0..(q - 1) : (p * x) % q = 1 % q)

ChildSteps(l, r, ee, genOrd) ==
  LET f1 == CRTcoeff(l.order, r.order)
  IN IF ~r.good THEN <<ee * r.order, ee>>
     ELSE IF ~l.good THEN <<ee, ee * l.order>>
     ELSE <<(ee * (l.order * r.order + 1 - f1)) % genOrd, (ee * f1) % genOrd>>

RECURSIVE LeavesOf(_, _, _)
LeavesOf(node, e, genOrd) ==
  LET swapped == node.children[1].mid = 1
      l == node.children[IF swapped THEN 2 ELSE 1]
      r == node.children[IF swapped THEN 1 ELSE 2]
      steps == ChildSteps(l, r, e, genOrd)
  IN IF node.children = <<>>
     THEN <<[size |-> node.order, good |-> node.good, e |-> e,
             frstBenes |-> node.frstBenes, scndBenes |-> node.scndBenes]>>
     ELSE LeavesOf(l, steps[1], genOrd) \o LeavesOf(r, steps[2], genOrd)

copyToGenTree(solution, genIdx) ==
  [genIdx |-> genIdx, size |-> solution.order, leaves |-> LeavesOf(solution, 1, solution.order)]

numLayers(trees) ==
  FoldLeft(LAMBDA d, leaf : d + Len(leaf.frstBenes) + Len(leaf.scndBenes), 0,
           FlattenSeq([i \in DOMAIN trees |-> trees[i].leaves]))

\* The position along its generator of the element with index i in the cube of the leaves.
ComputeOneGenMapping(T, i) ==
  LET dims == [j \in DOMAIN T.leaves |-> T.leaves[j].size]
  IN FoldLeft(LAMBDA x, j : (x + getCoord(dims, i, j) * T.leaves[j].e) % T.size, 0, [j \in DOMAIN dims |-> j])

\* The slot of the element with index i in the cube of all leaves; dims by generator.
MapToArray(trees, dims, i) ==
  LET sizes == [j \in DOMAIN trees |-> trees[j].size]
  IN FoldLeft(LAMBDA t, j : t + ComputeOneGenMapping(trees[j], getCoord(sizes, i, j)) * prod(dims, trees[j].genIdx + 1),
              0, [j \in DOMAIN trees |-> j])

WithMaps(trees, dims, cost) ==
  LET map2array == Computed([i \in 0..(getSize(dims) - 1) |-> MapToArray(trees, dims, i)])
  IN [trees |-> trees, cost |-> cost, depth |-> numLayers(trees), map2array |-> map2array,
      map2cube |-> Computed([s \in DOMAIN map2array |-> CHOOSE i \in DOMAIN map2array : map2array[i] = s])]

(***************************************************************************)
(* buildOptimalTrees: the generator in the middle gets the last tree.      *)
(* gens is a sequence of an order and whether it is good.                  *)
(***************************************************************************)
TreesOf(entry, gens) ==
  LET All == [i \in DOMAIN gens |-> i]
      Placed == SelectSeq(All, LAMBDA i : entry.solution[i].mid = 0)
                  \o SelectSeq(All, LAMBDA i : entry.solution[i].mid = 1)
  IN IF entry.cost = NTL_MAX_LONG THEN [cost |-> NTL_MAX_LONG]
     ELSE WithMaps([j \in DOMAIN Placed |-> copyToGenTree(entry.solution[Placed[j]], Placed[j])],
                   [i \in DOMAIN gens |-> gens[i].order], entry.cost)

buildOptimalTrees(gens, depthBound) ==
  IF gens = <<>> THEN [trees |-> <<>>, cost |-> 0, depth |-> 0, map2array |-> 0 :> 0, map2cube |-> 0 :> 0]
  ELSE TreesOf(UpperTable(LowerTable({gens[i].order : i \in DOMAIN gens}, depthBound),
                          gens, depthBound)[<<depthBound, 1>>], gens)

--------------------------------------------------------------------------------
(***************************************************************************)
(* breakPermTo3: pi permutes each subcube of dimensions dim on.  With the  *)
(* edges from column to column coloured, an element goes to the row of its *)
(* colour, along its row to the column, and then to the row that it is to  *)
(* have; the code has these as rho3, rho2 and rho1.                        *)
(***************************************************************************)
Coloured(to, n2, rank) ==
  Bn!partitionToMatchings({[from |-> i % n2, to |-> to[i] % n2, label |-> i] : i \in DOMAIN to}, n2, rank)

\* to: the slice at offset, a permutation of 0..(n - 1); colour: of its elements.
BrokenBy(to, n2, offset, colour) ==
  LET row(i) == colour[i] - 1
      FromColumn(x) == CHOOSE i \in DOMAIN to : row(i) = x \div n2 /\ i % n2 = x % n2
      ToColumn(x) == CHOOSE i \in DOMAIN to : row(i) = x \div n2 /\ to[i] % n2 = x % n2
  IN [rho1 |-> [x \in {offset + i : i \in DOMAIN to} |-> to[ToColumn(x - offset)] \div n2],
      rho2 |-> [x \in {offset + i : i \in DOMAIN to} |-> to[FromColumn(x - offset)] % n2],
      rho3 |-> [x \in {offset + i : i \in DOMAIN to} |-> row(x - offset)]]

BreakSlice(to, n2, offset, rank) == BrokenBy(to, n2, offset, Coloured(to, n2, rank))

Joined(f, g) == [rho1 |-> f.rho1 @@ g.rho1, rho2 |-> f.rho2 @@ g.rho2, rho3 |-> f.rho3 @@ g.rho3]
breakPermTo3(dims, pi, dim, rank) ==
  LET n == prod(dims, dim)
  IN FoldLeft(LAMBDA f, s : Joined(f, BreakSlice([i \in 0..(n - 1) |-> pi[s * n + i]], prod(dims, dim + 1), s * n, rank)),
              [rho1 |-> <<>>, rho2 |-> <<>>, rho3 |-> <<>>],
              [s \in 1..(getSize(dims) \div n) |-> s - 1])

(***************************************************************************)
(* One permutation of columns for each dimension but the last, that one,   *)
(* and again backwards: the dimensions before i are done, inner permutes   *)
(* those from i on.                                                        *)
(***************************************************************************)
BreakDimension(s, rho, i) ==
  [before |-> Append(s.before, [dim |-> i, at |-> rho.rho1]), inner |-> rho.rho2,
   after |-> <<[dim |-> i, at |-> rho.rho3]>> \o s.after]
AllBroken(s, last) == s.before \o <<[dim |-> last, at |-> s.inner]>> \o s.after
breakPermByDim(dims, pi, rank) ==
  AllBroken(FoldLeft(LAMBDA s, i : BreakDimension(s, breakPermTo3(dims, s.inner, i, rank), i),
                     [before |-> <<>>, inner |-> pi, after |-> <<>>], [i \in 1..(Len(dims) - 1) |-> i]),
            Len(dims))

--------------------------------------------------------------------------------
(***************************************************************************)
(* ColPerm: how far each element is moved along the dimension of p, in one *)
(* layer, or in those of a Benes network for each column.                  *)
(***************************************************************************)
getShiftAmounts(dims, p) ==
  LET i(k) == getCoord(dims, k, p.dim)
      Moved1(k) == addCoord(dims, k, p.dim, p.at[k] - i(k))
  IN <<Computed([x \in DOMAIN p.at |->
                   LET k == CHOOSE y \in DOMAIN p.at : Moved1(y) = x IN i(k) - p.at[k]])>>

\* The column through x has its elements a stride apart.
ColumnNetwork(dims, p, base) ==
  Bn!GeneralBenesNetwork([i \in 0..(dims[p.dim] - 1) |-> p.at[base + i * prod(dims, p.dim + 1)]])
BaseOf(dims, dim, x) == x - getCoord(dims, x, dim) * prod(dims, dim + 1)

ColumnNetworks(dims, p) ==
  Computed([b \in {BaseOf(dims, p.dim, x) : x \in DOMAIN p.at} |-> ColumnNetwork(dims, p, b)])
Collapsed(nets, startLvl, numLvls) ==
  Computed([b \in DOMAIN nets |-> Bn!collapseBenesLevels(nets[b], startLvl, numLvls)])
InColumns(dims, p, amounts) ==
  Computed([x \in DOMAIN p.at |-> amounts[BaseOf(dims, p.dim, x)][getCoord(dims, x, p.dim)]])

\* Mutant of StartOf: every layer starts at the first level.
StartOf_First(benesLvls, k) == 0

StartOf(benesLvls, k) == FoldLeft(LAMBDA s, x : s + x, 0, SubSeq(benesLvls, 1, k - 1))
LayersOfColumns(dims, p, nets, benesLvls) ==
  [k \in DOMAIN benesLvls |-> InColumns(dims, p, Collapsed(nets, StartOf(benesLvls, k), benesLvls[k]))]
getBenesShiftAmounts(dims, p, benesLvls) == LayersOfColumns(dims, p, ColumnNetworks(dims, p), benesLvls)

(***************************************************************************)
(* setLayers4Leaf: the layers of one network, by slot; in a good dimension *)
(* a move backwards is one forwards.                                       *)
(***************************************************************************)
Layer(s, genIdx, leaf, map2cube) ==
  LET isID == \A x \in DOMAIN s : s[x] = 0
      Forwards == [x \in DOMAIN s |-> IF leaf.good /\ s[x] < 0 THEN s[x] + leaf.size ELSE s[x]]
  IN [genIdx |-> genIdx, e |-> leaf.e, isID |-> isID,
      shifts |-> IF isID THEN <<>> ELSE Computed(applyPermToVec(Forwards, map2cube))]
LayersOf(shifts, genIdx, leaf, map2cube) == [k \in DOMAIN shifts |-> Layer(shifts[k], genIdx, leaf, map2cube)]
setLayers4Leaf(dims, p, benesLvls, genIdx, leaf, map2cube) ==
  LayersOf(IF Len(benesLvls) = 1 THEN getShiftAmounts(dims, p) ELSE getBenesShiftAmounts(dims, p, benesLvls),
           genIdx, leaf, map2cube)

\* The leaves of all trees, each with its generator.
AllLeaves(trees) ==
  FlattenSeq([g \in DOMAIN trees |-> [j \in DOMAIN trees[g].leaves |->
                                       [genIdx |-> trees[g].genIdx, leaf |-> trees[g].leaves[j]]]])

\* The first network of every leaf, then the second ones from the back.
Networks(leaves) ==
  LET n == Len(leaves)
      Second == SelectSeq([i \in 1..n |-> n + 1 - i], LAMBDA i : leaves[i].leaf.scndBenes # <<>>)
  IN [i \in 1..n |-> [of |-> leaves[i], perm |-> i, benesLvls |-> leaves[i].leaf.frstBenes]]
       \o [j \in DOMAIN Second |-> [of |-> leaves[Second[j]], perm |-> 2 * n - Second[j],
                                    benesLvls |-> leaves[Second[j]].leaf.scndBenes]]
LayersFor(networks, dims, perms, map2cube) ==
  FlattenSeq([i \in DOMAIN networks |->
    setLayers4Leaf(dims, perms[networks[i].perm], networks[i].benesLvls, networks[i].of.genIdx,
                   networks[i].of.leaf, map2cube)])

\* getCubeSubDims: one dimension for every leaf.
NetworkOf(leaves, dims, rho, rank, map2cube) ==
  LayersFor(Networks(leaves), dims, breakPermByDim(dims, rho, rank), map2cube)
buildNetwork(pi, t, rank) ==
  LET leaves == AllLeaves(t.trees)
  IN IF leaves = <<>> THEN <<>>
     ELSE NetworkOf(leaves, [i \in DOMAIN leaves |-> leaves[i].leaf.size],
                    Computed(applyPermsToVec(t.map2cube, pi, t.map2array)), rank, t.map2cube)

--------------------------------------------------------------------------------
(***************************************************************************)
(* The layers applied to a cube of the generators' orders and to the slots *)
(* of a ciphertext: for every shift amount of a layer, what a mask keeps   *)
(* is rotated.                                                             *)
(***************************************************************************)
applyToCube(layers, dims, cube) ==
  LET To(lyr, j) == addCoord(dims, j, lyr.genIdx, lyr.e * lyr.shifts[j])
  IN FoldLeft(LAMBDA c, lyr :
                IF lyr.isID THEN c
                ELSE Computed([x \in DOMAIN c |-> c[CHOOSE j \in DOMAIN c : To(lyr, j) = x]]),
              cube, layers)

makeMask(al, lyr, amount) ==
  CRT_reconstruct(al, [i \in 0..(al.nslots - 1) |-> Constant(IF lyr.shifts[i] = amount THEN 1 ELSE 0, al.ordP)])
AmountsOf(lyr) == IF lyr.isID THEN {} ELSE {lyr.shifts[i] : i \in DOMAIN lyr.shifts}

applyToCtxt(layers, al, c) ==
  LET Part(ctxt, lyr, amount) ==
        Moved(al, multByConstant(al, ctxt, makeMask(al, lyr, amount)), lyr.genIdx, lyr.e * amount)
  IN FoldLeft(LAMBDA ctxt, lyr :
                IF lyr.isID THEN ctxt
                ELSE FoldSet(LAMBDA amount, sum : Sum(al, sum, Part(ctxt, lyr, amount)),
                             Constant(0, PolyLength(ctxt)), AmountsOf(lyr)),
              c, layers)
================================================================================
