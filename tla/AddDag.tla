-------------------------------- MODULE AddDag --------------------------------
(***************************************************************************)
(* AddDAG of binaryArith.cpp: the carries of two numbers whose bits are    *)
(* encrypted, as a graph of products that consumes few levels, computed by *)
(* several threads.  With a shorter than b, and X[t] = a[t] + b[t],        *)
(*     p(i, j) = X[j] * ... * X[i]                                         *)
(*     q(i, j) = a[j] * b[j] * X[j+1] * ... * X[i],                        *)
(* and bit i of the sum is X[i] plus every q(i-1, j).                      *)
(*                                                                         *)
(* A ciphertext is what it decrypts to, a number modulo RING, or Empty.    *)
(* The code computes modulo 2; a larger ring tells more products apart.    *)
(* A step makes one node of the plan, or is what a thread does while it    *)
(* holds the locks that guard it; the cells of the scratch space are       *)
(* guarded by none.                                                        *)
(***************************************************************************)
EXTENDS Integers, Sequences

CONSTANTS
  Additions,      \* records of a and b, sequences of bits, sizeLimit and nthreads
  BPL_ESTIMATE,   \* bits of capacity that a product consumes
  RING

\* A bit is a record of its value and its capacity.
Empty == -1
Ciphertexts == {Empty} \union 0..(RING - 1)
Bit == [value : Ciphertexts, capacity : Int]

ASSUME DagAssumption ==
  /\ RING \in Nat \ {0} /\ BPL_ESTIMATE \in Int
  /\ Additions \subseteq [a : Seq(Bit) \ {<<>>}, b : Seq(Bit) \ {<<>>}, sizeLimit : Nat, nthreads : Nat \ {0}]

LONG_MAX == 1000000
Capacity(bits, i) ==
  IF i < Len(bits) /\ bits[i + 1].value # Empty THEN bits[i + 1].capacity ELSE LONG_MAX
Value(bits, i) == IF i < Len(bits) THEN bits[i + 1].value ELSE Empty

PlusCtxt(x, y) == IF x = Empty THEN y ELSE IF y = Empty THEN x ELSE (x + y) % RING
TimesCtxt(x, y) == IF Empty \in {x, y} THEN Empty ELSE (x * y) % RING

Smaller(x, y) == IF x <= y THEN x ELSE y

--------------------------------------------------------------------------------
VARIABLES
  add,       \* the addition, with a the shorter operand
  next,      \* init: the node that is made next
  level,     \* the level of each node
  middle,    \* where each node is divided into its parents, or -1
  left,      \* childrenLeft of each node
  ct,        \* the cell with a node's ciphertext, 0 for nullptr
  owner,     \* the thread that holds a node's ct_mtx, or 0
  cells,     \* scratch: whether a cell is used, and its ciphertext
  growing,   \* the thread that moves the cells to a larger vector, or 0
  raced,     \* a thread looked at the cells while they were moved
  sum,       \* the ciphertexts of the result
  work,      \* for each thread the bit it computes and the place of the node it adds
  stack      \* for each thread the nodes getCtxt was called for, outermost first

plan == <<next, level, middle>>
dag_vars == <<add, plan, left, ct, owner, cells, growing, raced, sum, work, stack>>

aSize == Len(add.a)
bSize == Len(add.b)

(***************************************************************************)
(* init: the plan.  A node is the p or the q of an interval of bits; those *)
(* of one bit are made of the operands, the others are products of two     *)
(* nodes that meet in the middle.                                          *)
(***************************************************************************)
PNode(i, j) == [kind |-> "p", i |-> i, j |-> j]
QNode(i, j) == [kind |-> "q", i |-> i, j |-> j]
Nodes == DOMAIN left

Sources(a, b) ==
  {PNode(i, i) : i \in 0..(Len(b) - 1)} \union {QNode(i, i) : i \in 0..(Len(a) - 1)}
SourceLevel(a, b, n) ==
  LET lvl == Smaller(Capacity(a, n.i), Capacity(b, n.i))
  IN IF n.kind = "p" THEN lvl
     ELSE IF LONG_MAX \in {lvl, Capacity(a, n.i)} THEN LONG_MAX ELSE lvl - 1

\* The order in which the products are made, the short ones first; j < 0 behind the last.
FirstProduct(kind, size) == [kind |-> kind, i |-> size - 1, j |-> size - 2]
Following(n) ==
  IF n.j > 0 THEN [kind |-> n.kind, i |-> n.i - 1, j |-> n.j - 1]
  ELSE [kind |-> n.kind, i |-> bSize - 1, j |-> bSize - 2 - n.i]

\* The parents for a middle m, that of the lower bits first.
LowParent(n, m) == [n EXCEPT !.i = m]
HighParent(n, m) == PNode(n.i, m + 1)
ProductLevel(n, m) ==
  LET low == level[LowParent(n, m)]
      high == level[HighParent(n, m)]
  IN IF LONG_MAX \in {low, high} THEN LONG_MAX ELSE Smaller(low, high) - BPL_ESTIMATE
\* Of equal levels the one whose parents are needed anyway.
Need(n, m) ==
  IF n.kind = "p" THEN Smaller(left[LowParent(n, m)], left[HighParent(n, m)])
  ELSE left[HighParent(n, m)]

Better(n, m, best) ==
  \/ ProductLevel(n, m) > ProductLevel(n, best)
  \/ ProductLevel(n, m) = ProductLevel(n, best) /\ Need(n, m) > Need(n, best)

FloorPower(n) == CHOOSE x \in {2^e : e \in 0..n} : x <= n /\ n < 2 * x
defaultPmiddle(delta) == FloorPower(delta)
defaultQmiddle(delta) == FloorPower((2 * delta + 2) \div 3)
defaultMiddle(n) ==
  n.i - (IF n.kind = "p" THEN defaultPmiddle(n.i - n.j) ELSE defaultQmiddle(n.i - n.j))
\* The default unless another one is better, then the first of the best.
Middle(n) ==
  LET best == {m \in n.j..(n.i - 1) : \A o \in n.j..(n.i - 1) : ~Better(n, o, m)}
  IN IF defaultMiddle(n) \in best THEN defaultMiddle(n)
     ELSE CHOOSE m \in best : \A o \in best : m <= o

WithNode(f, n, x) == [y \in Nodes \union {n} |-> IF y = n THEN x ELSE f[y]]
\* Mutant of AddNode: a product is not counted with the children of its second parent.
AddNode_OneParent(n, m) ==
  /\ level' = WithNode(level, n, ProductLevel(n, m))
  /\ middle' = WithNode(middle, n, m)
  /\ left' = WithNode([left EXCEPT ![LowParent(n, m)] = @ + 1], n, IF n.kind = "q" THEN 1 ELSE 0)
AddNode(n, m) ==
  /\ level' = WithNode(level, n, ProductLevel(n, m))
  /\ middle' = WithNode(middle, n, m)
  /\ left' = WithNode([left EXCEPT ![LowParent(n, m)] = @ + 1, ![HighParent(n, m)] = @ + 1],
                      n, IF n.kind = "q" THEN 1 ELSE 0)

Product ==
  /\ next.j >= 0
  /\ \/ (next.kind = "p" \/ next.j < aSize) /\ \E m \in {Middle(next)} : AddNode(next, m)
     \/ next.kind = "q" /\ next.j >= aSize /\ UNCHANGED <<level, middle, left>>
  /\ next' = Following(next)
  /\ UNCHANGED <<add, ct, owner, cells, growing, raced, sum, work, stack>>
LastP ==
  /\ next.kind = "p" /\ next.j < 0
  /\ next' = FirstProduct("q", bSize)
  /\ UNCHANGED <<add, level, middle, left, ct, owner, cells, growing, raced, sum, work, stack>>

lowLvl == level[QNode(bSize - 1, 0)]

--------------------------------------------------------------------------------
(***************************************************************************)
(* apply: every thread computes an interval of the bits of the sum.        *)
(***************************************************************************)
Frame(n, stage) == [node |-> n, stage |-> stage, cell |-> 1]
Threads == DOMAIN stack
Last(t) == stack[t][Len(stack[t])]

Parent1(n) == LowParent(n, middle[n])
Parent2(n) == HighParent(n, middle[n])
IsSource(n) == middle[n] = -1

\* NTL_EXEC_RANGE: the intervals of the threads follow one another.
NrThreads == Smaller(add.nthreads, add.sizeLimit)
FirstBit(t) ==
  (t - 1) * (add.sizeLimit \div NrThreads) + Smaller(t - 1, add.sizeLimit % NrThreads)
BitsOf(t) == FirstBit(t)..(FirstBit(t + 1) - 1)

\* The nodes that are added to bit i, the last place first; behind the last carry there are none.
Carries(i) == Smaller(i, aSize)
Places(i) == IF i < bSize THEN Carries(i) + 1 ELSE IF i = bSize THEN Carries(i) ELSE 0
NodeAt(w) == IF w.place = Carries(w.bit) THEN PNode(w.bit, w.bit) ELSE QNode(w.bit - 1, w.place)
BeginBit(i) == [bit |-> i, place |-> Places(i) - 1]
Continued(w) == IF w.place > 0 THEN [w EXCEPT !.place = w.place - 1] ELSE BeginBit(w.bit + 1)
\* The call for a thread's next node.
CallFor(t, w) ==
  IF w.bit \in BitsOf(t) /\ w.bit <= bSize THEN <<Frame(NodeAt(w), "lock")>> ELSE <<>>

Begin ==
  /\ next.kind = "q" /\ next.j < 0 /\ stack = <<>>
  /\ lowLvl >= BPL_ESTIMATE
  /\ ct' = [n \in Nodes |-> 0]
  /\ owner' = [n \in Nodes |-> 0]
  /\ sum' = [i \in 0..(add.sizeLimit - 1) |-> Empty]
  /\ work' = [t \in 1..NrThreads |-> BeginBit(FirstBit(t))]
  /\ stack' = [t \in 1..NrThreads |-> CallFor(t, BeginBit(FirstBit(t)))]
  /\ UNCHANGED <<add, plan, left, cells, growing, raced>>

\* Thread t is in the call for n, at a stage of it.
At(t, n, stage) == ~raced /\ Last(t).node = n /\ Last(t).stage = stage
\* The d last frames are replaced.
Becomes(t, d, frames) ==
  stack' = [stack EXCEPT ![t] = SubSeq(stack[t], 1, Len(stack[t]) - d) \o frames]

Content(n) == cells[ct[n]].ctxt
Unlock(nodes) == owner' = [n \in Nodes |-> IF n \in nodes THEN 0 ELSE owner[n]]
\* The vector of cells is read or its flags are written without a lock.
TouchCells(t) == raced' = (growing \notin {0, t})
Freed(free) == [c \in DOMAIN cells |-> IF c \in free THEN [cells[c] EXCEPT !.used = FALSE] ELSE cells[c]]

\* A node whose ciphertext is there is done; others need their parents or a cell.
Lock(t, n) ==
  /\ At(t, n, "lock") /\ owner[n] = 0
  /\ owner' = [owner EXCEPT ![n] = t]
  /\ \/ ct[n] # 0 /\ Becomes(t, 1, <<Frame(n, "done")>>)
     \/ ct[n] = 0 /\ IsSource(n) /\ Becomes(t, 1, <<Frame(n, "scan")>>)
     \/ ct[n] = 0 /\ ~IsSource(n) /\ Becomes(t, 1, <<Frame(n, "first"), Frame(Parent1(n), "lock")>>)
  /\ UNCHANGED <<add, plan, left, ct, cells, growing, raced, sum, work>>

\* Back in the call for a child with this parent, which is locked until the child is computed.
Back(t, n) ==
  LET caller == stack[t][Len(stack[t]) - 1]
      child == caller.node
  IN /\ Len(stack[t]) > 1 /\ At(t, n, "done")
     /\ left' = [left EXCEPT ![n] = @ - 1]
     /\ \/ /\ caller.stage = "first"
           /\ Becomes(t, 2, <<Frame(child, "second"), Frame(Parent2(child), "lock")>>)
        \/ caller.stage = "second" /\ Becomes(t, 2, <<Frame(child, "multiply")>>)
     /\ UNCHANGED <<add, plan, ct, owner, cells, growing, raced, sum, work>>

\* Mutant of Reuse: only the parent whose ciphertext is taken is unlocked.
Reuse_OtherLocked(t, n, kept, other) ==
  /\ ct' = [ct EXCEPT ![n] = ct[kept], ![kept] = 0, ![other] = IF left[other] = 0 THEN 0 ELSE @]
  /\ cells' = [Freed(IF left[other] = 0 THEN {ct[other]} ELSE {})
                 EXCEPT ![ct[kept]].ctxt = TimesCtxt(Content(kept), Content(other))]
  /\ IF left[other] = 0 THEN TouchCells(t) ELSE UNCHANGED raced
  /\ Unlock({kept})
  /\ Becomes(t, 1, <<Frame(n, "done")>>)

\* The product replaces the ciphertext of a parent that is needed no more.
Reuse(t, n, kept, other) ==
  /\ ct' = [ct EXCEPT ![n] = ct[kept], ![kept] = 0, ![other] = IF left[other] = 0 THEN 0 ELSE @]
  /\ cells' = [Freed(IF left[other] = 0 THEN {ct[other]} ELSE {})
                 EXCEPT ![ct[kept]].ctxt = TimesCtxt(Content(kept), Content(other))]
  /\ IF left[other] = 0 THEN TouchCells(t) ELSE UNCHANGED raced
  /\ Unlock({kept, other})
  /\ Becomes(t, 1, <<Frame(n, "done")>>)

Multiply(t, n) ==
  /\ At(t, n, "multiply")
  /\ \/ left[Parent1(n)] = 0 /\ Reuse(t, n, Parent1(n), Parent2(n))
     \/ left[Parent1(n)] # 0 /\ left[Parent2(n)] = 0 /\ Reuse(t, n, Parent2(n), Parent1(n))
     \/ /\ left[Parent1(n)] # 0 /\ left[Parent2(n)] # 0
        /\ Becomes(t, 1, <<Frame(n, "scan")>>)
        /\ UNCHANGED <<ct, owner, cells, raced>>
  /\ UNCHANGED <<add, plan, left, growing, sum, work>>

\* allocateCtxtLike: look at one cell after the other.
Scan(t, n) ==
  LET c == Last(t).cell
  IN /\ At(t, n, "scan")
     /\ TouchCells(t)
     /\ \/ c > Len(cells) /\ Becomes(t, 1, <<Frame(n, "grow")>>) /\ UNCHANGED cells
        \/ /\ c <= Len(cells) /\ cells[c].used
           /\ Becomes(t, 1, <<[Frame(n, "scan") EXCEPT !.cell = c + 1]>>) /\ UNCHANGED cells
        \/ /\ c <= Len(cells) /\ ~cells[c].used
           /\ cells' = [cells EXCEPT ![c].used = TRUE]
           /\ Becomes(t, 1, <<[Frame(n, "fill") EXCEPT !.cell = c]>>)
     /\ UNCHANGED <<add, plan, left, ct, owner, growing, sum, work>>

\* A new cell, under scratch_mtx; the vector is moved when its capacity is used up.
FullSizes == {0} \union {2^k : k \in 0..8}
NewCell(t, n) ==
  /\ cells' = Append(cells, [used |-> TRUE, ctxt |-> Empty])
  /\ Becomes(t, 1, <<[Frame(n, "fill") EXCEPT !.cell = Len(cells) + 1]>>)
Grow(t, n) ==
  /\ At(t, n, "grow") /\ growing = 0
  /\ \/ Len(cells) \notin FullSizes /\ NewCell(t, n) /\ UNCHANGED growing
     \/ /\ Len(cells) \in FullSizes
        /\ growing' = t
        /\ Becomes(t, 1, <<Frame(n, "move")>>) /\ UNCHANGED cells
  /\ UNCHANGED <<add, plan, left, ct, owner, raced, sum, work>>
Move(t, n) ==
  /\ At(t, n, "move") /\ NewCell(t, n) /\ growing' = 0
  /\ UNCHANGED <<add, plan, left, ct, owner, raced, sum, work>>

Fill(t, n) ==
  LET c == Last(t).cell
      a == Value(add.a, n.j)
      b == Value(add.b, n.i)
  IN /\ At(t, n, "fill")
     /\ ct' = [ct EXCEPT ![n] = c]
     /\ cells' = [cells EXCEPT ![c].ctxt =
                    IF ~IsSource(n) THEN TimesCtxt(Content(Parent2(n)), Content(Parent1(n)))
                    ELSE IF n.kind = "q" THEN TimesCtxt(b, a) ELSE PlusCtxt(b, a)]
     /\ Unlock(IF IsSource(n) THEN {} ELSE {Parent1(n), Parent2(n)})
     /\ Becomes(t, 1, <<Frame(n, "done")>>)
     /\ UNCHANGED <<add, plan, left, growing, raced, sum, work>>

\* addCtxtFromNode has the node it called getCtxt for, and goes on to the next.
Finish(t, n) ==
  /\ Len(stack[t]) = 1 /\ At(t, n, "done")
  /\ sum' = [sum EXCEPT ![work[t].bit] = PlusCtxt(@, Content(n))]
  /\ left' = [left EXCEPT ![n] = @ - 1]
  /\ \/ left[n] = 1 /\ cells' = Freed({ct[n]}) /\ ct' = [ct EXCEPT ![n] = 0] /\ TouchCells(t)
     \/ left[n] # 1 /\ UNCHANGED <<cells, ct, raced>>
  /\ Unlock({n})
  /\ work' = [work EXCEPT ![t] = Continued(work[t])]
  /\ stack' = [stack EXCEPT ![t] = CallFor(t, Continued(work[t]))]
  /\ UNCHANGED <<add, plan, growing>>

Thread(t, n) ==
  \/ Lock(t, n) \/ Back(t, n) \/ Multiply(t, n)
  \/ Scan(t, n) \/ Grow(t, n) \/ Move(t, n) \/ Fill(t, n) \/ Finish(t, n)

\* addTwoNumbers has two operands with bits; without a limit the sum has a bit for the carry.
DagInit ==
  \E c \in Additions :
    LET a == IF Len(c.b) >= Len(c.a) THEN c.a ELSE c.b
        b == IF Len(c.b) >= Len(c.a) THEN c.b ELSE c.a
    IN /\ add = [a |-> a, b |-> b, nthreads |-> c.nthreads,
                 sizeLimit |-> IF c.sizeLimit = 0 THEN Len(b) + 1 ELSE c.sizeLimit]
       /\ next = FirstProduct("p", Len(b))
       /\ level = [n \in Sources(a, b) |-> SourceLevel(a, b, n)]
       /\ middle = [n \in Sources(a, b) |-> -1]
       /\ left = [n \in Sources(a, b) |-> 1]
       /\ ct = <<>> /\ owner = <<>> /\ cells = <<>> /\ growing = 0 /\ raced = FALSE
       /\ sum = <<>> /\ work = <<>> /\ stack = <<>>

DagNext ==
  \/ Product \/ LastP \/ Begin
  \/ \E t \in Threads : stack[t] # <<>> /\ Thread(t, Last(t).node)
DagSpec == DagInit /\ [][DagNext]_dag_vars

--------------------------------------------------------------------------------
Finished == \A t \in Threads : stack[t] = <<>>

\* What the comments say p(i, j), q(i, j) and the sum are; an empty ciphertext is 0.
Number(x) == IF x = Empty THEN 0 ELSE x
X(t) == Number(Value(add.a, t)) + Number(Value(add.b, t))
ProductFrom(x, j) ==
  LET f[d \in Nat] == IF d = 0 THEN x % RING ELSE (f[d - 1] * X(j + d)) % RING IN f
Meaning(n) ==
  ProductFrom(IF n.kind = "p" THEN X(n.j) ELSE Number(Value(add.a, n.j)) * Number(Value(add.b, n.j)), n.j)
    [n.i - n.j]
CarriesBelow(i) ==
  LET f[k \in 0..i] == IF k = 0 THEN 0 ELSE (f[k - 1] + Meaning(QNode(i - 1, k - 1))) % RING IN f
SumBit(i) == (X(i) + CarriesBelow(i)[Smaller(i, aSize)]) % RING

(***************************************************************************)
(* A ciphertext is given away only when nobody needs it: no two nodes ever *)
(* share a cell (binaryArith.cpp:444), a node has never more readers than  *)
(* it counted, and each bit of the sum gets the carries into it.  From the *)
(* moment a thread looks at the cells while another one moves them nothing *)
(* is known.                                                               *)
(***************************************************************************)
AdditionRight ==
  ~raced =>
    /\ \A n \in DOMAIN ct :
         /\ left[n] >= 0
         /\ ct[n] # 0 => cells[ct[n]].used /\ \A m \in DOMAIN ct \ {n} : ct[m] # ct[n]
    /\ Finished => \A i \in DOMAIN sum : Number(sum[i]) = SumBit(i)

(***************************************************************************)
(* A thread holds a node while it waits for its parents, and the first     *)
(* parent while it waits for the second; some thread can always go on      *)
(* (binaryArith.cpp:363-370).                                              *)
(***************************************************************************)
Waits(t) ==
  \/ Last(t).stage = "lock" /\ owner[Last(t).node] # 0
  \/ Last(t).stage = "grow" /\ growing # 0
AdditionProceeds == raced \/ Finished \/ \E t \in Threads : stack[t] # <<>> /\ ~Waits(t)
================================================================================
