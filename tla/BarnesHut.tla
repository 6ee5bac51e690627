------------------------------ MODULE BarnesHut ------------------------------
(***************************************************************************)
(* The tree of the CPU code (nbody_tree.c) and the walks over it           *)
(* (nbody_grav.c), over several time steps and up to the end of the state  *)
(* (nbody_types.c).                                                        *)
(*                                                                         *)
(* Positions and masses are integers and the arithmetic is exact: centres  *)
(* of mass are kept as fractions, and distances are compared by their      *)
(* squares, so the opening criteria are decided as the code's formulas     *)
(* say, without rounding.  Where the bodies are at the next step is left   *)
(* open.  The mass of a cell is the bag of the bodies added up in it, and  *)
(* so is its quadrupole moment.                                            *)
(*                                                                         *)
(* Cells are memory: they are taken from the list of free cells or newly   *)
(* allocated, and what is not assigned is what they held before.  The      *)
(* children and the quadrupole moment of a cell share their storage.       *)
(***************************************************************************)
EXTENDS Integers, Sequences, FiniteSets, SequencesExt, FiniteSetsExt

CONSTANTS
  NBody,      \* st->nbody
  NDim,       \* NDIM: 3 in the code
  Places,     \* the positions a body may have
  Masses,     \* the masses the bodies may have: a set of functions
  RSize,      \* ctx->treeRSize
  Epsilon,    \* REAL_EPSILON, the smallest size of a cell that is divided
  Theta,      \* ctx->theta = Theta[1] / Theta[2]
  Contexts,   \* the options of work units: see ContextAssumption
  MaxCells,   \* bound on the cells that are ever allocated
  MaxSteps    \* bound on the time steps

Body == 1 .. NBody
Cell == NBody + 1 .. NBody + MaxCells
NULL == 0
Ref  == Body \cup Cell \cup {NULL}
Dim  == 1 .. NDim
Sub  == 0 .. 2 ^ NDim - 1     \* NSUB subcells

ASSUME TreeAssumption ==
  /\ NBody \in Nat \ {0} /\ NDim \in Nat \ {0} /\ MaxCells \in Nat \ {0} /\ MaxSteps \in Nat \ {0}
  /\ Places # {} /\ \A x \in Places : x \in [Dim -> Int]
  /\ Theta \in Nat \X (Nat \ {0})
  \* the cells that are divided have exact midpoints
  /\ Epsilon \in Nat \ {0} /\ Epsilon % 2 = 0 /\ RSize \in Nat /\ \E k \in 1 .. RSize : RSize = Epsilon * 2 ^ k
\* threadTree reads desc[0] of a root without children
ASSUME MassAssumption ==
  \A m \in Masses : m \in [Body -> Nat] /\ \E b \in Body : m[b] > 0
ASSUME ContextAssumption ==
  Contexts \subseteq [criterion : {"TreeCode", "SW93", "BH86", "Exact"},
                     useQuad : BOOLEAN, allowIncest : BOOLEAN]

VARIABLES
  ctx,        \* one of Contexts
  mass,       \* Mass of the bodies
  pos,        \* Pos of the bodies
  next,       \* Next of every node
  more,       \* More of every cell
  mid,        \* Pos of a cell until hackCofM: its midpoint
  stuff,      \* the union of Subp and Quad of every cell
  sum,        \* Mass and Pos of a cell after hackCofM, as the bodies added up
  rcrit,      \* what Rcrit2 of a cell is calculated from
  tree,       \* st->tree: root, rsize, cellUsed, structureError
  freeCell,   \* st->freeCell
  allocated,  \* the number of cells allocated
  freed,      \* the cells that were given back at the end, in this order
  treeIncest, \* st->treeIncest
  acc,        \* acc[b]: the bodies whose mass was added to the force on b
  step,       \* st->step
  pc, i,      \* where the step is, and the body to be loaded
  q, qsize    \* nbLoadBody: the cell reached, and its size

memory == <<next, more, mid, stuff, sum, rcrit, freeCell, allocated, freed>>
load   == <<i, q, qsize>>
vars   == <<ctx, mass, pos, memory, tree, treeIncest, acc, step, pc, load>>

isBody(n) == n \in Body
isCell(n) == n \in Cell

(* Bags of bodies.  A body without mass adds nothing.                       *)
NoMass == [b \in Body |-> 0]
MassOf(c) == [b \in Body |-> IF b = c /\ mass[c] > 0 THEN 1 ELSE 0]
Plus(x, y) == [b \in Body |-> x[b] + y[b]]

Square(x) == x * x
Norm2(v) == MapThenSumSet(LAMBDA k : Square(v[k]), Dim)

Empty == [s \in Sub |-> NULL]
Origin == [k \in Dim |-> 0]

Init ==
  /\ ctx \in Contexts /\ mass \in Masses /\ pos \in [Body -> Places]
  /\ next = [n \in Body \cup Cell |-> NULL] /\ more = [c \in Cell |-> NULL]
  /\ mid = [c \in Cell |-> Origin] /\ stuff = [c \in Cell |-> Empty]
  /\ sum = [c \in Cell |-> NoMass] /\ rcrit = [c \in Cell |-> [size |-> 0, mid |-> Origin]]
  /\ tree = [root |-> NULL, rsize |-> RSize, cellUsed |-> 0, structureError |-> FALSE]
  /\ freeCell = NULL /\ allocated = 0 /\ freed = <<>>
  /\ treeIncest = FALSE /\ acc = [b \in Body |-> NoMass]
  /\ step = 0 /\ pc = "grav" /\ i = 1 /\ q = NULL /\ qsize = 0

-----------------------------------------------------------------------------
(* Cells.                                                                   *)

(* The cells met from node p on by a scan that goes down from a cell and on *)
(* from a body: of the whole tree when it is threaded.                      *)
Scanned(p) ==
  LET scan[n \in Ref] == IF n = NULL THEN <<>>
                         ELSE IF isCell(n) THEN <<n>> \o scan[more[n]]
                         ELSE scan[next[n]]
  IN  scan[p]

(* The list of free cells.                                                  *)
FreeList ==
  LET list[n \in Ref] == IF n = NULL THEN <<>> ELSE <<n>> \o list[next[n]]
  IN  list[freeCell]

(* Mutant: the scan goes on from a cell as from a body.                     *)
ReclaimSiblings ==
  LET scan[n \in Ref] == IF n = NULL THEN <<>>
                         ELSE (IF isCell(n) THEN <<n>> ELSE <<>>) \o scan[next[n]]
      v == scan[tree.root]
  IN  [list |-> [n \in Body \cup Cell |->
                   IF n \notin ToSet(v) THEN next[n]
                   ELSE LET k == CHOOSE j \in DOMAIN v : v[j] = n
                        IN  IF k = 1 THEN freeCell ELSE v[k - 1]],
       head |-> IF v = <<>> THEN freeCell ELSE Last(v)]

(* The scan of nbNewTree: every cell is linked to the front of the list.    *)
Reclaim ==
  LET v == Scanned(tree.root)
  IN  [list |-> [n \in Body \cup Cell |->
                   IF n \notin ToSet(v) THEN next[n]
                   ELSE LET k == CHOOSE j \in DOMAIN v : v[j] = n
                        IN  IF k = 1 THEN freeCell ELSE v[k - 1]],
       head |-> IF v = <<>> THEN freeCell ELSE Last(v)]

(* nbMakeCell: the cell it returns, when the list starts with head.         *)
MakeCell(head) == IF head = NULL THEN NBody + allocated + 1 ELSE head
TakeCell(head, links) ==
  /\ freeCell' = IF head = NULL THEN NULL ELSE links[head]
  /\ allocated' = IF head = NULL THEN allocated + 1 ELSE allocated

(* expandBox: the size is doubled until the box holds all bodies.           *)
ExpandBox(size) ==
  LET reach == Max({IF pos[b][k] < 0 THEN -pos[b][k] ELSE pos[b][k] : b \in Body, k \in Dim})
      grow[s \in Nat] == IF s < 2 * reach THEN grow[2 * s] ELSE s
  IN  grow[size]

(* nbGravMap, and nbMakeTree up to its loop.                                *)
NewTree ==
  /\ pc = "grav" /\ ctx.criterion # "Exact"
  /\ LET r == Reclaim
         c == MakeCell(r.head)
         size == ExpandBox(tree.rsize)
     IN  /\ next' = r.list /\ TakeCell(r.head, r.list)
         /\ more' = [more EXCEPT ![c] = NULL] /\ stuff' = [stuff EXCEPT ![c] = Empty]
         /\ mid' = [mid EXCEPT ![c] = Origin]
         /\ tree' = [tree EXCEPT !.root = c, !.cellUsed = 1, !.rsize = size]
         /\ q' = c /\ qsize' = size
  /\ i' = 1 /\ pc' = "load"
  /\ UNCHANGED <<ctx, mass, pos, sum, rcrit, freed, treeIncest, acc, step>>

-----------------------------------------------------------------------------
(* Building the tree.                                                       *)

(* Mutant: a body on the border belongs to the lower half.                  *)
SubIndexStrict(p, m) ==
  MapThenSumSet(LAMBDA k : IF m[k] < p[k] THEN 2 ^ (NDim - k) ELSE 0, Dim)

(* The index of the subcell of a cell with midpoint m for position p.       *)
nbSubIndex(p, m) ==
  MapThenSumSet(LAMBDA k : IF m[k] <= p[k] THEN 2 ^ (NDim - k) ELSE 0, Dim)

(* nbInitMidpoint, for the subcell of a cell with midpoint m that holds p.  *)
Midpoint(p, m, size) == [k \in Dim |-> m[k] + (IF p[k] < m[k] THEN -size ELSE size) \div 4]

(* On to the next body.                                                     *)
NextBody == i' = i + 1 /\ q' = tree.root /\ qsize' = tree.rsize

(* A body without mass is not loaded.                                       *)
PassBody ==
  /\ pc = "load" /\ i \in Body /\ mass[i] = 0
  /\ NextBody
  /\ UNCHANGED <<ctx, mass, pos, memory, tree, treeIncest, acc, step, pc>>

Slot == IF pc = "load" /\ i \in Body THEN nbSubIndex(pos[i], mid[q]) ELSE 0

Loading == pc = "load" /\ i \in Body /\ mass[i] # 0

(* The end of the descent: an empty subcell.                                *)
PlaceBody ==
  /\ Loading /\ stuff[q][Slot] = NULL
  /\ stuff' = [stuff EXCEPT ![q][Slot] = i]
  /\ NextBody
  /\ UNCHANGED <<ctx, mass, pos, next, more, mid, sum, rcrit, freeCell, allocated, freed, tree,
                 treeIncest, acc, step, pc>>

(* Bodies too close to be told apart: this one is left out.                 *)
TooClose ==
  /\ Loading /\ stuff[q][Slot] # NULL /\ qsize <= Epsilon
  /\ tree' = [tree EXCEPT !.structureError = TRUE]
  /\ NextBody
  /\ UNCHANGED <<ctx, mass, pos, memory, treeIncest, acc, step, pc>>

Descend(c) == q' = c /\ qsize' = qsize \div 2 /\ UNCHANGED i

EnterCell ==
  /\ Loading /\ isCell(stuff[q][Slot]) /\ qsize > Epsilon
  /\ Descend(stuff[q][Slot])
  /\ UNCHANGED <<ctx, mass, pos, memory, tree, treeIncest, acc, step, pc>>

(* Mutant: the body that was there is not put into the new cell.            *)
SplitDropping ==
  /\ Loading /\ isBody(stuff[q][Slot]) /\ qsize > Epsilon
  /\ LET c == MakeCell(freeCell)
     IN  /\ mid' = [mid EXCEPT ![c] = Midpoint(pos[i], mid[q], qsize)]
         /\ stuff' = [stuff EXCEPT ![c] = Empty, ![q][Slot] = c]
         /\ more' = [more EXCEPT ![c] = NULL]
         /\ Descend(c)
  /\ TakeCell(freeCell, next)
  /\ tree' = [tree EXCEPT !.cellUsed = @ + 1]
  /\ UNCHANGED <<ctx, mass, pos, next, sum, rcrit, freed, treeIncest, acc, step, pc>>

(* A subcell that holds a body becomes a cell with that body in it.         *)
SplitLeaf ==
  /\ Loading /\ isBody(stuff[q][Slot]) /\ qsize > Epsilon
  /\ LET c == MakeCell(freeCell)
         b == stuff[q][Slot]
         m == Midpoint(pos[i], mid[q], qsize)
     IN  /\ mid' = [mid EXCEPT ![c] = m]
         /\ stuff' = [stuff EXCEPT ![c] = [Empty EXCEPT ![nbSubIndex(pos[b], m)] = b],
                                   ![q][Slot] = c]
         /\ more' = [more EXCEPT ![c] = NULL]
         /\ Descend(c)
  /\ TakeCell(freeCell, next)
  /\ tree' = [tree EXCEPT !.cellUsed = @ + 1]
  /\ UNCHANGED <<ctx, mass, pos, next, sum, rcrit, freed, treeIncest, acc, step, pc>>

EndLoad ==
  /\ pc = "load" /\ i > NBody
  /\ pc' = IF tree.structureError THEN "destroy" ELSE "cofm"
  /\ UNCHANGED <<ctx, mass, pos, memory, tree, treeIncest, acc, step, load>>

-----------------------------------------------------------------------------
(* Passes over the tree.                                                    *)

Children(c) == SelectSeq([s \in 1 .. 2 ^ NDim |-> stuff[c][s - 1]], LAMBDA n : n # NULL)

(* The bodies added up under a node.                                        *)
TotalMass ==
  LET total[n \in Body \cup Cell] ==
        IF isBody(n) THEN MassOf(n)
        ELSE FoldFunctionOnSet(LAMBDA x, y : Plus(x, y), NoMass,
                               [s \in Sub |-> IF stuff[n][s] = NULL THEN NoMass ELSE total[stuff[n][s]]], Sub)
  IN  total

(* Every cell of the tree with its size, from the root down.                *)
SizedCells ==
  LET under[c \in Cell, size \in Nat] ==
        {<<c, size>>} \cup UNION {under[stuff[c][s], size \div 2] : s \in {t \in Sub : isCell(stuff[c][t])}}
  IN  under[tree.root, tree.rsize]

(* The centre of mass of a cell is Moment / Weight.                         *)
Weight(m) == MapThenSumSet(LAMBDA b : m[b] * mass[b], Body)
Moment(m) == [k \in Dim |-> MapThenSumSet(LAMBDA b : m[b] * mass[b] * pos[b][k], Body)]
Offset(m, centre) == [k \in Dim |-> Moment(m)[k] - Weight(m) * centre[k]]
Abs(x) == IF x < 0 THEN -x ELSE x

(* nbCheckTreeDim for all dimensions: the centre of mass is in the cell.    *)
CheckTreeStructure(m, centre, size) ==
  \A k \in Dim : 2 * Abs(Offset(m, centre)[k]) <= Weight(m) * size

(* hackCofM: masses, centres of mass and critical radii of all cells.       *)
HackCofM ==
  /\ pc = "cofm"
  /\ LET cells == SizedCells
         sized == {x[1] : x \in cells}
         size(c) == (CHOOSE x \in cells : x[1] = c)[2]
         total == TotalMass
         good == \A c \in sized : CheckTreeStructure(total[c], mid[c], size(c))
     IN  /\ sum' = [c \in Cell |-> IF c \in sized THEN total[c] ELSE sum[c]]
         /\ rcrit' = [c \in Cell |-> IF c \in sized THEN [size |-> size(c), mid |-> mid[c]]
                                                    ELSE rcrit[c]]
         /\ tree' = [tree EXCEPT !.structureError = @ \/ ~good]
         /\ pc' = IF good THEN "thread" ELSE "destroy"
  /\ UNCHANGED <<ctx, mass, pos, next, more, mid, stuff, freeCell, allocated, freed,
                 treeIncest, acc, step, load>>

(* threadTree from node p, with n the node that follows it: the Next links. *)
ThreadTree ==
  LET links[x \in (Body \cup Cell) \X Ref] ==
        LET p == x[1]
            n == x[2]
            desc == IF isCell(p) THEN Append(Children(p), n) ELSE <<n>>
        IN  {<<p, n>>} \cup UNION {links[<<desc[j], desc[j + 1]>>] : j \in 1 .. Len(desc) - 1}
      all == links[<<tree.root, NULL>>]
      threaded == {x[1] : x \in all}
  IN  /\ pc = "thread"
      /\ next' = [p \in Body \cup Cell |-> IF p \in threaded THEN (CHOOSE x \in all : x[1] = p)[2]
                                                            ELSE next[p]]
      /\ more' = [c \in Cell |-> IF c \in threaded THEN Children(c)[1] ELSE more[c]]
      /\ pc' = IF ctx.useQuad THEN "quad" ELSE "force"
      /\ UNCHANGED <<ctx, mass, pos, mid, stuff, sum, rcrit, freeCell, allocated, freed, tree,
                     treeIncest, acc, step, load>>

(* hackQuad: the moments of all cells.  The children of a cell are copied   *)
(* to safety first, and the moment is added to what is in their place: the  *)
(* links, read as numbers.                                                  *)
HackQuad ==
  LET quad[c \in Cell] ==
        FoldSeq(LAMBDA n, y : Plus(IF isBody(n) THEN MassOf(n) ELSE quad[n], y), NoMass, Children(c))
      cells == {x[1] : x \in SizedCells}
  IN  /\ pc = "quad"
      /\ stuff' = [c \in Cell |-> IF c \in cells THEN [links |-> stuff[c], moment |-> quad[c]]
                                                  ELSE stuff[c]]
      /\ pc' = "force"
      /\ UNCHANGED <<ctx, mass, pos, next, more, mid, sum, rcrit, freeCell, allocated, freed, tree,
                     treeIncest, acc, step, load>>

-----------------------------------------------------------------------------
(* Forces.                                                                  *)

(* Mutant: the distance of the centre of mass from the midpoint is left out.*)
FarEnoughFromMidpoint(c, b) ==
  LET m == sum[c]
      w == Weight(m)
      d2 == Norm2(Offset(m, pos[b]))
  IN  d2 * Square(Theta[1]) >= Square(rcrit[c].size * Theta[2] * w)

(* drSq >= Rcrit2 for body b and cell c, with findRCrit.  Both sides are    *)
(* multiplied by the weight of the cell and the numerator of theta.         *)
FarEnough(c, b) ==
  LET m  == sum[c]
      w  == Weight(m)
      d2 == Norm2(Offset(m, pos[b]))               \* distance from the centre of mass
      e  == Offset(m, rcrit[c].mid)                \* centre of mass from midpoint
      s  == rcrit[c].size
      a2 == d2 * Square(Theta[1])
      b2 == Square(s * Theta[2] * w)
      c2 == Norm2(e) * Square(Theta[1])
  IN  IF Theta[1] = 0 THEN d2 >= Square(2 * tree.rsize * w)
      ELSE CASE ctx.criterion = "BH86" -> a2 >= b2
             [] ctx.criterion = "SW93" ->
                  4 * a2 >= Square(Theta[2]) * MapThenSumSet(LAMBDA k : Square(w * s + 2 * Abs(e[k])), Dim)
             [] ctx.criterion = "TreeCode" ->
                  a2 - b2 - c2 >= 0 /\ Square(a2 - b2 - c2) >= 4 * b2 * c2

(* nbGravity: the walk along Next and More, the bodies that acted and       *)
(* whether b met itself.                                                    *)
Gravity(b) ==
  LET walk[n \in Ref] ==
        IF n = NULL THEN [got |-> NoMass, skipSelf |-> FALSE]
        ELSE IF n = b THEN [walk[next[n]] EXCEPT !.skipSelf = TRUE]
        ELSE IF isBody(n) \/ FarEnough(n, b)
          THEN [walk[next[n]] EXCEPT !.got = Plus(@, IF isBody(n) THEN MassOf(n) ELSE sum[n])]
        ELSE walk[more[n]]
  IN  walk[tree.root]

(* nbMapForceBody.  Its threads only read the tree, and the one word they   *)
(* all write, treeIncest, is only ever set.                                 *)
MapForceBody ==
  /\ pc = "force"
  /\ LET g == [b \in Body |-> Gravity(b)]
     IN  /\ acc' = [b \in Body |-> g[b].got]
         /\ treeIncest' = (treeIncest \/ \E b \in Body : ~g[b].skipSelf)
  /\ pc' = "status"
  /\ UNCHANGED <<ctx, mass, pos, memory, tree, step, load>>

(* nbGravity_Exact: all bodies; the body itself is at distance zero.        *)
MapForceBodyExact ==
  /\ pc = "grav" /\ ctx.criterion = "Exact"
  /\ acc' = [b \in Body |-> [c \in Body |-> IF mass[c] > 0 THEN 1 ELSE 0]]
  /\ pc' = "status"
  /\ UNCHANGED <<ctx, mass, pos, memory, tree, treeIncest, step, load>>

(* nbIncestStatusCheck, and the step of nbRunSystemPlain that moves the     *)
(* bodies.                                                                  *)
AdvanceBodies ==
  /\ pc = "status" /\ (treeIncest => ctx.allowIncest) /\ step + 1 < MaxSteps
  /\ pos' \in [Body -> Places]
  /\ step' = step + 1 /\ pc' = "grav"
  /\ UNCHANGED <<ctx, mass, memory, tree, treeIncest, acc, load>>

(* The last step, fatal tree incest, or a Lua potential that failed, which  *)
(* may be at any step.                                                      *)
EndRun ==
  /\ pc = "status"
  /\ pc' = "destroy"
  /\ UNCHANGED <<ctx, mass, pos, memory, tree, treeIncest, acc, step, load>>

(* destroyNBodyState: freeNBodyTree, then freeFreeCells.                    *)
DestroyState ==
  /\ pc = "destroy" /\ pc' = "done"
  /\ freed' = Scanned(tree.root) \o FreeList
  /\ UNCHANGED <<ctx, mass, pos, next, more, mid, stuff, sum, rcrit, freeCell, allocated, tree,
                 treeIncest, acc, step, load>>

-----------------------------------------------------------------------------
LoadBody == PassBody \/ PlaceBody \/ TooClose \/ EnterCell \/ SplitLeaf \/ EndLoad

Next ==
  \/ NewTree \/ LoadBody \/ HackCofM \/ ThreadTree \/ HackQuad
  \/ MapForceBody \/ MapForceBodyExact \/ AdvanceBodies \/ EndRun \/ DestroyState

Spec == Init /\ [][Next]_vars

-----------------------------------------------------------------------------
(* Properties.                                                              *)

Massive == {b \in Body : mass[b] > 0}
AllocatedCells == NBody + 1 .. NBody + allocated

(* Every body is acted on by the mass of every other body exactly once,     *)
(* whatever cells nbGravity accepts or opens, and by its own only when tree *)
(* incest was noticed; a quadrupole moment has every body under its cell    *)
(* once, although it was written over the links to the children.            *)
ActsOnce ==
  pc = "status" =>
    /\ \A b \in Body : \A c \in Body \ {b} : acc[b][c] = IF c \in Massive THEN 1 ELSE 0
    /\ ctx.criterion # "Exact" =>
         /\ (\E b \in Body : acc[b][b] # 0) => treeIncest
         /\ ctx.useQuad => \A c \in ToSet(Scanned(tree.root)) : stuff[c].moment = sum[c]

(* No cell is lost and none is in two places: when a tree was threaded all  *)
(* cells ever allocated are in it or in the list of free cells, and         *)
(* cellUsed counts those in it.  At the end no cell is freed twice, and     *)
(* none is left over unless the tree had a structure error.                 *)
CellsKept ==
  /\ pc = "status" /\ ctx.criterion # "Exact" =>
       LET cells == Scanned(tree.root)
       IN  /\ ToSet(cells \o FreeList) = AllocatedCells
           /\ IsInjective(cells \o FreeList) /\ Len(cells) = tree.cellUsed
  /\ pc = "done" =>
       /\ IsInjective(freed)
       /\ ~tree.structureError => ToSet(freed) = AllocatedCells

(* With the TreeCode criterion and a theta of at most 1 no body with mass   *)
(* is in a cell that is far enough from it: tree incest is noticed only     *)
(* when there is a body without mass, which is not in the tree.             *)
OwnCellOpened ==
  ctx.criterion = "TreeCode" /\ Theta[1] <= Theta[2] /\ Massive = Body => ~treeIncest

(* A structure error means that two bodies are within half of Epsilon of    *)
(* each other in all directions.  In exact arithmetic the centre of mass of a cell is  *)
(* never outside it, and no body outside the box.                           *)
CrowdedOnly ==
  tree.structureError =>
    \E b, c \in Massive : b # c /\ \A k \in Dim : 2 * Abs(pos[b][k] - pos[c][k]) <= Epsilon

=============================================================================
