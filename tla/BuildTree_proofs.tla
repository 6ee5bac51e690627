-------------------------- MODULE BuildTree_proofs --------------------------
(***************************************************************************)
(* Proofs about the tree of the device, for any number of bodies, cells,   *)
(* work groups and lanes and any depth.  Four results: no fault of the     *)
(* tree goes unreported; the stack of forceCalculation is never too        *)
(* small; buildTree loses no body, although its items lock single child    *)
(* pointers and publish private chains of cells; and what it leaves is a   *)
(* tree of all bodies.                                                     *)
(*                                                                         *)
(* The argument needs to know of every cell what the memory of the device  *)
(* does not hold: the slot it was made for, its level, the bodies whose    *)
(* positions lead to it, and the work item it is still private to.  The    *)
(* invariant says that such values exist: up, lv, reg and own below.  The  *)
(* first three are settled when a cell is taken from the pool and never    *)
(* change in a step; own[c] changes once, when the chain is published.     *)
(*                                                                         *)
(* Device carries these through the whole time step, whose later kernels   *)
(* move the children of a cell and walk the tree.  Loads says what the     *)
(* counters tell the host about the insertions.  From both, a search for   *)
(* a body ends at it (the last cell on its way has the least index), and   *)
(* Under, the function TLC evaluates, is the one the links determine.      *)
(***************************************************************************)
EXTENDS TreeKernels, TLAPS, FiniteSetTheorems, WellFoundedInduction

-----------------------------------------------------------------------------
(* The tree status and the registers are records.                           *)

\* What a step may do to the tree status without clearing the error code.
Reports(new) ==
  /\ IsRecord(new, StatusFields)
  /\ new.errorCode = ts.errorCode \/ new.errorCode # "none"

LEMMA ErrorStored ==
    ASSUME IsRecord(ts, StatusFields), NEW e, e # "none", ts' = [ts EXCEPT !.errorCode = e]
    PROVE  Reports(ts') /\ ts'.errorCode = e /\ ts'.maxDepth = ts.maxDepth
  BY DEF IsRecord, StatusFields, Reports

LEMMA StatusKept == ShapeInv => Reports(ts)
  BY DEF ShapeInv, Reports

LEMMA FreshRegisters ==
    ASSUME NEW k, NEW m, NEW r, NEW p
    PROVE  IsRecord(Fresh(k, m, r, p), Registers)
  BY DEF Fresh, IsRecord, Registers

LEMMA LabelStored ==
    ASSUME NEW R, IsRecord(R, Registers), NEW label
    PROVE  IsRecord([R EXCEPT !.pc = label], Registers) /\ [R EXCEPT !.pc = label].pc = label
  BY DEF IsRecord, Registers

LEMMA ChainStored ==
    ASSUME NEW R, IsRecord(R, Registers), NEW patch, NEW r, NEW n, NEW j, NEW ch, NEW label
    PROVE  IsRecord([R EXCEPT !.patch = patch, !.r = r, !.n = n, !.j = j, !.ch = ch, !.pc = label],
                    Registers)
  BY DEF IsRecord, Registers

\* What a step of the items U may do to the registers: those of the others stay.
StepOf(U) ==
  /\ bt' = [v \in Item |-> bt'[v]]
  /\ \A v \in U : IsRecord(bt'[v], Registers)
  /\ \A v \in Item \ U : bt'[v] = bt[v]

LEMMA OwnStored ==
    ASSUME ShapeInv, NEW w \in Item, NEW R, IsRecord(R, Registers), bt' = [bt EXCEPT ![w] = R]
    PROVE  StepOf({w}) /\ bt'[w] = R
  BY DEF ShapeInv, StepOf

LEMMA OwnLabelStored ==
    ASSUME ShapeInv, NEW w \in Item, NEW label, bt' = [bt EXCEPT ![w].pc = label]
    PROVE  StepOf({w}) /\ bt'[w].pc = label
  <1>1. IsRecord(bt[w], Registers) /\ bt = [v \in Item |-> bt[v]]
    BY DEF ShapeInv
  <1> DEFINE R == [bt[w] EXCEPT !.pc = label]
  <1>2. bt' = [bt EXCEPT ![w] = R]
    BY <1>1
  <1>3. IsRecord(R, Registers) /\ R.pc = label
    BY <1>1, LabelStored
  <1> HIDE DEF R
  <1>4. StepOf({w}) /\ bt'[w] = R
    BY <1>2, <1>3, OwnStored
  <1>5. QED
    BY <1>3, <1>4

\* The items U, of a group or of a wavefront, go on together.
LEMMA LabelsStored ==
    ASSUME ShapeInv, NEW U \in SUBSET Item, NEW go,
           bt' = [v \in Item |-> IF v \in U THEN [bt[v] EXCEPT !.pc = go[v]] ELSE bt[v]]
    PROVE  StepOf(U)
  <1>1. \A v \in Item : IsRecord(bt[v], Registers)
    BY DEF ShapeInv
  <1>2. \A v \in U : bt'[v] = [bt[v] EXCEPT !.pc = go[v]]
    OBVIOUS
  <1>3. \A v \in U : IsRecord(bt'[v], Registers)
    BY <1>1, <1>2, LabelStored
  <1>4. QED
    BY <1>3 DEF StepOf

-----------------------------------------------------------------------------
(* buildTree.                                                               *)

\* A step of the items U, none of which has an error to store.
LEMMA BuildStep ==
    ASSUME FaultInv, NEW U \in SUBSET Item, StepOf(U), phase = "build", UNCHANGED <<mode, phase>>,
           Reports(ts'), \A v \in U : bt[v].pc # "overflow",
           overflowed' => overflowed \/ \E v \in U : bt'[v].pc = "overflow"
    PROVE  FaultInv'
  <1>1. Item' = Item
    BY DEF Item, Group, Lane
  <1>2. ShapeInv'
    BY <1>1 DEF FaultInv, ShapeInv, StepOf, Reports
  <1>3. OverflowInv'
    <2>1. SUFFICES ASSUME overflowed', ts'.errorCode = "none"
                   PROVE  \E v \in Item : bt'[v].pc = "overflow"
      BY <1>1 DEF OverflowInv
    <2>2. CASE \E v \in U : bt'[v].pc = "overflow"
      BY <2>2
    <2>3. CASE overflowed
      <3>1. overflowed /\ ts.errorCode = "none"
        BY <2>1, <2>3 DEF Reports
      <3>2. PICK v \in Item : bt[v].pc = "overflow"
        BY <3>1 DEF FaultInv, OverflowInv
      <3>3. bt'[v] = bt[v]
        BY <3>2 DEF StepOf
      <3>4. QED
        BY <3>2, <3>3
    <2>4. QED
      BY <2>1, <2>2, <2>3
  <1>4. DepthInv'
    BY DEF DepthInv
  <1>5. QED
    BY <1>2, <1>3, <1>4 DEF FaultInv

\* A step when no item has an error to store.
LEMMA Elsewhere ==
    ASSUME FaultInv, ShapeInv', Reports(ts'), UNCHANGED <<mode, overflowed>>,
           DepthInv',
           \A w \in Item : ~At(w, "overflow")
    PROVE  FaultInv'
  <1>1. overflowed => ts.errorCode # "none"
    BY DEF FaultInv, OverflowInv, At
  <1>2. OverflowInv'
    BY <1>1 DEF OverflowInv, Reports
  <1>3. QED
    BY <1>2 DEF FaultInv

LEMMA LoadedStep ==
    ASSUME FaultInv, NEW w \in Item, NEW value, phase = "build", bt[w].pc # "overflow",
           Loaded(w, value)
    PROVE  FaultInv'
  <1> DEFINE next == bt[w].i + Inc
             new == Fresh(next, Larger(bt[w].depth, bt[w].maxd), ts.radius, pos)
             R == [new EXCEPT !.pc = IF mode.consistent THEN "barrier" ELSE "while"]
  <1>1. bt' = [bt EXCEPT ![w] = R]
    BY DEF Loaded
  <1>2. IsRecord(R, Registers)
    BY FreshRegisters, LabelStored
  <1> HIDE DEF R
  <1>3. StepOf({w})
    BY <1>1, <1>2, OwnStored DEF FaultInv
  <1>4. UNCHANGED <<mode, phase, ts, overflowed>>
    BY DEF Loaded, keep, host
  <1>5. Reports(ts')
    BY <1>4, StatusKept DEF FaultInv
  <1>6. QED
    BY <1>3, <1>4, <1>5, BuildStep

\* An item of buildTree.
LEMMA BuildItemStep ==
    ASSUME FaultInv, NEW w \in Item, BuildItem(w)
    PROVE  FaultInv'
  <1>1. ShapeInv /\ Reports(ts)
    BY StatusKept DEF FaultInv
  <1>2. IsRecord(bt[w], Registers)
    BY <1>1 DEF ShapeInv
  <1>3. CASE WhileDead(w)
    <2> DEFINE U == IF mode.lockstep THEN {v \in Item : v[1] = w[1]} ELSE {w}
               go == [v \in Item |-> IF loc[v[1]].dead = mode.lanes THEN "leave"
                                    ELSE IF bt[v].i < Bound(pass) THEN "read" ELSE "barrier"]
    <2>1. U \in SUBSET Item
      OBVIOUS
    <2>2. bt' = [v \in Item |-> IF v \in U THEN [bt[v] EXCEPT !.pc = go[v]] ELSE bt[v]]
      BY <1>3 DEF WhileDead
    <2>3. /\ phase = "build" /\ UNCHANGED <<mode, phase, ts, overflowed>>
          /\ \A v \in U : bt[v].pc # "overflow"
      BY <1>3 DEF WhileDead, At, keep, host, past
    <2> HIDE DEF U, go
    <2>4. StepOf(U)
      BY <1>1, <2>1, <2>2, LabelsStored
    <2>5. QED
      BY <1>1, <2>1, <2>3, <2>4, BuildStep
  <1>4. CASE WhileMore(w)
    <2>1. phase = "build" /\ bt[w].pc # "overflow" /\ UNCHANGED <<mode, phase, ts, overflowed>>
      BY <1>4 DEF WhileMore, At, keep, host, past
    <2>2. StepOf({w})
      BY <1>1, <1>4, OwnLabelStored DEF WhileMore
    <2>3. QED
      BY <1>1, <2>1, <2>2, BuildStep
  <1>5. CASE Read(w)
    <2>1. phase = "build" /\ bt[w].pc # "overflow" /\ UNCHANGED <<mode, phase, ts, overflowed>>
      BY <1>5 DEF Read, At, keep, host, past
    <2> DEFINE c == child[bt[w].n][bt[w].j]
               R == IF isCell(c) /\ bt[w].depth <= MaxDepth
                      THEN [bt[w] EXCEPT !.n = c, !.depth = @ + 1, !.r = @ \div 2,
                                         !.j = Octant(pos[c], pos[bt[w].i])]
                      ELSE [bt[w] EXCEPT !.ch = c,
                                         !.pc = IF c # LOCK /\ c # bt[w].i THEN "lock" ELSE "skip"]
    <2>2. bt' = [bt EXCEPT ![w] = R]
      BY <1>5 DEF Read
    <2>3. IsRecord(R, Registers)
      BY <1>2 DEF IsRecord, Registers
    <2> HIDE DEF R
    <2>4. StepOf({w})
      BY <1>1, <2>2, <2>3, OwnStored
    <2>5. QED
      BY <1>1, <2>1, <2>4, BuildStep
  <1>6. CASE TryLock(w)
    <2>1. phase = "build" /\ bt[w].pc # "overflow" /\ UNCHANGED <<mode, phase, ts, overflowed>>
      BY <1>6 DEF TryLock, At, keep, host, past
    <2> DEFINE R == [bt[w] EXCEPT !.locked = <<bt[w].n, bt[w].j>>, !.patch = -1,
                                  !.pc = IF bt[w].ch = NULL_BODY THEN "insert" ELSE "alloc"]
    <2>2. CASE child[bt[w].n][bt[w].j] = bt[w].ch
      <3>1. bt' = [bt EXCEPT ![w].locked = <<bt[w].n, bt[w].j>>, ![w].patch = -1,
                             ![w].pc = IF bt[w].ch = NULL_BODY THEN "insert" ELSE "alloc"]
        BY <1>6, <2>2 DEF TryLock
      <3>2. bt = [v \in Item |-> bt[v]]
        BY <1>1 DEF ShapeInv
      <3>3. bt' = [bt EXCEPT ![w] = R]
        BY <3>1, <3>2
      <3>4. IsRecord(R, Registers)
        BY <1>2 DEF IsRecord, Registers
      <3> HIDE DEF R
      <3>5. QED
        BY <1>1, <2>1, <3>3, <3>4, OwnStored, BuildStep
    <2>3. CASE child[bt[w].n][bt[w].j] # bt[w].ch
      <3>1. bt' = [bt EXCEPT ![w].pc = "skip"]
        BY <1>6, <2>3 DEF TryLock
      <3>2. QED
        BY <1>1, <2>1, <3>1, OwnLabelStored, BuildStep
    <2>4. QED
      BY <2>2, <2>3
  <1>7. CASE Insert(w)
    BY <1>7, LoadedStep DEF Insert, At
  <1>8. CASE Alloc(w)
    <2>1. phase = "build" /\ bt[w].pc # "overflow" /\ UNCHANGED <<mode, phase>>
      BY <1>8 DEF Alloc, At, keep, host
    <2> DEFINE none == ts.bottom - 1 <= NBody
               R == [bt[w] EXCEPT !.depth = @ + 1, !.cell = ts.bottom - 1,
                                  !.pc = IF none THEN "overflow" ELSE "fill"]
    <2>2. bt = [v \in Item |-> bt[v]]
      BY <1>1 DEF ShapeInv
    <2>3. /\ bt' = [bt EXCEPT ![w].depth = @ + 1, ![w].cell = ts.bottom - 1,
                             ![w].pc = IF none THEN "overflow" ELSE "fill"]
          /\ ts' = [ts EXCEPT !.bottom = @ - 1]
          /\ overflowed' = (overflowed \/ none)
      BY <1>8 DEF Alloc
    <2>4. bt' = [bt EXCEPT ![w] = R]
      BY <2>2, <2>3
    <2>5. IsRecord(R, Registers) /\ (none => R.pc = "overflow")
      BY <1>2 DEF IsRecord, Registers
    <2>6. Reports(ts')
      BY <1>1, <2>3 DEF Reports, IsRecord, StatusFields
    <2>7. overflowed' => overflowed \/ none
      BY <2>3
    <2> HIDE DEF R, none
    <2>8. StepOf({w}) /\ bt'[w] = R
      BY <1>1, <2>4, <2>5, OwnStored
    <2>9. QED
      BY <2>1, <2>5, <2>6, <2>7, <2>8, BuildStep
  <1>9. CASE Overflow(w)
    <2>1. UNCHANGED <<mode, phase>> /\ phase = "build"
      BY <1>9 DEF Overflow, At, keep, host
    <2>2. Reports(ts') /\ ts'.errorCode # "none"
      BY <1>1, <1>9 DEF Overflow, Reports, IsRecord, StatusFields
    <2>3. StepOf({w})
      BY <1>1, <1>9, OwnLabelStored DEF Overflow
    <2>4. Item' = Item
      BY <2>1 DEF Item, Group, Lane
    <2>5. ShapeInv'
      BY <1>1, <2>1, <2>2, <2>3, <2>4 DEF ShapeInv, StepOf, Reports
    <2>6. OverflowInv' /\ DepthInv'
      BY <2>1, <2>2 DEF OverflowInv, DepthInv
    <2>7. QED
      BY <2>5, <2>6 DEF FaultInv
  <1>10. CASE Fill(w)
    <2>1. phase = "build" /\ bt[w].pc # "overflow" /\ UNCHANGED <<mode, phase, ts, overflowed>>
      BY <1>10 DEF Fill, At, keep, host, past
    <2> DEFINE S == bt[w]
               r == S.r \div 2
               x == pos[S.n] + (IF pos[S.i] < pos[S.n] THEN -r ELSE r)
               j == Octant(x, [pos EXCEPT ![S.cell] = x][S.i])
               ch == child'[S.cell][j]
               label == IF ch >= 0 /\ S.depth <= MaxDepth THEN "alloc" ELSE "link"
               R == [S EXCEPT !.patch = Larger(S.patch, S.cell), !.r = r, !.n = S.cell, !.j = j,
                              !.ch = ch, !.pc = label]
    <2>2. bt' = [bt EXCEPT ![w] = R]
      BY <1>10 DEF Fill
    <2> HIDE DEF r, x, j, ch, label
    <2>3. IsRecord(R, Registers)
      BY <1>2, ChainStored
    <2> HIDE DEF R
    <2>4. StepOf({w})
      BY <1>1, <2>2, <2>3, OwnStored
    <2>5. QED
      BY <1>1, <2>1, <2>4, BuildStep
  <1>11. CASE Link(w)
    <2>1. phase = "build" /\ bt[w].pc # "overflow" /\ UNCHANGED <<mode, phase, ts, overflowed>>
      BY <1>11 DEF Link, At, keep, host, past
    <2>2. StepOf({w})
      BY <1>1, <1>11, OwnLabelStored DEF Link
    <2>3. QED
      BY <1>1, <2>1, <2>2, BuildStep
  <1>12. CASE Publish(w)
    BY <1>12, LoadedStep DEF Publish, At
  <1>13. CASE Skip(w)
    <2>1. phase = "build" /\ bt[w].pc # "overflow" /\ UNCHANGED <<mode, phase, ts, overflowed>>
      BY <1>13 DEF Skip, At, keep, host, past
    <2> DEFINE new == Fresh(bt[w].i + Inc, bt[w].maxd, ts.radius, pos)
               R == IF mode.consistent THEN [bt[w] EXCEPT !.pc = "barrier"]
                    ELSE [new EXCEPT !.pc = "while"]
    <2>2. bt = [v \in Item |-> bt[v]]
      BY <1>1 DEF ShapeInv
    <2>3. bt' = [bt EXCEPT ![w] = R]
      BY <1>13, <2>2 DEF Skip
    <2>4. IsRecord(R, Registers)
      BY <1>2, LabelStored, FreshRegisters
    <2> HIDE DEF R
    <2>5. StepOf({w})
      BY <1>1, <2>3, <2>4, OwnStored
    <2>6. QED
      BY <1>1, <2>1, <2>5, BuildStep
  <1>14. CASE Leave(w)
    <2>1. phase = "build" /\ bt[w].pc # "overflow" /\ UNCHANGED <<mode, phase, overflowed>>
      BY <1>14 DEF Leave, At, keep, host, past
    <2>2. Reports(ts')
      BY <1>1, <1>14 DEF Leave, Reports, IsRecord, StatusFields
    <2>3. StepOf({w})
      BY <1>1, <1>14, OwnLabelStored DEF Leave
    <2>4. QED
      BY <2>1, <2>2, <2>3, BuildStep
  <1>15. QED
    BY <1>3, <1>4, <1>5, <1>6, <1>7, <1>8, <1>9, <1>10, <1>11, <1>12, <1>13, <1>14 DEF BuildItem

-----------------------------------------------------------------------------
(* The other steps.                                                         *)

LEMMA ShapeKept ==
    ASSUME ShapeInv, Reports(ts'), UNCHANGED <<mode, bt>>
    PROVE  ShapeInv'
  BY DEF ShapeInv, Reports, Item, Group, Lane

\* A launch of buildTree.
LEMMA ShapeLaunched ==
    ASSUME ShapeInv, Reports(ts'), UNCHANGED mode, NEW k, LaunchBuild(k)
    PROVE  ShapeInv'
  <1>1. Item' = Item
    BY DEF Item, Group, Lane
  <1>2. bt' = [w \in Item |-> bt'[w]]
    BY DEF LaunchBuild
  <1> DEFINE first(w) == Gid(w) + (IF mode.consistent THEN Offset(k) ELSE 0)
  <1>3. \A w \in Item : bt'[w] = Fresh(first(w), 1, ts.radius, pos)
    BY DEF LaunchBuild
  <1>4. ASSUME NEW w \in Item
        PROVE  IsRecord(bt'[w], Registers)
    <2> DEFINE k0 == first(w)
    <2>1. bt'[w] = Fresh(k0, 1, ts.radius, pos)
      BY <1>3
    <2> HIDE DEF k0
    <2>2. QED
      BY <2>1, FreshRegisters
  <1>5. QED
    BY <1>1, <1>2, <1>4 DEF ShapeInv, Reports

\* A step of another kernel that leaves the registers of buildTree alone and
\* the phase, or goes to one in which the depth of the tree does not matter.
LEMMA OtherKernel ==
    ASSUME FaultInv, phase # "build", Reports(ts'), UNCHANGED <<mode, bt, overflowed>>, DepthInv'
    PROVE  FaultInv'
  BY ShapeKept, Elsewhere DEF FaultInv, At

LEMMA BuildGroupStep ==
    ASSUME FaultInv, NEW g \in Group, BuildGroup(g)
    PROVE  FaultInv'
  <1>1. ShapeInv /\ Reports(ts)
    BY StatusKept DEF FaultInv
  <1> DEFINE U == {w \in Item : w[1] = g}
  <1>2. U \in SUBSET Item
    OBVIOUS
  <1>3. ASSUME NEW label, label # "overflow", \A l \in Lane : At(<<g, l>>, label)
        PROVE  phase = "build" /\ \A w \in U : bt[w].pc # "overflow"
    <2>1. \A w \in U : \E l \in Lane : w = <<g, l>>
      BY DEF Item
    <2>2. 0 \in Lane
      BY <1>1, ModeAssumption DEF ShapeInv, Lane
    <2>3. QED
      BY <1>3, <2>1, <2>2 DEF At
  <1>4. CASE BoxReduce(g)
    <2>1. phase = "box" /\ UNCHANGED <<mode, ts, phase, bt, overflowed>>
      BY <1>4 DEF BoxReduce, host, past
    <2>2. QED
      BY <1>1, <2>1, OtherKernel DEF DepthInv
  <1>5. CASE BoxCount(g)
    <2>1. phase = "box" /\ UNCHANGED <<mode, phase, bt, overflowed>>
      BY <1>5 DEF BoxCount, host, past
    <2>2. \/ \E r : ts' = [ts EXCEPT !.radius = r, !.bottom = NNode, !.blkCnt = 0, !.doneCnt = 0]
          \/ ts' = [ts EXCEPT !.blkCnt = @ + 1]
      BY <1>5 DEF BoxCount
    <2>3. Reports(ts')
      BY <1>1, <2>2 DEF Reports, IsRecord, StatusFields
    <2>4. QED
      BY <2>1, <2>3, OtherKernel DEF DepthInv
  <1>6. CASE GroupStart(g)
    <2> DEFINE go == [w \in Item |-> IF ~mode.consistent /\ ts.doneCnt = NBody THEN "exit" ELSE "while"]
    <2>1. UNCHANGED <<mode, ts, phase, overflowed>>
      BY <1>6 DEF GroupStart, keep, host, past
    <2>2. bt' = [w \in Item |-> IF w \in U THEN [bt[w] EXCEPT !.pc = go[w]] ELSE bt[w]]
      BY <1>6 DEF GroupStart
    <2>3. \A l \in Lane : At(<<g, l>>, "start")
      BY <1>6 DEF GroupStart
    <2> HIDE DEF go
    <2>4. StepOf(U)
      BY <1>1, <1>2, <2>2, LabelsStored
    <2>5. QED
      BY <1>1, <1>2, <1>3, <2>1, <2>3, <2>4, BuildStep
  <1>7. CASE Barrier(g)
    <2> DEFINE go == [w \in Item |-> "while"]
    <2>1. UNCHANGED <<mode, ts, phase, overflowed>>
      BY <1>7 DEF Barrier, keep, host, past
    <2>2. bt' = [w \in Item |-> IF w \in U THEN [bt[w] EXCEPT !.pc = go[w]] ELSE bt[w]]
      BY <1>7 DEF Barrier
    <2>3. \A l \in Lane : At(<<g, l>>, "barrier")
      BY <1>7 DEF Barrier
    <2> HIDE DEF go
    <2>4. StepOf(U)
      BY <1>1, <1>2, <2>2, LabelsStored
    <2>5. QED
      BY <1>1, <1>2, <1>3, <2>1, <2>3, <2>4, BuildStep
  <1>8. CASE Sync(g)
    <2> DEFINE go == [w \in Item |-> "leave"]
    <2>1. UNCHANGED <<mode, phase, overflowed>>
      BY <1>8 DEF Sync, keep, host, past
    <2>2. bt' = [w \in Item |-> IF w \in U THEN [bt[w] EXCEPT !.pc = go[w]] ELSE bt[w]]
      BY <1>8 DEF Sync
    <2>3. \A l \in Lane : At(<<g, l>>, "sync")
      BY <1>8 DEF Sync
    <2>4. Reports(ts')
      BY <1>1, <1>8 DEF Sync, Reports, IsRecord, StatusFields
    <2> HIDE DEF go
    <2>5. StepOf(U)
      BY <1>1, <1>2, <2>2, LabelsStored
    <2>6. QED
      BY <1>2, <1>3, <2>1, <2>3, <2>4, <2>5, BuildStep
  <1>9. QED
    BY <1>4, <1>5, <1>6, <1>7, <1>8 DEF BuildGroup

LEMMA BuildHostStep ==
    ASSUME FaultInv, BuildHost
    PROVE  FaultInv'
  <1>1. ShapeInv /\ Reports(ts)
    BY StatusKept DEF FaultInv
  <1>2. CASE buildTreeClear
    <2>1. /\ phase = "box" /\ phase' = "build" /\ LaunchBuild(0)
          /\ UNCHANGED <<mode, ts, overflowed>>
      BY <1>2 DEF buildTreeClear
    <2>2. ShapeInv'
      BY <1>1, <2>1, ShapeLaunched
    <2>3. QED
      BY <1>1, <2>1, <2>2, Elsewhere DEF DepthInv, At
  <1>3. CASE NextChunk \/ Repeat
    <2>1. BuildEnded /\ UNCHANGED <<mode, ts, overflowed>>
      BY <1>3 DEF NextChunk, Repeat, past
    <2>2. phase' \in {"build", "sumclear", "error", "stuck"}
      BY <1>3 DEF NextChunk, Repeat, BuildEnded
    <2>3. (\E k : LaunchBuild(k)) \/ UNCHANGED bt
      BY <1>3 DEF NextChunk, Repeat
    <2>4. ShapeInv'
      BY <1>1, <2>1, <2>3, ShapeLaunched, ShapeKept
    <2>5. \A w \in Item : ~At(w, "overflow")
      BY <2>1 DEF BuildEnded, At
    <2>6. DepthInv'
      BY <2>2 DEF DepthInv
    <2>7. QED
      BY <1>1, <2>1, <2>4, <2>5, <2>6, Elsewhere
  <1>4. QED
    BY <1>2, <1>3 DEF BuildHost

\* summarization, sort and quadMoments.
LEMMA SumStep ==
    ASSUME FaultInv, (\E w \in Item : SumItem(w) \/ SortCell(w)) \/ SumHost
    PROVE  FaultInv'
  <1>1. ShapeInv /\ Reports(ts) /\ IsRecord(ts, StatusFields)
    BY StatusKept DEF FaultInv, ShapeInv
  <1>2. CASE \E w \in Item : SumItem(w) \/ SortCell(w)
    <2>1. PICK w \in Item : SumItem(w) \/ SortCell(w)
      BY <1>2
    <2>2. /\ phase \in {"sum", "quad", "sort"} /\ UNCHANGED <<mode, phase, bt, overflowed>>
          /\ UNCHANGED ts \/ ts' = [ts EXCEPT !.errorCode = "structure"]
      BY <2>1 DEF SumItem, Scan, Poll, Store, SetReady, NextCell, SortCell, AtSum, host, past
    <2>3. Reports(ts')
      BY <1>1, <2>2, ErrorStored
    <2>4. QED
      BY <2>2, <2>3, OtherKernel DEF DepthInv
  <1>3. CASE SumHost
    <2>1. /\ phase \in {"sumclear", "sum", "quad", "sort"} /\ phase' \in {"sum", "quad", "sort", "tree"}
          /\ UNCHANGED <<mode, bt, overflowed>>
          /\ UNCHANGED ts \/ ts' = [ts EXCEPT !.errorCode = "depth"]
      BY <1>3 DEF SumHost, summarizationClear, SumAgain, SortAgain, QuadAgain, past
    <2>2. Reports(ts')
      BY <1>1, <2>1, ErrorStored
    <2>3. QED
      BY <2>1, <2>2, OtherKernel DEF DepthInv
  <1>4. QED
    BY <1>2, <1>3

\* forceCalculation.
LEMMA ForceStep ==
    ASSUME FaultInv, (\E u : Visit(u) \/ Save(u)) \/ ForceHost
    PROVE  FaultInv'
  <1>1. ShapeInv /\ Reports(ts) /\ IsRecord(ts, StatusFields)
    BY StatusKept DEF FaultInv, ShapeInv
  <1>2. CASE \E u : Visit(u) \/ Save(u)
    <2>1. /\ phase = "force" /\ UNCHANGED <<mode, phase, bt, overflowed>>
          /\ UNCHANGED ts \/ ts' = [ts EXCEPT !.errorCode = "incest"]
      BY <1>2 DEF Visit, Save, AtForce, host, past
    <2>2. Reports(ts') /\ ts'.maxDepth = ts.maxDepth
      BY <1>1, <2>1, ErrorStored
    <2>3. DepthInv'
      BY <2>1, <2>2 DEF FaultInv, DepthInv
    <2>4. QED
      BY <2>1, <2>2, <2>3, OtherKernel
  <1>3. CASE BeginForce
    <2>1. phase = "tree" /\ UNCHANGED <<mode, bt, overflowed>>
      BY <1>3 DEF BeginForce, past
    <2>2. CASE ts.maxDepth > MaxDepth
      <3>1. phase' = "integrate" /\ ts' = [ts EXCEPT !.errorCode = "depth"]
        BY <1>3, <2>2 DEF BeginForce
      <3>2. Reports(ts') /\ ts'.errorCode = "depth"
        BY <1>1, <3>1, ErrorStored
      <3>3. QED
        BY <2>1, <3>1, <3>2, OtherKernel DEF DepthInv
    <2>3. CASE ~(ts.maxDepth > MaxDepth)
      <3>1. phase' = "force" /\ UNCHANGED ts
        BY <1>3, <2>3 DEF BeginForce
      <3>2. QED
        BY <1>1, <2>1, <2>3, <3>1, OtherKernel DEF DepthInv
    <2>4. QED
      BY <2>2, <2>3
  <1>4. CASE ForceAgain
    <2>1. /\ phase = "force" /\ phase' \in {"force", "integrate"}
          /\ UNCHANGED <<mode, ts, bt, overflowed>>
      BY <1>4 DEF ForceAgain, past
    <2>2. DepthInv'
      BY <2>1 DEF FaultInv, DepthInv
    <2>3. QED
      BY <1>1, <2>1, <2>2, OtherKernel
  <1>5. QED
    BY <1>2, <1>3, <1>4 DEF ForceHost

LEMMA IntegrationStep ==
    ASSUME FaultInv, integration
    PROVE  FaultInv'
  <1>1. ShapeInv /\ Reports(ts)
    BY StatusKept DEF FaultInv
  <1>2. phase = "integrate" /\ phase' \in {"done", "box", "error"} /\ UNCHANGED <<mode, ts, overflowed>>
    BY DEF integration, past
  <1>3. Item' = Item
    BY <1>2 DEF Item, Group, Lane
  <1>4. bt' = [w \in Item |-> Fresh(0, 1, 0, [n \in Node |-> 0])]
    BY DEF integration, Idle
  <1>5. ShapeInv'
    BY <1>1, <1>2, <1>3, <1>4, FreshRegisters DEF ShapeInv, Reports
  <1>6. QED
    BY <1>1, <1>2, <1>5, Elsewhere DEF DepthInv, At

-----------------------------------------------------------------------------
LEMMA FaultNext == FaultInv /\ [Next]_vars => FaultInv'
  <1> SUFFICES ASSUME FaultInv, [Next]_vars
               PROVE  FaultInv'
    OBVIOUS
  <1>1. ASSUME NEW w \in Item, ItemStep(w)
        PROVE  FaultInv'
    <2>1. w[1] \in Group
      BY DEF Item
    <2>2. QED
      BY <1>1, <2>1, BuildItemStep, BuildGroupStep, SumStep, ForceStep DEF ItemStep
  <1>2. CASE HostStep
    BY <1>2, BuildHostStep, SumStep, ForceStep, IntegrationStep DEF HostStep
  <1>3. CASE UNCHANGED vars
    <2>1. UNCHANGED <<mode, ts, bt, phase, overflowed>>
      BY <1>3 DEF vars, host, work, past
    <2>2. Item' = Item
      BY <2>1 DEF Item, Group, Lane
    <2>3. QED
      BY <2>1, <2>2 DEF FaultInv, ShapeInv, OverflowInv, DepthInv
  <1>4. QED
    BY <1>1, <1>2, <1>3 DEF Next

LEMMA FaultFirst == Init => FaultInv
  <1> SUFFICES ASSUME Init
               PROVE  FaultInv
    OBVIOUS
  <1>1. bt = [w \in Item |-> Fresh(0, 1, 0, [n \in Node |-> 0])]
    BY DEF Init, Idle
  <1>2. mode \in Modes /\ IsRecord(ts, StatusFields)
    BY DEF Init, IsRecord, StatusFields
  <1>3. ShapeInv
    BY <1>1, <1>2, FreshRegisters DEF ShapeInv
  <1>4. OverflowInv /\ DepthInv
    BY DEF Init, OverflowInv, DepthInv
  <1>5. QED
    BY <1>3, <1>4 DEF FaultInv

(* However the work items of buildTree and the kernels after it interleave, *)
(* an item that found no cell has stored an error, or is about to before    *)
(* the launch can end, and no later store clears the error code; a tree     *)
(* that is too deep is not walked and is reported.                          *)
THEOREM Invariant == Spec => []FaultInv
  <1>1. QED
    BY FaultFirst, FaultNext, PTL DEF Spec

(* A tree that was too deep, or for which cells ran out, has an error code  *)
(* when the bodies of the step are moved.                                   *)
THEOREM FaultsAreReported == Spec => []FaultReported
  <1>1. FaultInv => FaultReported
    BY DEF FaultInv, OverflowInv, DepthInv, FaultReported
  <1>2. QED
    BY <1>1, Invariant, PTL

-----------------------------------------------------------------------------
(* The tree as buildTree makes it.                                          *)

NoItem   == <<-1, -1>>   \* a cell that all items can reach
Chaining == {"alloc", "fill", "link", "publish"}
Holding  == {"insert"} \cup Chaining
Labels   == {"start", "while", "read", "lock", "skip", "barrier", "sync", "leave", "exit"} \cup Holding

Holds(w)      == bt[w].pc \in Holding
Chains(w)     == bt[w].pc \in Chaining
Filling(w, c) == bt[w].pc = "fill" /\ c = bt[w].cell
Oct(m, b)     == Octant(pos[m], pos[b])
Leads(m, b)   == child[m][Oct(m, b)]

\* The body that was in the slot item w has locked.
Was(w) == IF bt[w].pc \in {"alloc", "fill"} THEN bt[w].ch ELSE child[bt[w].n][1 - bt[w].j]

\* No cell was missing and nothing too deep has been inserted, or is about to be.
Fit ==
  /\ ~overflowed /\ ts.maxDepth <= MaxDepth
  /\ phase = "build" =>
       \A w \in Item : bt[w].pc # "exit" =>
         bt[w].maxd <= MaxDepth /\ (Holds(w) => bt[w].depth <= MaxDepth)

-----------------------------------------------------------------------------
(* The invariant of buildTree.                                              *)

MemoryInv ==
  /\ child \in [Node -> [Sub -> Node \cup {NULL_BODY, LOCK}]]
  /\ pos = [n \in Node |-> pos[n]]
  /\ ts.bottom \in NBody + 1 .. NNode
  /\ loaded \subseteq Body

\* A cell belongs in one octant of the cell above it.
CellInv(up, lv, reg) ==
  /\ lv \in [Node -> Nat]
  /\ \A c \in Cells : reg[c] \subseteq Body
  /\ lv[NNode] = 1 /\ reg[NNode] = Body
  /\ \A c \in Cells : c # NNode =>
       /\ up[c] \in Cells \X Sub /\ c < up[c][1] /\ lv[c] = lv[up[c][1]] + 1
       /\ \A b : b \in reg[c] <=> b \in reg[up[c][1]] /\ Oct(up[c][1], b) = up[c][2]

\* Child pointers lead there, and to every cell that is not private.
LinkInv(up, own) ==
  /\ own = [c \in Node |-> own[c]] /\ own[NNode] = NoItem
  /\ \A m \in Cells, s \in Sub : isCell(child[m][s]) =>
       /\ child[m][s] \in Cells /\ child[m][s] # NNode
       /\ up[child[m][s]] = <<m, s>> /\ own[child[m][s]] = own[m]
  /\ \A m \in Node, s \in Sub : isCell(m) /\ m < ts.bottom => child[m][s] = NULL_BODY
  /\ \A c \in Cells : c # NNode /\ own[c] = NoItem => child[up[c][1]][up[c][2]] = c

\* The cells a position leads to follow each other.
UniqueInv(reg, own) ==
  \A m, l \in Cells : l < m /\ own[l] = own[m] =>
    \A b : b \in reg[m] /\ b \in reg[l] => isCell(Leads(m, b)) \/ \E w \in Item : Filling(w, l)

\* A body in a slot belongs there.
BodyInv(reg, own) ==
  \A m \in Cells, s \in Sub : child[m][s] \in Body =>
    /\ Oct(m, child[m][s]) = s /\ child[m][s] \in reg[m]
    /\ own[m] = NoItem => child[m][s] \in loaded
    /\ own[m] # NoItem => child[m][s] \in {bt[own[m]].i, Was(own[m])}

\* A locked slot has one holder.
LockInv(own) ==
  /\ \A m \in Cells, s \in Sub : child[m][s] = LOCK =>
       own[m] = NoItem /\ \E w \in Item : Holds(w) /\ bt[w].locked = <<m, s>>
  /\ \A v, w \in Item : Holds(v) /\ Holds(w) /\ bt[v].locked = bt[w].locked => v = w

\* Wherever a search for an inserted body has come, it goes on, or ends at the
\* body, or waits for the item that moves it into a new cell.
LoadedInv(reg, own) ==
  \A b \in loaded, m \in Cells : own[m] = NoItem /\ b \in reg[m] =>
    \/ isCell(Leads(m, b)) \/ Leads(m, b) = b
    \/ \E w \in Item : Chains(w) /\ bt[w].locked = <<m, Oct(m, b)>> /\ Was(w) = b

\* No cell is made for a single body.
FullInv(own) ==
  \A c \in Cells : c # NNode /\ own[c] = NoItem =>
    \/ \E s \in Sub : isCell(child[c][s]) \/ \E w \in Item : Chains(w) /\ bt[w].locked = <<c, s>>
    \/ \A s \in Sub : child[c][s] # NULL_BODY

\* An item on its way down.
Walks(w, lv, reg, own) ==
  /\ bt[w].i \in Nat /\ bt[w].pc \in Labels
  /\ ~Holds(w) =>
       /\ bt[w].n \in Cells /\ own[bt[w].n] = NoItem /\ bt[w].depth = lv[bt[w].n] /\ bt[w].j \in Sub
       /\ bt[w].i \in Body => bt[w].i \in reg[bt[w].n] /\ bt[w].j = Oct(bt[w].n, bt[w].i)
  /\ bt[w].pc \in {"read", "lock", "skip"} => bt[w].i \in Body
  /\ bt[w].pc = "lock" => bt[w].ch \in Body \cup {NULL_BODY} /\ bt[w].ch # bt[w].i

\* An item that has locked a slot: the body it inserts is not in the tree, the
\* body it has found is.
Locks(w, lv, reg, own) ==
  /\ bt[w].i \in Body /\ bt[w].i \notin loaded
  /\ bt[w].locked \in Cells \X Sub /\ own[bt[w].locked[1]] = NoItem
  /\ child[bt[w].locked[1]][bt[w].locked[2]] = LOCK
  /\ bt[w].i \in reg[bt[w].locked[1]] /\ bt[w].locked[2] = Oct(bt[w].locked[1], bt[w].i)
  /\ bt[w].n \in Cells /\ bt[w].j = Oct(bt[w].n, bt[w].i)
  /\ bt[w].depth = IF bt[w].pc = "fill" THEN lv[bt[w].cell] ELSE lv[bt[w].n]
  /\ bt[w].pc = "insert" => bt[w].locked = <<bt[w].n, bt[w].j>>
  /\ Chains(w) => /\ Was(w) \in loaded /\ Was(w) \in reg[bt[w].locked[1]]
                  /\ Oct(bt[w].locked[1], Was(w)) = bt[w].locked[2]

\* Its private chain, from patch down to n, and the cell it has just taken.
NoChain(w, own) ==
  /\ bt[w].locked = <<bt[w].n, bt[w].j>> /\ bt[w].pc \in {"alloc", "fill"}
  /\ \A c \in Cells : own[c] = w => Filling(w, c)
ChainEnds(w, up, own) ==
  /\ bt[w].patch \in Cells /\ bt[w].patch # NNode /\ own[bt[w].patch] = w
  /\ ~Filling(w, bt[w].patch) /\ up[bt[w].patch] = bt[w].locked
  /\ own[bt[w].n] = w /\ ~Filling(w, bt[w].n)
  /\ bt[w].pc \in {"alloc", "fill"} => child[bt[w].n][bt[w].j] = Was(w)
  /\ \A c \in Cells : own[c] = w => Filling(w, c) \/ (bt[w].n <= c /\ c <= bt[w].patch)
ChainFill(w, up, own) ==
  /\ bt[w].cell \in Cells /\ bt[w].cell # NNode /\ own[bt[w].cell] = w
  /\ up[bt[w].cell] = <<bt[w].n, bt[w].j>>
  /\ \A s \in Sub : child[bt[w].cell][s] = NULL_BODY
  /\ \A c \in Cells : c # NNode => up[c][1] # bt[w].cell
ChainCell(w, c, up, lv, reg) ==
  /\ lv[c] <= bt[w].depth
  /\ \A b \in reg[c] : b \in reg[bt[w].locked[1]] /\ Oct(bt[w].locked[1], b) = bt[w].locked[2]
  /\ ~Filling(w, c) =>
       /\ bt[w].i \in reg[c] /\ Was(w) \in reg[c]
       /\ c = bt[w].patch \/ child[up[c][1]][up[c][2]] = c
       /\ isCell(Leads(c, Was(w))) \/ Leads(c, Was(w)) = Was(w)
Chain(w, up, lv, reg, own) ==
  /\ bt[w].patch = -1 => NoChain(w, own)
  /\ bt[w].patch # -1 => ChainEnds(w, up, own)
  /\ bt[w].pc = "fill" => ChainFill(w, up, own)
  /\ bt[w].pc = "link" => child[bt[w].n][bt[w].j] = NULL_BODY
  /\ bt[w].pc = "publish" => child[bt[w].n][bt[w].j] = bt[w].i
  /\ \A c \in Cells : own[c] = w => ChainCell(w, c, up, lv, reg)

ItemInv(up, lv, reg, own) ==
  /\ \A w \in Item : Walks(w, lv, reg, own)
  /\ \A w \in Item : Holds(w) => Locks(w, lv, reg, own)
  /\ \A w \in Item : Chains(w) => Chain(w, up, lv, reg, own)
  /\ \A c \in Cells : own[c] # NoItem => own[c] \in Item /\ Chains(own[c])

\* Cells that can be reached are no deeper than what is, or will be, reported.
CoverInv(lv, own) ==
  /\ ts.maxDepth >= 1
  /\ \A c \in Cells : own[c] = NoItem =>
       lv[c] <= ts.maxDepth \/ \E w \in Item : bt[w].pc # "exit" /\ lv[c] <= bt[w].maxd

TreeInv(up, lv, reg, own) ==
  /\ MemoryInv /\ CellInv(up, lv, reg) /\ LinkInv(up, own) /\ UniqueInv(reg, own)
  /\ BodyInv(reg, own) /\ LockInv(own) /\ LoadedInv(reg, own) /\ FullInv(own)
  /\ ItemInv(up, lv, reg, own) /\ CoverInv(lv, own)

-----------------------------------------------------------------------------
(* Steps that only move registers of items that hold no lock.               *)

LEMMA OctRange == \A m, b : Oct(m, b) \in Sub
  BY DEF Oct, Octant, Sub

LEMMA OctKept ==
    ASSUME UNCHANGED pos
    PROVE  \A m, b : Oct(m, b)' = Oct(m, b)
  BY DEF Oct

LEMMA SameItems ==
    ASSUME UNCHANGED mode
    PROVE  Item' = Item
  BY DEF Item, Group, Lane

\* What an item that is not part of a step keeps.
LEMMA ItemKept ==
    ASSUME NEW v, bt'[v] = bt[v], child'[bt[v].n][1 - bt[v].j] = child[bt[v].n][1 - bt[v].j]
    PROVE  /\ Holds(v)' <=> Holds(v)
           /\ Chains(v)' <=> Chains(v)
           /\ \A c : Filling(v, c)' <=> Filling(v, c)
           /\ Was(v)' = Was(v)
  BY DEF Holds, Chains, Filling, Was

LEMMA WalkStep ==
    ASSUME NEW up, NEW lv, NEW reg, NEW own, TreeInv(up, lv, reg, own), NEW U \in SUBSET Item,
           UNCHANGED <<mode, child, pos, loaded>>, ts'.bottom = ts.bottom,
           \A v \in Item \ U : bt'[v] = bt[v],
           \A v \in U : ~Holds(v) /\ ~Holds(v)' /\ Walks(v, lv, reg, own)',
           CoverInv(lv, own)'
    PROVE  TreeInv(up, lv, reg, own)'
  <1>1. Item' = Item /\ Cells' = Cells /\ \A m, b : Oct(m, b)' = Oct(m, b)
    BY SameItems, OctKept DEF Cells
  <1>2. \A m, b : Leads(m, b)' = Leads(m, b)
    BY <1>1 DEF Leads
  <1>3. \A v \in Item \ U : /\ bt'[v] = bt[v] /\ (Holds(v)' <=> Holds(v)) /\ (Chains(v)' <=> Chains(v))
                            /\ \A c : Filling(v, c)' <=> Filling(v, c)
                            /\ Was(v)' = Was(v)
    BY ItemKept
  <1>4. \A v \in U : ~Chains(v) /\ ~Chains(v)' /\ \A c : ~Filling(v, c) /\ ~Filling(v, c)'
    BY DEF Holds, Chains, Filling, Holding, Chaining
  <1>5. \A v \in Item : /\ (Holds(v)' <=> Holds(v)) /\ (Chains(v)' <=> Chains(v))
                        /\ \A c : Filling(v, c)' <=> Filling(v, c)
                        /\ Holds(v) => bt'[v] = bt[v] /\ Was(v)' = Was(v)
    BY <1>3, <1>4
  <1>6. \A v \in Item : Chains(v) => Holds(v)
    BY DEF Holds, Chains, Holding
  <1>a. MemoryInv' /\ CellInv(up, lv, reg)' /\ LinkInv(up, own)'
    BY <1>1 DEF TreeInv, MemoryInv, CellInv, LinkInv
  <1>b. UniqueInv(reg, own)'
    BY <1>1, <1>2, <1>5 DEF TreeInv, UniqueInv
  <1>c. BodyInv(reg, own)'
    BY <1>1, <1>5, <1>6 DEF TreeInv, BodyInv, ItemInv
  <1>d. LockInv(own)'
    BY <1>1, <1>5 DEF TreeInv, LockInv
  <1>e. LoadedInv(reg, own)'
    BY <1>1, <1>2, <1>5, <1>6 DEF TreeInv, LoadedInv
  <1>f. FullInv(own)'
    BY <1>1, <1>5, <1>6 DEF TreeInv, FullInv
  <1>g. ASSUME NEW v \in Item
        PROVE  Walks(v, lv, reg, own)'
    BY <1>1, <1>3 DEF TreeInv, ItemInv, Walks
  <1>h. ASSUME NEW v \in Item, Holds(v)
        PROVE  Locks(v, lv, reg, own)'
    <2>1. Locks(v, lv, reg, own)
      BY <1>h DEF TreeInv, ItemInv
    <2>2. QED
      BY <1>1, <1>5, <1>h, <2>1 DEF Locks
  <1>i. ASSUME NEW v \in Item, Chains(v)
        PROVE  Chain(v, up, lv, reg, own)'
    <2>1. Chain(v, up, lv, reg, own) /\ bt'[v] = bt[v]
      BY <1>i, <1>5, <1>6 DEF TreeInv, ItemInv
    <2>2. \A c : ChainCell(v, c, up, lv, reg) => ChainCell(v, c, up, lv, reg)'
      BY <1>1, <1>2, <1>5, <1>6, <1>i, <2>1 DEF ChainCell
    <2>3. QED
      BY <1>1, <1>5, <1>6, <1>i, <2>1, <2>2 DEF Chain, NoChain, ChainEnds, ChainFill
  <1>j. ItemInv(up, lv, reg, own)'
    BY <1>1, <1>5, <1>g, <1>h, <1>i DEF TreeInv, ItemInv
  <1>k. QED
    BY <1>a, <1>b, <1>c, <1>d, <1>e, <1>f, <1>j DEF TreeInv

NumInv ==
  /\ ts.maxDepth \in Nat
  /\ \A w \in Item : bt[w].depth \in Nat /\ bt[w].maxd \in Nat /\ (bt[w].pc = "start" => bt[w].maxd = 1)

\* Without errors no walk is deeper than the stack of the force kernel.
LEMMA Shallow ==
    ASSUME NumInv, Fit, phase = "build", NEW lv, NEW own, CoverInv(lv, own), lv \in [Node -> Nat],
           NEW c \in Cells, c \in Node, own[c] = NoItem
    PROVE  lv[c] <= MaxDepth
  BY DepthAssumption DEF NumInv, Fit, CoverInv

LEMMA CoverStep ==
    ASSUME NumInv, NumInv', NEW lv, NEW own, CoverInv(lv, own), lv \in [Node -> Nat],
           MemoryInv, NEW U \in SUBSET Item, UNCHANGED mode, ts'.bottom = ts.bottom,
           \A v \in Item \ U : bt'[v] = bt[v],
           ts.maxDepth <= ts'.maxDepth,
           \A v \in U : bt[v].pc # "exit" => \/ bt'[v].pc # "exit" /\ bt[v].maxd <= bt'[v].maxd
                                             \/ bt[v].maxd <= ts'.maxDepth
    PROVE  CoverInv(lv, own)'
  <1>1. Item' = Item /\ Cells' = Cells /\ \A c \in Cells : lv[c] \in Nat
    BY SameItems, NodeAssumption DEF Cells, MemoryInv, Node
  <1>2. ts'.maxDepth >= 1
    BY DEF NumInv, CoverInv
  <1>3. ASSUME NEW c \in Cells, own[c] = NoItem
        PROVE  lv[c] <= ts'.maxDepth \/ \E w \in Item : bt'[w].pc # "exit" /\ lv[c] <= bt'[w].maxd
    <2>1. CASE lv[c] <= ts.maxDepth
      BY <1>1, <2>1 DEF NumInv
    <2>2. CASE \E w \in Item : bt[w].pc # "exit" /\ lv[c] <= bt[w].maxd
      <3>1. PICK w \in Item : bt[w].pc # "exit" /\ lv[c] <= bt[w].maxd
        BY <2>2
      <3>2. bt[w].maxd \in Nat /\ bt'[w].maxd \in Nat /\ ts'.maxDepth \in Nat /\ lv[c] \in Nat
        BY <1>1 DEF NumInv
      <3>3. CASE w \in U
        BY <3>1, <3>2, <3>3
      <3>4. CASE w \notin U
        BY <3>1, <3>4
      <3>5. QED
        BY <3>3, <3>4
    <2>3. QED
      BY <1>3, <2>1, <2>2 DEF CoverInv
  <1>4. QED
    BY <1>1, <1>2, <1>3 DEF CoverInv

\* The registers other than the label.
Keeps(v) ==
  /\ bt'[v].i = bt[v].i /\ bt'[v].n = bt[v].n /\ bt'[v].depth = bt[v].depth
  /\ bt'[v].maxd = bt[v].maxd /\ bt'[v].j = bt[v].j /\ bt'[v].ch = bt[v].ch
  /\ bt'[v].locked = bt[v].locked /\ bt'[v].cell = bt[v].cell /\ bt'[v].patch = bt[v].patch

LEMMA RelabelStep ==
    ASSUME NumInv, NumInv', NEW up, NEW lv, NEW reg, NEW own, TreeInv(up, lv, reg, own),
           NEW U \in SUBSET Item,
           UNCHANGED <<mode, child, pos, loaded>>, ts'.bottom = ts.bottom, ts.maxDepth <= ts'.maxDepth,
           \A v \in Item \ U : bt'[v] = bt[v],
           \A v \in U : /\ Keeps(v) /\ ~Holds(v)
                        /\ bt'[v].pc \in {"while", "read", "skip", "barrier", "sync", "leave", "exit"}
                        /\ bt'[v].pc \in {"read", "skip"} => bt[v].i \in Body
                        /\ bt'[v].pc = "exit" => bt[v].maxd <= ts'.maxDepth
    PROVE  TreeInv(up, lv, reg, own)'
  <1>1. Cells' = Cells /\ \A m, b : Oct(m, b)' = Oct(m, b)
    BY OctKept DEF Cells
  <1>2. ASSUME NEW v \in U
        PROVE  ~Holds(v)' /\ Walks(v, lv, reg, own)'
    <2>1. ~Holds(v)' /\ bt'[v].pc \in Labels /\ bt'[v].pc \notin {"lock", "start"}
      BY DEF Holds, Holding, Chaining, Labels
    <2>2. Walks(v, lv, reg, own)
      BY DEF TreeInv, ItemInv
    <2>3. QED
      BY <1>1, <2>1, <2>2 DEF Walks, Keeps
  <1>3. CoverInv(lv, own)'
    <2>1. CoverInv(lv, own) /\ lv \in [Node -> Nat] /\ MemoryInv
      BY DEF TreeInv, CellInv
    <2>2. \A v \in U : bt[v].maxd <= bt'[v].maxd
      BY DEF Keeps, NumInv
    <2>3. QED
      BY <2>1, <2>2, CoverStep
  <1>4. QED
    BY <1>2, <1>3, WalkStep

-----------------------------------------------------------------------------
(* What the actions of buildTree do, register by register.                  *)

Relabels(U, from, to) ==
  /\ \A v \in Item \ U : bt'[v] = bt[v]
  /\ \A v \in U : Keeps(v) /\ bt[v].pc \in from /\ bt'[v].pc \in to
Only(w) == \A v \in Item : v # w => bt'[v] = bt[v]
TreeKept ==
  UNCHANGED <<mode, child, pos, loaded, overflowed, phase, pass>> /\ ts'.bottom = ts.bottom
Begins(w, i, maxd) ==
  /\ bt'[w].i = i /\ bt'[w].n = NNode /\ bt'[w].depth = 1 /\ bt'[w].maxd = maxd
  /\ bt'[w].j = IF i \in Body THEN Oct(NNode, i) ELSE 0

LEMMA LabelFields ==
    ASSUME NEW v, IsRecord(bt[v], Registers), NEW x, bt'[v] = [bt[v] EXCEPT !.pc = x]
    PROVE  Keeps(v) /\ bt'[v].pc = x
  BY DEF IsRecord, Registers, Keeps

LEMMA LabelsGo ==
    ASSUME ShapeInv, NEW U \in SUBSET Item, NEW go, NEW from, NEW to,
           bt' = [v \in Item |-> IF v \in U THEN [bt[v] EXCEPT !.pc = go[v]] ELSE bt[v]],
           \A v \in U : bt[v].pc \in from /\ go[v] \in to
    PROVE  Relabels(U, from, to) /\ \A v \in U : bt'[v].pc = go[v]
  <1>1. \A v \in U : IsRecord(bt[v], Registers) /\ bt'[v] = [bt[v] EXCEPT !.pc = go[v]]
    BY DEF ShapeInv
  <1>2. \A v \in U : Keeps(v) /\ bt'[v].pc = go[v]
    BY <1>1, LabelFields
  <1>3. QED
    BY <1>2 DEF Relabels

LEMMA LabelGoes ==
    ASSUME ShapeInv, NEW w \in Item, NEW x, bt' = [bt EXCEPT ![w].pc = x]
    PROVE  Relabels({w}, {bt[w].pc}, {x})
  <1>1. IsRecord(bt[w], Registers) /\ bt = [v \in Item |-> bt[v]]
    BY DEF ShapeInv
  <1>2. bt'[w] = [bt[w] EXCEPT !.pc = x]
    BY <1>1
  <1>3. Keeps(w) /\ bt'[w].pc = x
    BY <1>1, <1>2, LabelFields
  <1>4. \A v \in Item \ {w} : bt'[v] = bt[v]
    BY <1>1
  <1>5. QED
    BY <1>3, <1>4 DEF Relabels

LEMMA RelabelsOne ==
    ASSUME NEW w, NEW from, NEW to, Relabels({w}, from, to)
    PROVE  Only(w) /\ Keeps(w) /\ bt[w].pc \in from /\ bt'[w].pc \in to
  BY DEF Relabels, Only

LEMMA GroupGoes ==
    ASSUME ShapeInv, NEW g \in Group, NEW label, NEW x, \A l \in Lane : At(<<g, l>>, label),
           bt' = [w \in Item |-> IF w[1] = g THEN [bt[w] EXCEPT !.pc = x] ELSE bt[w]]
    PROVE  phase = "build" /\ Relabels({w \in Item : w[1] = g}, {label}, {x})
  <1> DEFINE U == {w \in Item : w[1] = g}
             go == [w \in Item |-> x]
  <1>1. U \in SUBSET Item
    OBVIOUS
  <1>2. bt' = [w \in Item |-> IF w \in U THEN [bt[w] EXCEPT !.pc = go[w]] ELSE bt[w]]
    OBVIOUS
  <1>3. \A w \in U : \E l \in Lane : w = <<g, l>>
    BY DEF Item
  <1>4. 0 \in Lane
    BY ModeAssumption DEF ShapeInv, Lane
  <1>5. phase = "build" /\ \A w \in U : bt[w].pc \in {label} /\ go[w] \in {x}
    BY <1>3, <1>4 DEF At
  <1> HIDE DEF U, go
  <1>6. Relabels(U, {label}, {x})
    BY <1>1, <1>2, <1>5, LabelsGo
  <1>7. QED
    BY <1>5, <1>6 DEF U

LEMMA GroupStartDoes ==
    ASSUME ShapeInv, NEW g \in Group, GroupStart(g)
    PROVE  /\ phase = "build" /\ TreeKept /\ ts' = ts /\ loc' = loc
           /\ \E x \in {"while", "exit"} :
                /\ x = "exit" <=> ~mode.consistent /\ ts.doneCnt = NBody
                /\ Relabels({w \in Item : w[1] = g}, {"start"}, {x})
  <1> DEFINE x == IF ~mode.consistent /\ ts.doneCnt = NBody THEN "exit" ELSE "while"
  <1>1. bt' = [w \in Item |-> IF w[1] = g THEN [bt[w] EXCEPT !.pc = x] ELSE bt[w]]
    BY DEF GroupStart
  <1>2. \A l \in Lane : At(<<g, l>>, "start")
    BY DEF GroupStart
  <1>3. x \in {"while", "exit"} /\ (x = "exit" <=> ~mode.consistent /\ ts.doneCnt = NBody)
    OBVIOUS
  <1> HIDE DEF x
  <1>4. phase = "build" /\ Relabels({w \in Item : w[1] = g}, {"start"}, {x})
    BY <1>1, <1>2, GroupGoes
  <1>5. TreeKept /\ ts' = ts /\ loc' = loc
    BY DEF GroupStart, keep, host, past, TreeKept
  <1>6. QED
    BY <1>3, <1>4, <1>5

LEMMA BarrierDoes ==
    ASSUME ShapeInv, NEW g \in Group, Barrier(g)
    PROVE  /\ phase = "build" /\ TreeKept /\ ts' = ts /\ loc' = loc
           /\ Relabels({w \in Item : w[1] = g}, {"barrier"}, {"while"})
  <1>1. phase = "build" /\ Relabels({w \in Item : w[1] = g}, {"barrier"}, {"while"})
    BY GroupGoes DEF Barrier
  <1>2. TreeKept /\ ts' = ts /\ loc' = loc
    BY DEF Barrier, keep, host, past, TreeKept
  <1>3. QED
    BY <1>1, <1>2

LEMMA SyncDoes ==
    ASSUME ShapeInv, NEW g \in Group, Sync(g)
    PROVE  /\ phase = "build" /\ TreeKept /\ loc' = loc
           /\ ts'.maxDepth = ts.maxDepth /\ ts'.doneCnt = ts.doneCnt + loc[g].success
           /\ Relabels({w \in Item : w[1] = g}, {"sync"}, {"leave"})
  <1>1. phase = "build" /\ Relabels({w \in Item : w[1] = g}, {"sync"}, {"leave"})
    BY GroupGoes DEF Sync
  <1>2. ts'.maxDepth = ts.maxDepth /\ ts'.doneCnt = ts.doneCnt + loc[g].success /\ ts'.bottom = ts.bottom
    BY DEF Sync, ShapeInv, IsRecord, StatusFields
  <1>3. TreeKept /\ loc' = loc
    BY <1>2 DEF Sync, keep, host, past, TreeKept
  <1>4. QED
    BY <1>1, <1>2, <1>3

\* The items that evaluate the condition of the loop together.
Together(w) == IF mode.lockstep THEN {v \in Item : v[1] = w[1]} ELSE {w}

LEMMA WhileDeadDoes ==
    ASSUME ShapeInv, NEW w \in Item, WhileDead(w)
    PROVE  /\ phase = "build" /\ TreeKept /\ ts' = ts /\ loc' = loc /\ mode.consistent
           /\ Together(w) \in SUBSET Item
           /\ Relabels(Together(w), {"while"}, {"leave", "read", "barrier"})
           /\ \A v \in Together(w) :
                /\ bt'[v].pc = "leave" => loc[v[1]].dead = mode.lanes
                /\ bt'[v].pc = "read" => bt[v].i < Bound(pass)
  <1> DEFINE go == [v \in Item |-> IF loc[v[1]].dead = mode.lanes THEN "leave"
                                   ELSE IF bt[v].i < Bound(pass) THEN "read" ELSE "barrier"]
  <1>1. bt' = [v \in Item |-> IF v \in Together(w) THEN [bt[v] EXCEPT !.pc = go[v]] ELSE bt[v]]
    BY DEF WhileDead, Together
  <1>2. Together(w) \in SUBSET Item
    BY DEF Together
  <1>3. \A v \in Together(w) : bt[v].pc \in {"while"} /\ go[v] \in {"leave", "read", "barrier"}
    BY <1>2 DEF WhileDead, Together, At
  <1>4. \A v \in Item : /\ go[v] = "leave" => loc[v[1]].dead = mode.lanes
                        /\ go[v] = "read" => bt[v].i < Bound(pass)
    OBVIOUS
  <1> HIDE DEF go
  <1>5. Relabels(Together(w), {"while"}, {"leave", "read", "barrier"}) /\ \A v \in Together(w) : bt'[v].pc = go[v]
    <2> DEFINE U == Together(w)
               to == {"leave", "read", "barrier"}
    <2>1. /\ bt' = [v \in Item |-> IF v \in U THEN [bt[v] EXCEPT !.pc = go[v]] ELSE bt[v]]
          /\ U \in SUBSET Item /\ \A v \in U : bt[v].pc \in {"while"} /\ go[v] \in to
      BY <1>1, <1>2, <1>3
    <2> HIDE DEF U, to
    <2>2. Relabels(U, {"while"}, to) /\ \A v \in U : bt'[v].pc = go[v]
      BY <2>1, LabelsGo
    <2>3. QED
      BY <2>2 DEF U, to
  <1>6. phase = "build" /\ TreeKept /\ ts' = ts /\ loc' = loc /\ mode.consistent
    BY DEF WhileDead, At, keep, host, past, TreeKept
  <1>7. QED
    BY <1>2, <1>4, <1>5, <1>6

LEMMA WhileMoreDoes ==
    ASSUME ShapeInv, NEW w \in Item, WhileMore(w)
    PROVE  /\ phase = "build" /\ TreeKept /\ ts' = ts /\ loc' = loc /\ ~mode.consistent
           /\ Relabels({w}, {"while"}, {"read", "sync"})
           /\ bt'[w].pc = "read" => bt[w].i < NBody
  <1> DEFINE x == IF bt[w].i < NBody THEN "read" ELSE "sync"
  <1>1. bt' = [bt EXCEPT ![w].pc = x] /\ bt[w].pc = "while"
    BY DEF WhileMore, At
  <1>2. x \in {"read", "sync"} /\ (x = "read" => bt[w].i < NBody)
    OBVIOUS
  <1> HIDE DEF x
  <1>3. Relabels({w}, {"while"}, {x})
    BY <1>1, LabelGoes
  <1>4. phase = "build" /\ TreeKept /\ ts' = ts /\ loc' = loc /\ ~mode.consistent
    BY DEF WhileMore, At, keep, host, past, TreeKept
  <1>5. QED
    BY <1>2, <1>3, <1>4 DEF Relabels

LEMMA ReadDoes ==
    ASSUME ShapeInv, NEW w \in Item, Read(w)
    PROVE  /\ phase = "build" /\ TreeKept /\ ts' = ts /\ loc' = loc /\ Only(w)
           /\ bt[w].pc = "read" /\ bt'[w].i = bt[w].i /\ bt'[w].maxd = bt[w].maxd
           /\ LET c == child[bt[w].n][bt[w].j]
              IN  \/ /\ isCell(c) /\ bt[w].depth <= MaxDepth
                     /\ bt'[w].pc = "read" /\ bt'[w].n = c /\ bt'[w].depth = bt[w].depth + 1
                     /\ bt'[w].j = Oct(c, bt[w].i)
                  \/ /\ ~(isCell(c) /\ bt[w].depth <= MaxDepth)
                     /\ bt'[w].n = bt[w].n /\ bt'[w].depth = bt[w].depth /\ bt'[w].j = bt[w].j
                     /\ bt'[w].ch = c /\ bt'[w].pc \in {"lock", "skip"}
                     /\ bt'[w].pc = "lock" => c # LOCK /\ c # bt[w].i
  <1> DEFINE c == child[bt[w].n][bt[w].j]
             A == [bt[w] EXCEPT !.n = c, !.depth = @ + 1, !.r = @ \div 2, !.j = Octant(pos[c], pos[bt[w].i])]
             B == [bt[w] EXCEPT !.ch = c, !.pc = IF c # LOCK /\ c # bt[w].i THEN "lock" ELSE "skip"]
  <1>1. IsRecord(bt[w], Registers) /\ bt = [v \in Item |-> bt[v]]
    BY DEF ShapeInv
  <1>2. bt' = [bt EXCEPT ![w] = IF isCell(c) /\ bt[w].depth <= MaxDepth THEN A ELSE B] /\ bt[w].pc = "read"
    BY DEF Read, At
  <1>3. /\ A.i = bt[w].i /\ A.maxd = bt[w].maxd /\ A.pc = bt[w].pc /\ A.n = c
        /\ A.depth = bt[w].depth + 1 /\ A.j = Oct(c, bt[w].i)
    BY <1>1 DEF IsRecord, Registers, Oct
  <1>4. /\ B.i = bt[w].i /\ B.maxd = bt[w].maxd /\ B.n = bt[w].n /\ B.depth = bt[w].depth
        /\ B.j = bt[w].j /\ B.ch = c /\ B.pc = IF c # LOCK /\ c # bt[w].i THEN "lock" ELSE "skip"
    BY <1>1 DEF IsRecord, Registers
  <1>5. phase = "build" /\ TreeKept /\ ts' = ts /\ loc' = loc
    BY DEF Read, At, keep, host, past, TreeKept
  <1> HIDE DEF A, B
  <1>6. bt'[w] = (IF isCell(c) /\ bt[w].depth <= MaxDepth THEN A ELSE B) /\ Only(w)
    BY <1>1, <1>2 DEF Only
  <1>7. QED
    BY <1>2, <1>3, <1>4, <1>5, <1>6

LEMMA TryLockDoes ==
    ASSUME ShapeInv, NEW w \in Item, TryLock(w)
    PROVE  /\ phase = "build" /\ bt[w].pc = "lock" /\ ts' = ts /\ loc' = loc
           /\ UNCHANGED <<mode, pos, loaded, overflowed, phase, pass>>
           /\ \/ TreeKept /\ Relabels({w}, {"lock"}, {"skip"})
              \/ /\ child[bt[w].n][bt[w].j] = bt[w].ch
                 /\ child' = [child EXCEPT ![bt[w].n][bt[w].j] = LOCK] /\ Only(w)
                 /\ bt'[w].i = bt[w].i /\ bt'[w].n = bt[w].n /\ bt'[w].depth = bt[w].depth
                 /\ bt'[w].maxd = bt[w].maxd /\ bt'[w].j = bt[w].j /\ bt'[w].ch = bt[w].ch
                 /\ bt'[w].locked = <<bt[w].n, bt[w].j>> /\ bt'[w].patch = -1
                 /\ bt'[w].pc = IF bt[w].ch = NULL_BODY THEN "insert" ELSE "alloc"
  <1>1. IsRecord(bt[w], Registers) /\ bt = [v \in Item |-> bt[v]]
    BY DEF ShapeInv
  <1>2. /\ phase = "build" /\ bt[w].pc = "lock" /\ ts' = ts /\ loc' = loc
        /\ UNCHANGED <<mode, pos, loaded, overflowed, phase, pass>>
    BY DEF TryLock, At, keep, host, past
  <1>3. CASE child[bt[w].n][bt[w].j] = bt[w].ch
    <2> DEFINE x == IF bt[w].ch = NULL_BODY THEN "insert" ELSE "alloc"
               R == [bt[w] EXCEPT !.locked = <<bt[w].n, bt[w].j>>, !.patch = -1, !.pc = x]
    <2>1. bt' = [bt EXCEPT ![w] = R] /\ child' = [child EXCEPT ![bt[w].n][bt[w].j] = LOCK]
      BY <1>1, <1>3 DEF TryLock
    <2>2. /\ R.i = bt[w].i /\ R.n = bt[w].n /\ R.depth = bt[w].depth
          /\ R.maxd = bt[w].maxd /\ R.j = bt[w].j /\ R.ch = bt[w].ch
          /\ R.locked = <<bt[w].n, bt[w].j>> /\ R.patch = -1 /\ R.pc = x
      BY <1>1 DEF IsRecord, Registers
    <2> HIDE DEF R
    <2>3. bt'[w] = R /\ Only(w)
      BY <1>1, <2>1 DEF Only
    <2>4. QED
      BY <1>2, <1>3, <2>1, <2>2, <2>3
  <1>4. CASE child[bt[w].n][bt[w].j] # bt[w].ch
    <2>1. bt' = [bt EXCEPT ![w].pc = "skip"] /\ child' = child
      BY <1>4 DEF TryLock
    <2>2. Relabels({w}, {"lock"}, {"skip"})
      BY <1>2, <2>1, LabelGoes
    <2>3. QED
      BY <1>2, <2>1, <2>2 DEF TreeKept
  <1>5. QED
    BY <1>3, <1>4

LEMMA FreshFields ==
    ASSUME NEW w, NEW i, NEW m, NEW r, NEW x,
           bt'[w] = Fresh(i, m, r, pos) \/ bt'[w] = [Fresh(i, m, r, pos) EXCEPT !.pc = x]
    PROVE  Begins(w, i, m) /\ bt'[w].pc \in {"start", x}
  BY DEF Fresh, Begins, Oct

LEMMA LoadedDoes ==
    ASSUME ShapeInv, NEW w \in Item, NEW value, Loaded(w, value)
    PROVE  /\ ts' = ts /\ UNCHANGED <<mode, pos, overflowed, phase, pass>> /\ Only(w)
           /\ child' = [child EXCEPT ![bt[w].locked[1]][bt[w].locked[2]] = value]
           /\ loaded' = loaded \cup {bt[w].i}
           /\ Begins(w, bt[w].i + Inc, Larger(bt[w].depth, bt[w].maxd))
           /\ bt'[w].pc = IF mode.consistent THEN "barrier" ELSE "while"
           /\ loc' = IF mode.consistent
                     THEN [loc EXCEPT ![w[1]].dead = @ + (IF bt[w].i + Inc >= Bound(pass) THEN 1 ELSE 0)]
                     ELSE [loc EXCEPT ![w[1]].success = @ + 1]
  <1> DEFINE next == bt[w].i + Inc
             m == Larger(bt[w].depth, bt[w].maxd)
             x == IF mode.consistent THEN "barrier" ELSE "while"
             F == Fresh(next, m, ts.radius, pos)
  <1>1. bt = [v \in Item |-> bt[v]]
    BY DEF ShapeInv
  <1>2. bt' = [bt EXCEPT ![w] = [F EXCEPT !.pc = x]]
    BY DEF Loaded
  <1>3. /\ ts' = ts /\ UNCHANGED <<mode, pos, overflowed, phase, pass>>
        /\ child' = [child EXCEPT ![bt[w].locked[1]][bt[w].locked[2]] = value]
        /\ loaded' = loaded \cup {bt[w].i}
        /\ loc' = IF mode.consistent
                  THEN [loc EXCEPT ![w[1]].dead = @ + (IF bt[w].i + Inc >= Bound(pass) THEN 1 ELSE 0)]
                  ELSE [loc EXCEPT ![w[1]].success = @ + 1]
    BY DEF Loaded, keep, host
  <1> HIDE DEF F
  <1>4. bt'[w] = [F EXCEPT !.pc = x] /\ Only(w)
    BY <1>1, <1>2 DEF Only
  <1>5. [F EXCEPT !.pc = x].pc = x
    BY DEF F, Fresh
  <1> HIDE DEF next, m, x
  <1>6. Begins(w, next, m)
    BY <1>4, FreshFields DEF F
  <1>7. QED
    BY <1>3, <1>4, <1>5, <1>6 DEF next, m, x

LEMMA AllocDoes ==
    ASSUME ShapeInv, NEW w \in Item, Alloc(w)
    PROVE  /\ phase = "build" /\ UNCHANGED <<mode, pos, child, loaded, phase, pass, loc>> /\ Only(w)
           /\ bt[w].pc = "alloc" /\ bt'[w].i = bt[w].i /\ bt'[w].n = bt[w].n
           /\ bt'[w].depth = bt[w].depth + 1 /\ bt'[w].maxd = bt[w].maxd /\ bt'[w].j = bt[w].j
           /\ bt'[w].ch = bt[w].ch /\ bt'[w].locked = bt[w].locked /\ bt'[w].patch = bt[w].patch
           /\ bt'[w].cell = ts.bottom - 1
           /\ bt'[w].pc = IF ts.bottom - 1 <= NBody THEN "overflow" ELSE "fill"
           /\ ts'.bottom = ts.bottom - 1 /\ ts'.maxDepth = ts.maxDepth /\ ts'.doneCnt = ts.doneCnt
           /\ overflowed' <=> overflowed \/ ts.bottom - 1 <= NBody
  <1> DEFINE x == IF ts.bottom - 1 <= NBody THEN "overflow" ELSE "fill"
             R == [bt[w] EXCEPT !.depth = @ + 1, !.cell = ts.bottom - 1, !.pc = x]
  <1>1. IsRecord(bt[w], Registers) /\ bt = [v \in Item |-> bt[v]] /\ IsRecord(ts, StatusFields)
    BY DEF ShapeInv
  <1>2. bt' = [bt EXCEPT ![w] = R]
    BY <1>1 DEF Alloc
  <1>3. /\ R.i = bt[w].i /\ R.n = bt[w].n /\ R.depth = bt[w].depth + 1 /\ R.maxd = bt[w].maxd
        /\ R.j = bt[w].j /\ R.ch = bt[w].ch /\ R.locked = bt[w].locked /\ R.patch = bt[w].patch
        /\ R.cell = ts.bottom - 1 /\ R.pc = x
    BY <1>1 DEF IsRecord, Registers
  <1>4. ts'.bottom = ts.bottom - 1 /\ ts'.maxDepth = ts.maxDepth /\ ts'.doneCnt = ts.doneCnt
    BY <1>1 DEF Alloc, IsRecord, StatusFields
  <1>5. /\ phase = "build" /\ UNCHANGED <<mode, pos, child, loaded, phase, pass, loc>>
        /\ bt[w].pc = "alloc"
    BY DEF Alloc, At, keep, host
  <1>6. overflowed' <=> overflowed \/ ts.bottom - 1 <= NBody
    BY Zenon DEF Alloc
  <1> HIDE DEF R
  <1>7. bt'[w] = R /\ Only(w)
    BY <1>1, <1>2 DEF Only
  <1> HIDE DEF x
  <1>8. /\ bt'[w].i = bt[w].i /\ bt'[w].n = bt[w].n
        /\ bt'[w].depth = bt[w].depth + 1 /\ bt'[w].maxd = bt[w].maxd /\ bt'[w].j = bt[w].j
        /\ bt'[w].ch = bt[w].ch /\ bt'[w].locked = bt[w].locked /\ bt'[w].patch = bt[w].patch
        /\ bt'[w].cell = ts.bottom - 1 /\ bt'[w].pc = x
    BY <1>3, <1>7
  <1>9. QED
    BY <1>4, <1>5, <1>6, <1>7, <1>8, Zenon DEF x

LEMMA OverflowDoes ==
    ASSUME ShapeInv, NEW w \in Item, Overflow(w)
    PROVE  /\ phase = "build" /\ bt[w].pc = "overflow" /\ UNCHANGED <<mode, phase, pass, loc, loaded, overflowed>>
           /\ ts'.maxDepth = ts.maxDepth /\ ts'.doneCnt = ts.doneCnt
           /\ Relabels({w}, {"overflow"}, {"fill"})
  <1>1. phase = "build" /\ bt[w].pc = "overflow" /\ UNCHANGED <<mode, phase, pass, loc, loaded, overflowed>>
    BY DEF Overflow, At, keep, host, past
  <1>2. ts'.maxDepth = ts.maxDepth /\ ts'.doneCnt = ts.doneCnt
    BY DEF Overflow, ShapeInv, IsRecord, StatusFields
  <1>3. Relabels({w}, {"overflow"}, {"fill"})
    BY <1>1, LabelGoes DEF Overflow
  <1>4. QED
    BY <1>1, <1>2, <1>3

LEMMA LinkDoes ==
    ASSUME ShapeInv, NEW w \in Item, Link(w)
    PROVE  /\ phase = "build" /\ UNCHANGED <<mode, pos, loaded, overflowed, phase, pass, loc, ts>>
           /\ child' = [child EXCEPT ![bt[w].n][bt[w].j] = bt[w].i]
           /\ Relabels({w}, {"link"}, {"publish"})
  <1>1. /\ phase = "build" /\ UNCHANGED <<mode, pos, loaded, overflowed, phase, pass, loc, ts>>
        /\ bt[w].pc = "link" /\ child' = [child EXCEPT ![bt[w].n][bt[w].j] = bt[w].i]
    BY DEF Link, At, keep, host, past
  <1>2. Relabels({w}, {"link"}, {"publish"})
    BY <1>1, LabelGoes DEF Link
  <1>3. QED
    BY <1>1, <1>2

LEMMA SkipDoes ==
    ASSUME ShapeInv, NEW w \in Item, Skip(w)
    PROVE  /\ phase = "build" /\ TreeKept /\ ts' = ts /\ loc' = loc /\ Only(w) /\ bt[w].pc = "skip"
           /\ \/ mode.consistent /\ Relabels({w}, {"skip"}, {"barrier"})
              \/ ~mode.consistent /\ Begins(w, bt[w].i + Inc, bt[w].maxd) /\ bt'[w].pc = "while"
  <1>1. bt = [v \in Item |-> bt[v]]
    BY DEF ShapeInv
  <1>2. phase = "build" /\ TreeKept /\ ts' = ts /\ loc' = loc /\ bt[w].pc = "skip"
    BY DEF Skip, At, keep, host, past, TreeKept
  <1>3. CASE mode.consistent
    <2>1. bt' = [bt EXCEPT ![w].pc = "barrier"]
      BY <1>1, <1>3 DEF Skip
    <2>2. Relabels({w}, {"skip"}, {"barrier"})
      BY <1>2, <2>1, LabelGoes
    <2>3. QED
      BY <1>2, <1>3, <2>2 DEF Relabels, Only
  <1>4. CASE ~mode.consistent
    <2> DEFINE next == bt[w].i + Inc
               F == Fresh(next, bt[w].maxd, ts.radius, pos)
    <2>1. bt' = [bt EXCEPT ![w] = [F EXCEPT !.pc = "while"]]
      BY <1>4 DEF Skip
    <2>2. [F EXCEPT !.pc = "while"].pc = "while"
      BY DEF Fresh
    <2> HIDE DEF F
    <2>3. bt'[w] = [F EXCEPT !.pc = "while"] /\ Only(w)
      BY <1>1, <2>1 DEF Only
    <2> HIDE DEF next
    <2>4. Begins(w, next, bt[w].maxd)
      BY <2>3, FreshFields DEF F
    <2>5. QED
      BY <1>2, <1>4, <2>2, <2>3, <2>4 DEF next
  <1>5. QED
    BY <1>3, <1>4

LEMMA LeaveDoes ==
    ASSUME ShapeInv, NEW w \in Item, Leave(w)
    PROVE  /\ phase = "build" /\ TreeKept /\ loc' = loc
           /\ ts'.maxDepth = Larger(ts.maxDepth, bt[w].maxd) /\ ts'.doneCnt = ts.doneCnt
           /\ Relabels({w}, {"leave"}, {"exit"})
  <1>1. /\ ts'.maxDepth = Larger(ts.maxDepth, bt[w].maxd) /\ ts'.doneCnt = ts.doneCnt
        /\ ts'.bottom = ts.bottom
    BY DEF Leave, ShapeInv, IsRecord, StatusFields
  <1>2. phase = "build" /\ TreeKept /\ loc' = loc /\ bt[w].pc = "leave"
    BY <1>1 DEF Leave, At, keep, host, past, TreeKept
  <1>3. Relabels({w}, {"leave"}, {"exit"})
    BY <1>2, LabelGoes DEF Leave
  <1>4. QED
    BY <1>1, <1>2, <1>3

LEMMA FillDoes ==
    ASSUME ShapeInv, NEW w \in Item, Fill(w), pos = [n \in Node |-> pos[n]], bt[w].cell \in Node
    PROVE  LET c  == bt[w].cell
               ji == Octant(pos'[c], pos'[bt[w].i])
               jb == Octant(pos'[c], pos'[bt[w].ch])
           IN  /\ phase = "build" /\ UNCHANGED <<mode, loaded, overflowed, phase, pass, loc, ts>> /\ Only(w)
               /\ bt[w].pc = "fill" /\ \E x : pos' = [pos EXCEPT ![c] = x]
               /\ child' = [(IF Larger(bt[w].patch, c) # c THEN [child EXCEPT ![bt[w].n][bt[w].j] = c]
                                                          ELSE child) EXCEPT ![c][jb] = bt[w].ch]
               /\ bt'[w].i = bt[w].i /\ bt'[w].depth = bt[w].depth /\ bt'[w].maxd = bt[w].maxd
               /\ bt'[w].locked = bt[w].locked /\ bt'[w].cell = c
               /\ bt'[w].patch = Larger(bt[w].patch, c) /\ bt'[w].n = c /\ bt'[w].j = ji
               /\ bt'[w].ch = child'[c][ji]
               /\ bt'[w].pc = IF bt'[w].ch >= 0 /\ bt[w].depth <= MaxDepth THEN "alloc" ELSE "link"
  <1>0. PICK c, i, b, ji, jb :
          /\ c = bt[w].cell /\ i = bt[w].i /\ b = bt[w].ch
          /\ ji = Octant(pos'[c], pos'[i]) /\ jb = Octant(pos'[c], pos'[b])
    OBVIOUS
  <1> DEFINE R == bt[w]
             patch == Larger(R.patch, R.cell)
             r == R.r \div 2
             x == pos[R.n] + (IF pos[R.i] < pos[R.n] THEN -r ELSE r)
             linked == IF patch # R.cell THEN [child EXCEPT ![R.n][R.j] = R.cell] ELSE child
             moved == [pos EXCEPT ![R.cell] = x]
             j == Octant(x, moved[R.i])
             ch == child'[R.cell][j]
             pc == IF ch >= 0 /\ R.depth <= MaxDepth THEN "alloc" ELSE "link"
             S == [R EXCEPT !.patch = patch, !.r = r, !.n = R.cell, !.j = j, !.ch = ch, !.pc = pc]
  <1>1. IsRecord(bt[w], Registers) /\ bt = [v \in Item |-> bt[v]]
    BY DEF ShapeInv
  <1>2. /\ pos' = moved /\ child' = [linked EXCEPT ![R.cell][Octant(x, moved[R.ch])] = R.ch]
        /\ bt' = [bt EXCEPT ![w] = S]
    BY DEF Fill
  <1>3. /\ phase = "build" /\ UNCHANGED <<mode, loaded, overflowed, phase, pass, loc, ts>>
        /\ bt[w].pc = "fill"
    BY DEF Fill, At, keep, host, past
  <1>4. pos'[c] = x /\ j = ji /\ Octant(x, moved[R.ch]) = jb
    BY <1>0, <1>2
  <1> HIDE DEF x, j, ch, pc, moved
  <1>5. /\ S.i = R.i /\ S.depth = R.depth /\ S.maxd = R.maxd /\ S.locked = R.locked /\ S.cell = R.cell
        /\ S.patch = patch /\ S.n = R.cell /\ S.j = j /\ S.ch = ch /\ S.pc = pc
    BY <1>1 DEF IsRecord, Registers
  <1> HIDE DEF S
  <1>6. bt'[w] = S /\ Only(w)
    BY <1>1, <1>2 DEF Only
  <1>7. \E y : pos' = [pos EXCEPT ![c] = y]
    BY <1>0, <1>2 DEF moved
  <1>8. child' = [linked EXCEPT ![c][jb] = b]
    BY <1>0, <1>2, <1>4
  <1>9. /\ bt'[w].i = i /\ bt'[w].depth = bt[w].depth /\ bt'[w].maxd = bt[w].maxd
        /\ bt'[w].locked = bt[w].locked /\ bt'[w].cell = c
        /\ bt'[w].patch = Larger(bt[w].patch, c) /\ bt'[w].n = c /\ bt'[w].j = ji
        /\ bt'[w].ch = child'[c][ji] /\ bt'[w].pc = pc /\ ch = bt'[w].ch
    BY <1>0, <1>4, <1>5, <1>6 DEF ch
  <1>10. bt'[w].pc = IF bt'[w].ch >= 0 /\ bt[w].depth <= MaxDepth THEN "alloc" ELSE "link"
    BY <1>9 DEF pc
  <1>11. QED
    BY <1>0, <1>3, <1>6, <1>7, <1>8, <1>9, <1>10

LEMMA LaunchDoes ==
    ASSUME NEW k, LaunchBuild(k)
    PROVE  \A w \in Item : /\ Begins(w, Gid(w) + (IF mode.consistent THEN Offset(k) ELSE 0), 1)
                           /\ bt'[w].pc = "start"
  <1> SUFFICES ASSUME NEW w \in Item
               PROVE  /\ Begins(w, Gid(w) + (IF mode.consistent THEN Offset(k) ELSE 0), 1)
                      /\ bt'[w].pc = "start"
    OBVIOUS
  <1> DEFINE i == Gid(w) + (IF mode.consistent THEN Offset(k) ELSE 0)
  <1>1. bt'[w] = Fresh(i, 1, ts.radius, pos)
    BY DEF LaunchBuild
  <1> HIDE DEF i
  <1>2. Begins(w, i, 1)
    BY <1>1, FreshFields
  <1>3. bt'[w].pc = "start"
    BY <1>1 DEF Fresh
  <1>4. QED
    BY <1>2, <1>3 DEF i

-----------------------------------------------------------------------------
(* A tree that fits has fitted all the time: what is too deep is counted    *)
(* before the lock is given up, and the counts only grow.                   *)

LEMMA FitStep ==
    ASSUME NumInv, phase = "build", UNCHANGED <<mode, phase>>, NEW U \in SUBSET Item,
           \A v \in Item \ U : bt'[v] = bt[v], overflowed => overflowed',
           ts'.maxDepth \in Nat, ts.maxDepth <= ts'.maxDepth,
           \A v \in U :
             /\ bt'[v].depth \in Nat /\ bt'[v].maxd \in Nat /\ bt'[v].pc # "start"
             /\ bt[v].pc # "exit" => \/ bt'[v].pc # "exit" /\ bt[v].maxd <= bt'[v].maxd
                                     \/ bt[v].maxd <= ts'.maxDepth
             /\ Holds(v) => \/ Holds(v)' /\ bt[v].depth <= bt'[v].depth
                            \/ bt'[v].pc # "exit" /\ bt[v].depth <= bt'[v].maxd
    PROVE  NumInv' /\ (Fit' => Fit)
  <1>1. Item' = Item
    BY SameItems
  <1>2. NumInv'
    BY <1>1 DEF NumInv
  <1>3. ASSUME Fit'
        PROVE  Fit
    <2>1. ~overflowed /\ ts.maxDepth <= MaxDepth
      BY <1>3, DepthAssumption DEF Fit, NumInv
    <2>2. ASSUME NEW v \in Item, bt[v].pc # "exit"
          PROVE  bt[v].maxd <= MaxDepth /\ (Holds(v) => bt[v].depth <= MaxDepth)
      <3>1. /\ bt'[v].pc # "exit" => bt'[v].maxd <= MaxDepth /\ (Holds(v)' => bt'[v].depth <= MaxDepth)
            /\ ts'.maxDepth <= MaxDepth
        BY <1>1, <1>3 DEF Fit
      <3>2. bt[v].maxd \in Nat /\ bt[v].depth \in Nat /\ bt'[v].maxd \in Nat /\ bt'[v].depth \in Nat
        BY <1>1, <1>2 DEF NumInv
      <3>3. Holds(v)' => bt'[v].pc # "exit"
        BY DEF Holds, Holding, Chaining
      <3>4. CASE v \in U
        BY <2>2, <3>1, <3>2, <3>3, <3>4, DepthAssumption
      <3>5. CASE v \notin U
        BY <2>2, <3>1, <3>5 DEF Holds
      <3>6. QED
        BY <3>4, <3>5
    <2>3. QED
      BY <2>1, <2>2 DEF Fit
  <1>4. QED
    BY <1>2, <1>3

LEMMA FitOne ==
    ASSUME NumInv, phase = "build", UNCHANGED <<mode, phase>>, NEW w \in Item, Only(w),
           overflowed => overflowed', ts'.maxDepth \in Nat, ts.maxDepth <= ts'.maxDepth,
           bt'[w].depth \in Nat, bt'[w].maxd \in Nat, bt'[w].pc \notin {"start", "exit"},
           bt[w].maxd <= bt'[w].maxd,
           Holds(w) => \/ Holds(w)' /\ bt[w].depth <= bt'[w].depth
                       \/ bt[w].depth <= bt'[w].maxd
    PROVE  NumInv' /\ (Fit' => Fit)
  <1> DEFINE U == {w}
  <1>1. U \in SUBSET Item /\ \A v \in Item \ U : bt'[v] = bt[v]
    BY DEF Only
  <1>2. \A v \in U :
             /\ bt'[v].depth \in Nat /\ bt'[v].maxd \in Nat /\ bt'[v].pc # "start"
             /\ bt[v].pc # "exit" => \/ bt'[v].pc # "exit" /\ bt[v].maxd <= bt'[v].maxd
                                     \/ bt[v].maxd <= ts'.maxDepth
             /\ Holds(v) => \/ Holds(v)' /\ bt[v].depth <= bt'[v].depth
                            \/ bt'[v].pc # "exit" /\ bt[v].depth <= bt'[v].maxd
    OBVIOUS
  <1> HIDE DEF U
  <1>3. QED
    BY <1>1, <1>2, FitStep

LEMMA RelabelFit ==
    ASSUME NumInv, phase = "build", UNCHANGED <<mode, phase>>, overflowed' = overflowed,
           NEW U \in SUBSET Item, NEW from, NEW to, Relabels(U, from, to),
           ts'.maxDepth \in Nat, ts.maxDepth <= ts'.maxDepth,
           from \cap Holding = {} \/ to \subseteq Holding, "start" \notin to,
           \A v \in U : bt'[v].pc = "exit" => bt[v].maxd <= ts'.maxDepth
    PROVE  NumInv' /\ (Fit' => Fit)
  <1>1. \A v \in U : /\ bt'[v].depth = bt[v].depth /\ bt'[v].maxd = bt[v].maxd
                     /\ bt[v].depth \in Nat /\ bt[v].maxd \in Nat
                     /\ bt[v].pc \in from /\ bt'[v].pc \in to
    BY DEF Relabels, Keeps, NumInv
  <1>2. \A v \in U : Holds(v) => Holds(v)'
    BY <1>1 DEF Holds
  <1>3. (\A v \in Item \ U : bt'[v] = bt[v]) /\ (overflowed => overflowed')
    BY DEF Relabels
  <1>4. QED
    BY <1>1, <1>2, <1>3, FitStep

LEMMA FillKeeps ==
    ASSUME ShapeInv, NEW w \in Item, Fill(w)
    PROVE  /\ phase = "build" /\ UNCHANGED <<mode, phase, pass, loc, loaded, overflowed, ts>> /\ Only(w)
           /\ bt[w].pc = "fill" /\ bt'[w].i = bt[w].i
           /\ bt'[w].depth = bt[w].depth /\ bt'[w].maxd = bt[w].maxd /\ bt'[w].pc \in {"alloc", "link"}
  <1>1. IsRecord(bt[w], Registers) /\ bt = [v \in Item |-> bt[v]]
    BY DEF ShapeInv
  <1> DEFINE R == bt[w]
             patch == Larger(R.patch, R.cell)
             r == R.r \div 2
             x == pos[R.n] + (IF pos[R.i] < pos[R.n] THEN -r ELSE r)
             moved == [pos EXCEPT ![R.cell] = x]
             j == Octant(x, moved[R.i])
             ch == child'[R.cell][j]
             pc == IF ch >= 0 /\ R.depth <= MaxDepth THEN "alloc" ELSE "link"
             S == [R EXCEPT !.patch = patch, !.r = r, !.n = R.cell, !.j = j, !.ch = ch, !.pc = pc]
  <1>2. bt' = [bt EXCEPT ![w] = S] /\ pc \in {"alloc", "link"}
    BY DEF Fill
  <1> HIDE DEF patch, r, x, j, ch, pc, moved
  <1>3. S.i = bt[w].i /\ S.depth = bt[w].depth /\ S.maxd = bt[w].maxd /\ S.pc = pc
    BY <1>1 DEF IsRecord, Registers
  <1> HIDE DEF S
  <1>4. bt'[w] = S /\ Only(w)
    BY <1>1, <1>2 DEF Only
  <1>5. phase = "build" /\ bt[w].pc = "fill" /\ UNCHANGED <<mode, phase, pass, loc, loaded, overflowed, ts>>
    BY DEF Fill, At, keep, host, past
  <1>6. QED
    BY <1>2, <1>3, <1>4, <1>5

LEMMA BuildItemFit ==
    ASSUME ShapeInv, NumInv, NEW w \in Item, BuildItem(w)
    PROVE  NumInv' /\ (Fit' => Fit)
  <1>1. ts.maxDepth \in Nat /\ bt[w].depth \in Nat /\ bt[w].maxd \in Nat /\ {w} \in SUBSET Item
    BY DEF NumInv
  <1>2. Only(w) => \A v \in Item \ {w} : bt'[v] = bt[v]
    BY DEF Only
  <1>3. CASE WhileDead(w)
    <2>1. /\ phase = "build" /\ TreeKept /\ ts' = ts /\ Together(w) \in SUBSET Item
          /\ Relabels(Together(w), {"while"}, {"leave", "read", "barrier"})
      BY <1>3, WhileDeadDoes
    <2>2. \A v \in Together(w) : bt'[v].pc # "exit"
      BY <2>1 DEF Relabels
    <2> DEFINE U == Together(w)
    <2>3. {"while"} \cap Holding = {}
      BY DEF Holding, Chaining
    <2> HIDE DEF U
    <2>4. U \in SUBSET Item /\ Relabels(U, {"while"}, {"leave", "read", "barrier"}) /\ \A v \in U : bt'[v].pc # "exit"
      BY <2>1, <2>2 DEF U
    <2>5. QED
      BY <1>1, <2>1, <2>3, <2>4, RelabelFit DEF TreeKept
  <1>4. CASE WhileMore(w)
    <2>1. phase = "build" /\ TreeKept /\ ts' = ts /\ Relabels({w}, {"while"}, {"read", "sync"})
      BY <1>4, WhileMoreDoes
    <2>2. {"while"} \cap Holding = {} /\ bt'[w].pc # "exit"
      BY <2>1 DEF Holding, Chaining, Relabels
    <2>3. QED
      BY <1>1, <2>1, <2>2, RelabelFit DEF TreeKept
  <1>5. CASE Read(w)
    <2>1. phase = "build" /\ TreeKept /\ ts' = ts /\ Only(w) /\ bt[w].pc = "read" /\ bt'[w].maxd = bt[w].maxd
      BY <1>5, ReadDoes
    <2>2. bt'[w].depth \in {bt[w].depth, bt[w].depth + 1} /\ bt'[w].pc \in {"read", "lock", "skip"}
      BY <1>5, ReadDoes
    <2>3. ~Holds(w)
      BY <2>1 DEF Holds, Holding, Chaining
    <2>4. QED
      BY <1>1, <2>1, <2>2, <2>3, FitOne DEF TreeKept
  <1>6. CASE TryLock(w)
    <2>1. phase = "build" /\ bt[w].pc = "lock" /\ ts' = ts /\ UNCHANGED <<mode, overflowed, phase>>
      BY <1>6, TryLockDoes
    <2>2. /\ Only(w)
          /\ bt'[w].depth = bt[w].depth /\ bt'[w].maxd = bt[w].maxd /\ bt'[w].pc \in {"skip", "insert", "alloc"}
      <3>1. CASE Relabels({w}, {"lock"}, {"skip"})
        BY <3>1, RelabelsOne DEF Keeps
      <3>2. CASE ~Relabels({w}, {"lock"}, {"skip"})
        BY <1>6, <3>2, TryLockDoes
      <3>3. QED
        BY <3>1, <3>2
    <2>3. ~Holds(w)
      BY <2>1 DEF Holds, Holding, Chaining
    <2>4. QED
      BY <1>1, <2>1, <2>2, <2>3, FitOne
  <1>7. ASSUME NEW value, Loaded(w, value), phase = "build"
        PROVE  NumInv' /\ (Fit' => Fit)
    <2>1. ts' = ts /\ UNCHANGED <<mode, overflowed, phase>> /\ Only(w)
      BY <1>7, LoadedDoes
    <2>2. /\ bt'[w].depth = 1 /\ bt'[w].maxd = Larger(bt[w].depth, bt[w].maxd)
          /\ bt'[w].pc \in {"barrier", "while"}
      BY <1>7, LoadedDoes DEF Begins
    <2>3. bt'[w].maxd \in Nat /\ bt[w].depth <= bt'[w].maxd /\ bt[w].maxd <= bt'[w].maxd
      BY <1>1, <2>2 DEF Larger
    <2>4. QED
      BY <1>1, <1>7, <2>1, <2>2, <2>3, FitOne
  <1>8. CASE Insert(w) \/ Publish(w)
    BY <1>7, <1>8 DEF Insert, Publish, At
  <1>9. CASE Alloc(w)
    <2>1. /\ phase = "build" /\ UNCHANGED <<mode, phase>> /\ Only(w) /\ bt[w].pc = "alloc"
          /\ bt'[w].depth = bt[w].depth + 1 /\ bt'[w].maxd = bt[w].maxd
          /\ bt'[w].pc = IF ts.bottom - 1 <= NBody THEN "overflow" ELSE "fill"
          /\ ts'.maxDepth = ts.maxDepth /\ (overflowed' <=> overflowed \/ ts.bottom - 1 <= NBody)
      BY <1>9, AllocDoes
    <2>2. CASE ts.bottom - 1 <= NBody
      <3>1. Item' = Item
        BY <2>1, SameItems
      <3>2. NumInv'
        BY <1>1, <1>2, <2>1, <3>1 DEF NumInv
      <3>3. ~Fit'
        BY <2>1, <2>2 DEF Fit
      <3>4. QED
        BY <3>2, <3>3
    <2>3. CASE ~(ts.bottom - 1 <= NBody)
      <3>1. Holds(w)' /\ bt'[w].pc # "exit"
        BY <2>1, <2>3 DEF Holds, Holding, Chaining
      <3>2. QED
        BY <1>1, <2>1, <3>1, FitOne
    <2>4. QED
      BY <2>2, <2>3
  <1>10. CASE Overflow(w)
    <2>1. /\ phase = "build" /\ UNCHANGED <<mode, phase, overflowed>> /\ ts'.maxDepth = ts.maxDepth
          /\ Relabels({w}, {"overflow"}, {"fill"})
      BY <1>10, OverflowDoes
    <2>2. {"fill"} \subseteq Holding /\ bt'[w].pc # "exit"
      BY <2>1 DEF Holding, Chaining, Relabels
    <2>3. QED
      BY <1>1, <2>1, <2>2, RelabelFit
  <1>11. CASE Fill(w)
    <2>1. /\ phase = "build" /\ UNCHANGED <<mode, phase, overflowed, ts>> /\ Only(w)
          /\ bt'[w].depth = bt[w].depth /\ bt'[w].maxd = bt[w].maxd /\ bt'[w].pc \in {"alloc", "link"}
      BY <1>11, FillKeeps
    <2>2. Holds(w)'
      BY <2>1 DEF Holds, Holding, Chaining
    <2>3. QED
      BY <1>1, <2>1, <2>2, FitOne
  <1>12. CASE Link(w)
    <2>1. phase = "build" /\ UNCHANGED <<mode, phase, overflowed, ts>> /\ Relabels({w}, {"link"}, {"publish"})
      BY <1>12, LinkDoes
    <2>2. {"publish"} \subseteq Holding /\ bt'[w].pc # "exit"
      BY <2>1 DEF Holding, Chaining, Relabels
    <2>3. QED
      BY <1>1, <2>1, <2>2, RelabelFit
  <1>13. CASE Skip(w)
    <2>1. phase = "build" /\ TreeKept /\ ts' = ts /\ Only(w) /\ bt[w].pc = "skip"
      BY <1>13, SkipDoes
    <2>2. bt'[w].depth \in Nat /\ bt'[w].maxd = bt[w].maxd /\ bt'[w].pc \in {"barrier", "while"}
      BY <1>1, <1>13, SkipDoes DEF Relabels, Keeps, Begins
    <2>3. ~Holds(w)
      BY <2>1 DEF Holds, Holding, Chaining
    <2>4. QED
      BY <1>1, <2>1, <2>2, <2>3, FitOne DEF TreeKept
  <1>14. CASE Leave(w)
    <2>1. /\ phase = "build" /\ TreeKept /\ ts'.maxDepth = Larger(ts.maxDepth, bt[w].maxd)
          /\ Relabels({w}, {"leave"}, {"exit"})
      BY <1>14, LeaveDoes
    <2>2. {"leave"} \cap Holding = {}
      BY DEF Holding, Chaining
    <2>3. ts'.maxDepth \in Nat /\ ts.maxDepth <= ts'.maxDepth /\ bt[w].maxd <= ts'.maxDepth
      BY <1>1, <2>1 DEF Larger
    <2>4. QED
      BY <1>1, <2>1, <2>2, <2>3, RelabelFit DEF TreeKept
  <1>15. QED
    BY <1>3, <1>4, <1>5, <1>6, <1>8, <1>9, <1>10, <1>11, <1>12, <1>13, <1>14 DEF BuildItem

LEMMA BuildGroupFit ==
    ASSUME ShapeInv, NumInv, NEW g \in Group, GroupStart(g) \/ Barrier(g) \/ Sync(g)
    PROVE  NumInv' /\ (Fit' => Fit)
  <1> DEFINE U == {w \in Item : w[1] = g}
  <1>1. U \in SUBSET Item /\ ts.maxDepth \in Nat
    BY DEF NumInv
  <1>2. {"start"} \cap Holding = {} /\ {"barrier"} \cap Holding = {} /\ {"sync"} \cap Holding = {}
    BY DEF Holding, Chaining
  <1>3. CASE GroupStart(g)
    <2>1. PICK x \in {"while", "exit"} :
               phase = "build" /\ TreeKept /\ ts' = ts /\ Relabels(U, {"start"}, {x})
      BY <1>3, GroupStartDoes
    <2> HIDE DEF U
    <2>2. CASE x = "while"
      <3>1. \A v \in U : bt'[v].pc # "exit"
        BY <2>1, <2>2 DEF Relabels
      <3>2. QED
        BY <1>1, <1>2, <2>1, <3>1, RelabelFit DEF TreeKept
    <2>3. CASE x = "exit"
      <3>1. Item' = Item
        BY <2>1, SameItems DEF TreeKept
      <3>2. NumInv'
        BY <2>1, <3>1 DEF NumInv, Relabels, Keeps
      <3>3. ASSUME Fit'
            PROVE  Fit
        <4>1. \A v \in Item \ U : /\ bt'[v] = bt[v] /\ (Holds(v)' <=> Holds(v))
          BY <2>1 DEF Relabels, Holds
        <4>2. \A v \in U : ~Holds(v)
          BY <1>2, <2>1 DEF Relabels, Holds
        <4>3. ~overflowed /\ ts.maxDepth <= MaxDepth
          BY <2>1, <3>3 DEF Fit, TreeKept
        <4>4. \A v \in U : bt[v].maxd <= MaxDepth
          BY <1>1, <2>1, DepthAssumption DEF Relabels, NumInv
        <4>5. \A v \in Item : bt'[v].pc # "exit" => bt'[v].maxd <= MaxDepth /\ (Holds(v)' => bt'[v].depth <= MaxDepth)
          BY <2>1, <3>1, <3>3 DEF Fit, TreeKept
        <4>6. \A v \in Item : bt[v].pc # "exit" => bt[v].maxd <= MaxDepth /\ (Holds(v) => bt[v].depth <= MaxDepth)
          BY <4>1, <4>2, <4>4, <4>5
        <4>7. QED
          BY <4>3, <4>6 DEF Fit
      <3>4. QED
        BY <3>2, <3>3
    <2>4. QED
      BY <2>1, <2>2, <2>3
  <1>4. CASE Barrier(g)
    <2>1. phase = "build" /\ TreeKept /\ ts' = ts /\ Relabels(U, {"barrier"}, {"while"})
      BY <1>4, BarrierDoes
    <2> HIDE DEF U
    <2>2. \A v \in U : bt'[v].pc # "exit"
      BY <2>1 DEF Relabels
    <2>3. QED
      BY <1>1, <1>2, <2>1, <2>2, RelabelFit DEF TreeKept
  <1>5. CASE Sync(g)
    <2>1. phase = "build" /\ TreeKept /\ ts'.maxDepth = ts.maxDepth /\ Relabels(U, {"sync"}, {"leave"})
      BY <1>5, SyncDoes
    <2> HIDE DEF U
    <2>2. \A v \in U : bt'[v].pc # "exit"
      BY <2>1 DEF Relabels
    <2>3. QED
      BY <1>1, <1>2, <2>1, <2>2, RelabelFit DEF TreeKept
  <1>6. QED
    BY <1>3, <1>4, <1>5

LEMMA FitElsewhere ==
    ASSUME NumInv, phase # "build" \/ BuildEnded, UNCHANGED <<mode, overflowed>>, ts'.maxDepth = ts.maxDepth,
           UNCHANGED bt \/ \A w \in Item : bt'[w].depth = 1 /\ bt'[w].maxd = 1
    PROVE  NumInv' /\ (Fit' => Fit)
  <1>1. Item' = Item
    BY SameItems
  <1>2. NumInv'
    BY <1>1 DEF NumInv
  <1>3. Fit' => Fit
    BY DEF Fit, BuildEnded
  <1>4. QED
    BY <1>2, <1>3

LEMMA NextFit == ShapeInv /\ NumInv /\ [Next]_vars => NumInv' /\ (Fit' => Fit)
  <1> SUFFICES ASSUME ShapeInv, NumInv, [Next]_vars
               PROVE  NumInv' /\ (Fit' => Fit)
    OBVIOUS
  <1>1. ASSUME NEW w \in Item, ItemStep(w)
        PROVE  NumInv' /\ (Fit' => Fit)
    <2>1. w[1] \in Group
      BY DEF Item
    <2>2. CASE BuildItem(w)
      BY <2>2, BuildItemFit
    <2>3. CASE GroupStart(w[1]) \/ Barrier(w[1]) \/ Sync(w[1])
      BY <2>1, <2>3, BuildGroupFit
    <2>4. CASE BoxReduce(w[1]) \/ BoxCount(w[1])
      <3>1. phase # "build" /\ UNCHANGED <<mode, overflowed, bt>>
        BY <2>4 DEF BoxReduce, BoxCount, past
      <3>2. ts'.maxDepth = ts.maxDepth
        BY <2>4 DEF BoxReduce, BoxCount, ShapeInv, IsRecord, StatusFields
      <3>3. QED
        BY <3>1, <3>2, FitElsewhere
    <2>5. CASE SumItem(w) \/ SortCell(w)
      <3>1. phase # "build" /\ UNCHANGED <<mode, overflowed, bt>>
        BY <2>5 DEF SumItem, Scan, Poll, Store, SetReady, NextCell, SortCell, AtSum, past
      <3>2. UNCHANGED ts \/ ts' = [ts EXCEPT !.errorCode = "structure"]
        BY <2>5 DEF SumItem, Scan, Poll, Store, SetReady, NextCell, SortCell
      <3>3. ts'.maxDepth = ts.maxDepth
        BY <3>2 DEF ShapeInv, IsRecord, StatusFields
      <3>4. QED
        BY <3>1, <3>3, FitElsewhere
    <2>6. CASE \E u : Visit(u) \/ Save(u)
      <3>1. phase # "build" /\ UNCHANGED <<mode, overflowed, bt>>
        BY <2>6 DEF Visit, Save, AtForce, past
      <3>2. UNCHANGED ts \/ ts' = [ts EXCEPT !.errorCode = "incest"]
        BY <2>6 DEF Visit, Save
      <3>3. ts'.maxDepth = ts.maxDepth
        BY <3>2 DEF ShapeInv, IsRecord, StatusFields
      <3>4. QED
        BY <3>1, <3>3, FitElsewhere
    <2>7. QED
      BY <1>1, <2>2, <2>3, <2>4, <2>5, <2>6 DEF ItemStep, BuildGroup
  <1>2. CASE BuildHost
    <2>1. (phase # "build" \/ BuildEnded) /\ UNCHANGED <<mode, overflowed, ts>>
      BY <1>2 DEF BuildHost, buildTreeClear, NextChunk, Repeat, past
    <2>2. (\E k : LaunchBuild(k)) \/ UNCHANGED bt
      BY <1>2 DEF BuildHost, buildTreeClear, NextChunk, Repeat
    <2>3. UNCHANGED bt \/ \A w \in Item : bt'[w].depth = 1 /\ bt'[w].maxd = 1
      BY <2>2, LaunchDoes DEF Begins
    <2>4. QED
      BY <2>1, <2>3, FitElsewhere
  <1>3. CASE SumHost \/ ForceHost
    <2>1. phase # "build" /\ UNCHANGED <<mode, overflowed, bt>>
      BY <1>3 DEF SumHost, summarizationClear, SumAgain, SortAgain, QuadAgain, ForceHost, BeginForce,
                  ForceAgain, past
    <2>2. UNCHANGED ts \/ ts' = [ts EXCEPT !.errorCode = "depth"]
      BY <1>3 DEF SumHost, summarizationClear, SumAgain, SortAgain, QuadAgain, ForceHost, BeginForce,
                  ForceAgain
    <2>3. ts'.maxDepth = ts.maxDepth
      BY <2>2 DEF ShapeInv, IsRecord, StatusFields
    <2>4. QED
      BY <2>1, <2>3, FitElsewhere
  <1>4. CASE integration
    <2>1. phase # "build" /\ UNCHANGED <<mode, overflowed, ts>>
      BY <1>4 DEF integration, past
    <2>2. \A w \in Item : bt'[w] = Fresh(0, 1, 0, [n \in Node |-> 0])
      BY <1>4 DEF integration, Idle
    <2>3. \A w \in Item : bt'[w].depth = 1 /\ bt'[w].maxd = 1
      BY <2>2 DEF Fresh
    <2>4. QED
      BY <2>1, <2>3, FitElsewhere
  <1>5. CASE UNCHANGED vars
    <2>1. UNCHANGED <<mode, ts, bt, phase, overflowed>>
      BY <1>5 DEF vars, host, work, past
    <2>2. Item' = Item
      BY <2>1, SameItems
    <2>3. QED
      BY <2>1, <2>2 DEF NumInv, Fit, Holds
  <1>6. QED
    BY <1>1, <1>2, <1>3, <1>4, <1>5 DEF Next, HostStep

LEMMA InitNum == Init => NumInv
  <1> SUFFICES ASSUME Init
               PROVE  NumInv
    OBVIOUS
  <1>1. \A w \in Item : bt[w] = Fresh(0, 1, 0, [n \in Node |-> 0])
    BY DEF Init, Idle
  <1>2. \A w \in Item : bt[w].depth = 1 /\ bt[w].maxd = 1
    BY <1>1 DEF Fresh
  <1>3. QED
    BY <1>2 DEF Init, NumInv

-----------------------------------------------------------------------------
(* The walks.                                                               *)

LEMMA CellFacts ==
    ASSUME MemoryInv
    PROVE  /\ NNode \in Cells /\ \A c \in Cells : c \in Node /\ c \in Nat /\ isCell(c) /\ c <= NNode
           /\ \A c \in Node : isCell(c) => c \in Cells \/ c < ts.bottom
           /\ \A m \in Cells, s \in Sub : child[m][s] \in Node \cup {NULL_BODY, LOCK}
           /\ ts.bottom \in Nat
  BY NodeAssumption DEF MemoryInv, Cells, Node, isCell

LEMMA IncNat ==
    ASSUME ShapeInv
    PROVE  Inc \in Nat /\ Inc >= 1 /\ mode.groups \in Nat /\ mode.groups >= 1 /\ mode.lanes \in Nat /\ mode.lanes >= 1
  <1>1. mode.groups \in Nat \ {0} /\ mode.lanes \in Nat \ {0}
    BY ModeAssumption DEF ShapeInv
  <1>2. QED
    BY <1>1 DEF Inc

LEMMA BeginsWalks ==
    ASSUME NEW w, NEW i \in Nat, NEW m, Begins(w, i, m), UNCHANGED pos, ts'.bottom = ts.bottom,
           MemoryInv, NEW lv, NEW reg, NEW own, lv[NNode] = 1, reg[NNode] = Body, own[NNode] = NoItem,
           bt'[w].pc \in {"start", "while", "barrier"}
    PROVE  ~Holds(w)' /\ Walks(w, lv, reg, own)'
  <1>1. ~Holds(w)' /\ bt'[w].pc \in Labels
    BY DEF Holds, Holding, Chaining, Labels
  <1>2. Cells' = Cells /\ NNode \in Cells /\ \A a, b : Oct(a, b)' = Oct(a, b)
    BY CellFacts, OctKept DEF Cells
  <1>3. bt'[w].j \in Sub
    BY OctRange DEF Begins, Sub
  <1>4. QED
    BY <1>1, <1>2, <1>3 DEF Walks, Begins

LEMMA PassNext == pass \in Nat /\ [Next]_vars => pass' \in Nat
  <1> SUFFICES ASSUME pass \in Nat, [Next]_vars
               PROVE  pass' \in Nat
    OBVIOUS
  <1>1. ASSUME NEW w \in Item, ItemStep(w)
        PROVE  pass' = pass
    <2>1. CASE BuildItem(w)
      BY <2>1 DEF BuildItem, WhileDead, WhileMore, Read, TryLock, Insert, Alloc, Overflow, Fill, Link,
                  Publish, Skip, Leave, Loaded, keep, host
    <2>2. CASE SumItem(w) \/ SortCell(w)
      BY <2>2 DEF SumItem, Scan, Poll, Store, SetReady, NextCell, SortCell, host
    <2>3. CASE BuildGroup(w[1])
      BY <2>3 DEF BuildGroup, BoxReduce, BoxCount, GroupStart, Barrier, Sync, keep, host
    <2>4. CASE \E u : Visit(u) \/ Save(u)
      BY <2>4 DEF Visit, Save, host
    <2>5. QED
      BY <1>1, <2>1, <2>2, <2>3, <2>4 DEF ItemStep
  <1>2. CASE HostStep
    BY <1>2 DEF HostStep, BuildHost, buildTreeClear, NextChunk, Repeat, SumHost, summarizationClear,
                SumAgain, SortAgain, QuadAgain, ForceHost, BeginForce, ForceAgain, integration
  <1>3. CASE UNCHANGED vars
    BY <1>3 DEF vars, host
  <1>4. QED
    BY <1>1, <1>2, <1>3 DEF Next

LEMMA BoundRange ==
    ASSUME ShapeInv, NEW k \in Nat
    PROVE  Bound(k) \in Nat /\ Bound(k) <= NBody
  <1>1. (k + 1) * Inc \in Nat /\ NBody \in Nat
    BY IncNat, NodeAssumption
  <1>2. QED
    BY <1>1 DEF Bound

LEMMA RelabelOne ==
    ASSUME NumInv, NumInv', NEW up, NEW lv, NEW reg, NEW own, TreeInv(up, lv, reg, own), NEW w \in Item,
           TreeKept, ts.maxDepth <= ts'.maxDepth, Only(w), Keeps(w), ~Holds(w),
           bt'[w].pc \in {"while", "read", "skip", "barrier", "sync", "leave", "exit"},
           bt'[w].pc \in {"read", "skip"} => bt[w].i \in Body,
           bt'[w].pc = "exit" => bt[w].maxd <= ts'.maxDepth
    PROVE  TreeInv(up, lv, reg, own)'
  <1> DEFINE U == {w}
  <1>1. U \in SUBSET Item /\ \A v \in Item \ U : bt'[v] = bt[v]
    BY DEF Only
  <1>2. \A v \in U : /\ Keeps(v) /\ ~Holds(v)
                     /\ bt'[v].pc \in {"while", "read", "skip", "barrier", "sync", "leave", "exit"}
                     /\ bt'[v].pc \in {"read", "skip"} => bt[v].i \in Body
                     /\ bt'[v].pc = "exit" => bt[v].maxd <= ts'.maxDepth
    OBVIOUS
  <1> HIDE DEF U
  <1>3. QED
    BY <1>1, <1>2, RelabelStep DEF TreeKept

LEMMA WalkActions ==
    ASSUME ShapeInv, NumInv, NumInv', pass \in Nat, NEW up, NEW lv, NEW reg, NEW own, TreeInv(up, lv, reg, own),
           NEW w \in Item, WhileDead(w) \/ WhileMore(w) \/ Skip(w) \/ Leave(w)
    PROVE  TreeInv(up, lv, reg, own)'
  <1>1. Walks(w, lv, reg, own) /\ {w} \in SUBSET Item
    BY DEF TreeInv, ItemInv
  <1>2. ts.maxDepth \in Nat
    BY DEF NumInv
  <1>3. CASE WhileDead(w)
    <2> DEFINE U == Together(w)
    <2>1. /\ TreeKept /\ ts' = ts /\ U \in SUBSET Item
          /\ Relabels(U, {"while"}, {"leave", "read", "barrier"})
          /\ \A v \in U : bt'[v].pc = "read" => bt[v].i < Bound(pass)
      BY <1>3, WhileDeadDoes
    <2> HIDE DEF U
    <2>2. \A i \in Nat : i < Bound(pass) => i \in Body
      BY NodeAssumption, BoundRange DEF Body
    <2>3. \A v \in U : /\ Keeps(v) /\ ~Holds(v) /\ bt'[v].pc \in {"leave", "read", "barrier"}
                       /\ bt'[v].pc = "read" => bt[v].i \in Body
      BY <2>1, <2>2 DEF Relabels, Holds, Holding, Chaining, TreeInv, ItemInv, Walks
    <2>4. QED
      BY <1>2, <2>1, <2>3, RelabelStep DEF TreeKept, Relabels
  <1>4. CASE WhileMore(w)
    <2>1. /\ TreeKept /\ ts' = ts /\ Relabels({w}, {"while"}, {"read", "sync"})
          /\ bt'[w].pc = "read" => bt[w].i < NBody
      BY <1>4, WhileMoreDoes
    <2>2. /\ Only(w) /\ Keeps(w) /\ ~Holds(w) /\ bt'[w].pc \in {"read", "sync"}
          /\ bt'[w].pc = "read" => bt[w].i \in Body
      BY <1>1, <2>1, NodeAssumption DEF Relabels, Only, Holds, Holding, Chaining, Walks, Body
    <2>3. QED
      BY <1>2, <2>1, <2>2, RelabelOne
  <1>5. CASE Leave(w)
    <2>1. /\ TreeKept /\ ts'.maxDepth = Larger(ts.maxDepth, bt[w].maxd)
          /\ Relabels({w}, {"leave"}, {"exit"})
      BY <1>5, LeaveDoes
    <2>2. Only(w) /\ Keeps(w) /\ ~Holds(w) /\ bt'[w].pc = "exit"
      BY <2>1 DEF Relabels, Only, Holds, Holding, Chaining
    <2>3. ts.maxDepth <= ts'.maxDepth /\ bt[w].maxd <= ts'.maxDepth
      BY <1>2, <2>1 DEF Larger, NumInv
    <2>4. QED
      BY <2>1, <2>2, <2>3, RelabelOne
  <1>6. CASE Skip(w)
    <2>1. TreeKept /\ ts' = ts /\ Only(w) /\ bt[w].pc = "skip"
      BY <1>6, SkipDoes
    <2>2. CASE Relabels({w}, {"skip"}, {"barrier"})
      <3>1. Keeps(w) /\ ~Holds(w) /\ bt'[w].pc = "barrier"
        BY <2>2 DEF Relabels, Holds, Holding, Chaining
      <3>2. QED
        BY <1>2, <2>1, <3>1, RelabelOne
    <2>3. CASE Begins(w, bt[w].i + Inc, bt[w].maxd) /\ bt'[w].pc = "while"
      <3> DEFINE i == bt[w].i + Inc
      <3>1. i \in Nat /\ Begins(w, i, bt[w].maxd)
        BY <1>1, <2>3, IncNat DEF Walks
      <3> HIDE DEF i
      <3>2. lv[NNode] = 1 /\ reg[NNode] = Body /\ own[NNode] = NoItem /\ MemoryInv
        BY DEF TreeInv, CellInv, LinkInv
      <3>3. ~Holds(w) /\ ~Holds(w)' /\ Walks(w, lv, reg, own)'
        BY <2>1, <2>3, <3>1, <3>2, BeginsWalks DEF TreeKept, Holds, Holding, Chaining
      <3>4. CoverInv(lv, own)'
        <4>1. CoverInv(lv, own) /\ lv \in [Node -> Nat]
          BY DEF TreeInv, CellInv
        <4>2. bt'[w].pc # "exit" /\ bt[w].maxd <= bt'[w].maxd /\ ts.maxDepth <= ts'.maxDepth
          BY <2>1, <2>3 DEF Begins, NumInv
        <4>3. \A v \in Item \ {w} : bt'[v] = bt[v]
          BY <2>1 DEF Only
        <4>4. QED
          BY <1>1, <2>1, <3>2, <4>1, <4>2, <4>3, CoverStep DEF TreeKept
      <3>5. \A v \in Item \ {w} : bt'[v] = bt[v]
        BY <2>1 DEF Only
      <3>6. QED
        BY <1>1, <2>1, <3>3, <3>4, <3>5, WalkStep DEF TreeKept
    <2>4. QED
      BY <1>6, <2>2, <2>3, SkipDoes
  <1>7. QED
    BY <1>3, <1>4, <1>5, <1>6

LEMMA GroupActions ==
    ASSUME ShapeInv, NumInv, NumInv', NEW up, NEW lv, NEW reg, NEW own, TreeInv(up, lv, reg, own),
           NEW g \in Group, GroupStart(g) \/ Barrier(g) \/ Sync(g)
    PROVE  TreeInv(up, lv, reg, own)'
  <1> DEFINE U == {w \in Item : w[1] = g}
  <1>1. U \in SUBSET Item /\ ts.maxDepth \in Nat
    BY DEF NumInv
  <1>2. PICK from \in {"start", "barrier", "sync"}, x \in {"while", "exit", "leave"} :
             /\ TreeKept /\ Relabels(U, {from}, {x}) /\ ts'.maxDepth = ts.maxDepth
             /\ x = "exit" => from = "start"
    <2>1. CASE GroupStart(g)
      BY <2>1, GroupStartDoes
    <2>2. CASE Barrier(g)
      BY <2>2, BarrierDoes
    <2>3. CASE Sync(g)
      BY <2>3, SyncDoes
    <2>4. QED
      BY <2>1, <2>2, <2>3
  <1> HIDE DEF U
  <1>3. ts.maxDepth >= 1
    BY DEF TreeInv, CoverInv
  <1>4. \A v \in U : Keeps(v) /\ bt[v].pc = from /\ bt'[v].pc = x
    BY <1>2 DEF Relabels
  <1>5. \A v \in U : /\ Keeps(v) /\ ~Holds(v) /\ bt'[v].pc \in {"while", "exit", "leave"}
                     /\ bt'[v].pc = "exit" => bt[v].maxd <= ts'.maxDepth
    BY <1>1, <1>2, <1>3, <1>4 DEF Holds, Holding, Chaining, NumInv
  <1>6. QED
    BY <1>1, <1>2, <1>5, RelabelStep DEF TreeKept, Relabels

LEMMA ReadAction ==
    ASSUME ShapeInv, NumInv, NumInv', Fit, NEW up, NEW lv, NEW reg, NEW own, TreeInv(up, lv, reg, own),
           NEW w \in Item, Read(w)
    PROVE  TreeInv(up, lv, reg, own)'
  <1> DEFINE n == bt[w].n
             j == bt[w].j
             i == bt[w].i
             c == child[n][j]
  <1>1. /\ phase = "build" /\ TreeKept /\ ts' = ts /\ Only(w) /\ bt[w].pc = "read"
        /\ bt'[w].i = i /\ bt'[w].maxd = bt[w].maxd
    BY ReadDoes
  <1>2. /\ ~Holds(w) /\ i \in Body /\ i \in Nat /\ n \in Cells /\ own[n] = NoItem
        /\ bt[w].depth = lv[n] /\ j \in Sub /\ i \in reg[n] /\ j = Oct(n, i)
    BY <1>1 DEF TreeInv, ItemInv, Walks, Holds, Holding, Chaining
  <1>3. MemoryInv /\ CellInv(up, lv, reg) /\ LinkInv(up, own) /\ CoverInv(lv, own) /\ lv \in [Node -> Nat]
    BY DEF TreeInv, CellInv
  <1>4. n \in Node /\ Cells' = Cells /\ \A m, b : Oct(m, b)' = Oct(m, b)
    BY <1>1, <1>2, <1>3, CellFacts, OctKept DEF Cells, TreeKept
  <1>5. lv[n] <= MaxDepth
    BY <1>1, <1>2, <1>3, <1>4, Shallow
  <1>6. ~Holds(w)' /\ Walks(w, lv, reg, own)'
    <2>1. CASE isCell(c)
      <3>1. /\ bt'[w].pc = "read" /\ bt'[w].n = c /\ bt'[w].depth = bt[w].depth + 1
            /\ bt'[w].j = Oct(c, i)
        BY <1>2, <1>5, <2>1, ReadDoes
      <3>2. c \in Cells /\ c # NNode /\ up[c] = <<n, j>> /\ own[c] = NoItem
        BY <1>2, <1>3, <2>1 DEF LinkInv
      <3>3. lv[c] = lv[n] + 1 /\ i \in reg[c]
        BY <1>2, <1>3, <3>2 DEF CellInv
      <3>4. ~Holds(w)' /\ bt'[w].pc \in Labels
        BY <3>1 DEF Holds, Holding, Chaining, Labels
      <3>5. QED
        BY <1>1, <1>2, <1>4, <3>1, <3>2, <3>3, <3>4, OctRange DEF Walks
    <2>2. CASE ~isCell(c)
      <3>1. /\ bt'[w].n = n /\ bt'[w].depth = bt[w].depth /\ bt'[w].j = j
            /\ bt'[w].ch = c /\ bt'[w].pc \in {"lock", "skip"}
            /\ bt'[w].pc = "lock" => c # LOCK /\ c # i
        BY <2>2, ReadDoes
      <3>2. c \in Body \cup {NULL_BODY, LOCK}
        BY <1>2, <1>3, <2>2, CellFacts, NodeAssumption DEF Node, Body, isCell
      <3>3. ~Holds(w)' /\ bt'[w].pc \in Labels
        BY <3>1 DEF Holds, Holding, Chaining, Labels
      <3> HIDE DEF n, i, j, c
      <3>4. /\ bt'[w].i \in Nat /\ bt'[w].i \in Body /\ bt'[w].n \in Cells /\ own[bt'[w].n] = NoItem
            /\ bt'[w].depth = lv[bt'[w].n] /\ bt'[w].j \in Sub /\ bt'[w].i \in reg[bt'[w].n]
            /\ bt'[w].j = Oct(n, i) /\ bt'[w].pc # "start"
        BY <1>1, <1>2, <3>1 
      <3>5. Oct(bt[w].n, bt[w].i)' = Oct(n, i)
        BY <1>1, <1>4, <3>1
      <3>6. bt'[w].pc = "lock" => bt'[w].ch \in Body \cup {NULL_BODY} /\ bt'[w].ch # bt'[w].i
        BY <1>1, <3>1, <3>2
      <3>7. QED
        BY <1>4, <3>1, <3>3, <3>4, <3>5, <3>6 DEF Walks
    <2>3. QED
      BY <2>1, <2>2
  <1>7. \A v \in Item \ {w} : bt'[v] = bt[v]
    BY <1>1 DEF Only
  <1>8. bt'[w].pc # "exit"
    BY <1>1, ReadDoes
  <1>9. CoverInv(lv, own)'
    <2>1. bt[w].maxd <= bt'[w].maxd /\ ts.maxDepth <= ts'.maxDepth /\ {w} \in SUBSET Item
      BY <1>1 DEF NumInv
    <2>2. \A v \in {w} : bt[v].pc # "exit" => \/ bt'[v].pc # "exit" /\ bt[v].maxd <= bt'[v].maxd
                                              \/ bt[v].maxd <= ts'.maxDepth
      BY <1>8, <2>1
    <2>3. QED
      BY <1>1, <1>3, <1>7, <2>1, <2>2, CoverStep DEF TreeKept
  <1>10. \A v \in {w} : ~Holds(v) /\ ~Holds(v)' /\ Walks(v, lv, reg, own)'
    BY <1>2, <1>6
  <1>11. {w} \in SUBSET Item
    OBVIOUS
  <1>12. QED
    BY <1>1, <1>7, <1>9, <1>10, <1>11, WalkStep DEF TreeKept

-----------------------------------------------------------------------------
(* A step of an item that takes, holds or gives back a lock.  What the      *)
(* others know stays true: their cells are private, their slots locked.     *)

Frame(w, up, lv, reg, own, up2, lv2, reg2, own2) ==
  /\ Item' = Item /\ Only(w) /\ loaded' \subseteq Body /\ loaded \subseteq loaded'
  /\ \A m \in Cells : /\ m \in Cells' /\ up2[m] = up[m] /\ lv2[m] = lv[m] /\ reg2[m] = reg[m]
                      /\ own[m] # w => /\ own2[m] = own[m]
                                       /\ \A b \in Body : Oct(m, b)' = Oct(m, b)
                      /\ own[m] = w => own2[m] \in {w, NoItem}
                      /\ own[m] \notin {w, NoItem} => \A s \in Sub : child'[m][s] = child[m][s]
  /\ \A m \in Cells' : m \notin Cells =>
       own2[m] = w /\ up2[m][1] \in Cells /\ own[up2[m][1]] \in {w, NoItem}
  /\ \A v \in Item : v # w /\ Holds(v) =>
       bt[v].i \notin loaded' /\ child'[bt[v].locked[1]][bt[v].locked[2]] = LOCK

LEMMA NoItemIsNone == NoItem \notin Item
  BY DEF NoItem, Item, Group, Lane

LEMMA ChainsHold == \A v : Chains(v) => Holds(v)
  BY DEF Chains, Holds, Holding

\* The cell at which an item with a lock is.
LEMMA HolderCell ==
    ASSUME NEW up, NEW lv, NEW reg, NEW own, ItemInv(up, lv, reg, own), NEW v \in Item, Holds(v)
    PROVE  /\ own[bt[v].n] \in {v, NoItem}
           /\ own[bt[v].n] = v \/ bt[v].locked = <<bt[v].n, bt[v].j>>
           /\ Chains(v) => own[bt[v].n] = v \/ bt[v].pc \in {"alloc", "fill"}
  <1>1. Locks(v, lv, reg, own)
    BY DEF ItemInv
  <1>2. CASE Chains(v)
    <2>1. Chain(v, up, lv, reg, own)
      BY <1>2 DEF ItemInv
    <2>2. CASE bt[v].patch = -1
      BY <1>1, <2>1, <2>2 DEF Chain, NoChain, Locks
    <2>3. CASE bt[v].patch # -1
      BY <1>1, <2>1, <2>3 DEF Chain, ChainEnds
    <2>4. QED
      BY <2>2, <2>3
  <1>3. CASE ~Chains(v)
    <2>1. bt[v].pc = "insert"
      BY <1>3 DEF Holds, Chains, Holding
    <2>2. QED
      BY <1>1, <1>3, <2>1 DEF Locks
  <1>4. QED
    BY <1>2, <1>3

LEMMA OtherItem ==
    ASSUME NEW up, NEW lv, NEW reg, NEW own, NEW up2, NEW lv2, NEW reg2, NEW own2,
           TreeInv(up, lv, reg, own), NEW w \in Item,
           Frame(w, up, lv, reg, own, up2, lv2, reg2, own2), NEW v \in Item, v # w
    PROVE  /\ bt'[v] = bt[v] /\ (Holds(v)' <=> Holds(v)) /\ (Chains(v)' <=> Chains(v))
           /\ \A c : Filling(v, c)' <=> Filling(v, c)
           /\ Chains(v) => Was(v)' = Was(v)
           /\ Walks(v, lv2, reg2, own2)'
           /\ Holds(v) => Locks(v, lv2, reg2, own2)'
           /\ Chains(v) => Chain(v, up2, lv2, reg2, own2)'
  <1>1. bt'[v] = bt[v]
    BY DEF Frame, Only
  <1>2. (Holds(v)' <=> Holds(v)) /\ (Chains(v)' <=> Chains(v)) /\ \A c : Filling(v, c)' <=> Filling(v, c)
    BY <1>1 DEF Holds, Chains, Filling
  <1>3. ItemInv(up, lv, reg, own) /\ MemoryInv /\ CellInv(up, lv, reg) /\ LinkInv(up, own)
    BY DEF TreeInv
  <1>4. Walks(v, lv, reg, own)
    BY <1>3 DEF ItemInv
  <1>5. v # NoItem /\ w # NoItem
    BY NoItemIsNone
  <1>6. Walks(v, lv2, reg2, own2)'
    <2>1. CASE Holds(v)
      BY <1>1, <1>2, <1>4, <2>1 DEF Walks
    <2>2. CASE ~Holds(v)
      <3>1. bt[v].n \in Cells /\ own[bt[v].n] = NoItem
        BY <1>4, <2>2 DEF Walks
      <3>2. /\ bt[v].n \in Cells' /\ lv2[bt[v].n] = lv[bt[v].n] /\ reg2[bt[v].n] = reg[bt[v].n]
            /\ own2[bt[v].n] = NoItem
            /\ bt[v].i \in Body => Oct(bt[v].n, bt[v].i)' = Oct(bt[v].n, bt[v].i)
        <4>1. \A m \in Cells, b \in Body : own[m] = NoItem => Oct(m, b)' = Oct(m, b)
          BY <1>5 DEF Frame
        <4>2. bt[v].i \in Body => Oct(bt[v].n, bt[v].i)' = Oct(bt[v].n, bt[v].i)
          BY <1>1, <3>1, <4>1
        <4>3. QED
          BY <1>5, <3>1, <4>2 DEF Frame
      <3>3. QED
        BY <1>1, <1>2, <1>4, <3>2 DEF Walks
    <2>3. QED
      BY <2>1, <2>2
  <1>7. Chains(v) => Was(v)' = Was(v)
    <2>1. SUFFICES ASSUME Chains(v), bt[v].pc \notin {"alloc", "fill"}
                   PROVE  child'[bt[v].n][1 - bt[v].j] = child[bt[v].n][1 - bt[v].j]
      BY <1>1 DEF Was
    <2>2. own[bt[v].n] = v
      BY <1>3, <2>1, HolderCell, ChainsHold
    <2>3. bt[v].n \in Cells /\ bt[v].j \in Sub
      BY <1>3, <2>1, ChainsHold, OctRange DEF ItemInv, Locks
    <2>4. 1 - bt[v].j \in Sub
      BY <2>3 DEF Sub
    <2>5. QED
      BY <1>5, <2>2, <2>3, <2>4 DEF Frame
  <1>8. ASSUME Holds(v)
        PROVE  Locks(v, lv2, reg2, own2)'
    <2> DEFINE n == bt[v].n
               p == bt[v].locked[1]
    <2>1. Locks(v, lv, reg, own) /\ own[n] \in {v, NoItem}
      BY <1>3, <1>8, HolderCell DEF ItemInv
    <2>2. n \in Cells /\ p \in Cells /\ bt[v].i \in Body /\ own[p] = NoItem /\ bt[v].locked[2] \in Sub
      BY <2>1 DEF Locks
    <2>a. \A m \in Cells, b \in Body : own[m] # w => Oct(m, b)' = Oct(m, b)
      BY DEF Frame
    <2>b. \A b \in Body : Oct(n, b)' = Oct(n, b) /\ Oct(p, b)' = Oct(p, b)
      BY <1>1, <1>5, <2>1, <2>2, <2>a
    <2>3. /\ n \in Cells' /\ p \in Cells' /\ lv2[n] = lv[n] /\ reg2[p] = reg[p] /\ own2[p] = NoItem
          /\ \A b \in Body : Oct(n, b)' = Oct(n, b) /\ Oct(p, b)' = Oct(p, b)
      BY <1>5, <2>1, <2>2, <2>b DEF Frame
    <2>4. bt[v].i \notin loaded' /\ child'[p][bt[v].locked[2]] = LOCK
      BY <1>8 DEF Frame
    <2>5. bt[v].pc = "fill" => lv2[bt[v].cell] = lv[bt[v].cell]
      <3>1. ASSUME bt[v].pc = "fill"
            PROVE  bt[v].cell \in Cells
        <4>1. Chains(v)
          BY <3>1 DEF Chains, Chaining
        <4>2. QED
          BY <1>3, <3>1, <4>1 DEF ItemInv, Chain, ChainFill
      <3>2. QED
        BY <3>1 DEF Frame
    <2>6. Chains(v) => Was(v)' \in loaded' /\ Was(v)' \in reg2[p] /\ Oct(p, Was(v))' = bt[v].locked[2]
      <3>1. SUFFICES ASSUME Chains(v)
                     PROVE  Was(v)' \in loaded' /\ Was(v)' \in reg2[p] /\ Oct(p, Was(v))' = bt[v].locked[2]
        OBVIOUS
      <3>2. PICK b : b = Was(v)
        OBVIOUS
      <3>3. Was(v)' = b /\ b \in loaded /\ b \in Body /\ b \in reg[p] /\ Oct(p, b) = bt[v].locked[2]
        BY <1>3, <1>7, <2>1, <3>1, <3>2 DEF Locks, MemoryInv
      <3>4. QED
        BY <1>1, <2>3, <3>3 DEF Frame
    <2>7. Oct(n, bt[v].i)' = Oct(n, bt[v].i) /\ Oct(p, bt[v].i)' = Oct(p, bt[v].i)
      BY <1>1, <2>2, <2>3
    <2>8. bt[v].locked \in Cells' \X Sub
      BY <2>1, <2>3 DEF Locks
    <2>9. QED
      BY <1>1, <1>2, <2>1, <2>2, <2>3, <2>4, <2>5, <2>6, <2>7, <2>8 DEF Locks
  <1>9. ASSUME Chains(v)
        PROVE  Chain(v, up2, lv2, reg2, own2)'
    <2>1. Chain(v, up, lv, reg, own) /\ Locks(v, lv, reg, own) /\ Was(v)' = Was(v)
      BY <1>3, <1>7, <1>9, ChainsHold DEF ItemInv
    <2>2. \A c \in Cells' : own2[c] = v => c \in Cells /\ own[c] = v
      BY <1>5 DEF Frame
    <2>3. \A c \in Cells : own[c] = v =>
            /\ c \in Cells' /\ up2[c] = up[c] /\ lv2[c] = lv[c] /\ reg2[c] = reg[c] /\ own2[c] = v
            /\ \A b \in Body : Oct(c, b)' = Oct(c, b)
            /\ \A s \in Sub : child'[c][s] = child[c][s]
      BY <1>5 DEF Frame
    <2> DEFINE p == bt[v].locked[1]
    <2>a. \A m \in Cells, b \in Body : own[m] # w => Oct(m, b)' = Oct(m, b)
      BY DEF Frame
    <2>b. p \in Cells /\ own[p] = NoItem
      BY <2>1 DEF Locks
    <2>c. \A b \in Body : Oct(p, b)' = Oct(p, b)
      BY <1>1, <1>5, <2>a, <2>b
    <2>4. /\ p \in Cells /\ reg2[p] = reg[p] /\ \A b \in Body : Oct(p, b)' = Oct(p, b)
      BY <2>b, <2>c DEF Frame
    <2>5. PICK u \in Body : u = Was(v) /\ u = Was(v)'
      BY <1>3, <1>9, <2>1 DEF Locks, MemoryInv
    <2>6. PICK i \in Body : i = bt[v].i /\ i = bt'[v].i
      BY <1>1, <2>1 DEF Locks
    <2>7. ASSUME NEW c \in Cells, own[c] = v
          PROVE  ChainCell(v, c, up2, lv2, reg2)'
      <3>1. ChainCell(v, c, up, lv, reg) /\ reg[c] \subseteq Body /\ c # NNode
        BY <1>3, <1>5, <2>1, <2>7 DEF Chain, CellInv, LinkInv
      <3>2. \A b \in reg2[c] : b \in reg2[p] /\ Oct(p, b)' = bt[v].locked[2]
        BY <2>3, <2>4, <2>7, <3>1 DEF ChainCell
      <3>3. ASSUME ~Filling(v, c)
            PROVE  /\ i \in reg2[c] /\ u \in reg2[c]
                   /\ c = bt[v].patch \/ child'[up2[c][1]][up2[c][2]] = c
                   /\ isCell(Leads(c, u)') \/ Leads(c, u)' = u
        <4>1. /\ i \in reg[c] /\ u \in reg[c] /\ (c = bt[v].patch \/ child[up[c][1]][up[c][2]] = c)
              /\ isCell(Leads(c, u)) \/ Leads(c, u) = u
          BY <2>5, <2>6, <3>1, <3>3 DEF ChainCell
        <4>2. Leads(c, u)' = Leads(c, u)
          BY <2>3, <2>7, OctRange DEF Leads
        <4>3. ASSUME child[up[c][1]][up[c][2]] = c
              PROVE  child'[up2[c][1]][up2[c][2]] = c
          <5>1. up[c][1] \in Cells /\ up[c][2] \in Sub /\ isCell(c)
            BY <1>3, <3>1, CellFacts DEF CellInv
          <5>2. own[up[c][1]] = v
            BY <1>3, <2>7, <4>3, <5>1 DEF LinkInv
          <5>3. QED
            BY <2>3, <2>7, <4>3, <5>1, <5>2
        <4>4. QED
          BY <2>3, <2>7, <4>1, <4>2, <4>3
      <3>4. lv2[c] <= bt'[v].depth
        BY <1>1, <2>3, <2>7, <3>1 DEF ChainCell
      <3>5. QED
        BY <1>1, <1>2, <2>5, <2>6, <3>2, <3>3, <3>4 DEF ChainCell, isCell
    <2>8. bt[v].patch = -1 => NoChain(v, own2)'
      BY <1>1, <1>2, <2>1, <2>2 DEF Chain, NoChain
    <2>9. bt[v].patch # -1 => ChainEnds(v, up2, own2)'
      <3>1. SUFFICES ASSUME bt[v].patch # -1
                     PROVE  ChainEnds(v, up2, own2)'
        OBVIOUS
      <3>2. ChainEnds(v, up, own) /\ bt[v].n \in Cells /\ bt[v].j \in Sub
        BY <2>1, <3>1, OctRange DEF Chain, Locks
      <3>3. child'[bt[v].n][bt[v].j] = child[bt[v].n][bt[v].j]
        BY <2>3, <3>2 DEF ChainEnds
      <3>4. QED
        BY <1>1, <1>2, <2>1, <2>2, <2>3, <3>2, <3>3 DEF ChainEnds
    <2>10. bt[v].pc = "fill" => ChainFill(v, up2, own2)'
      <3>1. SUFFICES ASSUME bt[v].pc = "fill"
                     PROVE  ChainFill(v, up2, own2)'
        OBVIOUS
      <3>2. ChainFill(v, up, own)
        BY <2>1, <3>1 DEF Chain
      <3>3. \A c \in Cells' : c # NNode => up2[c][1] # bt[v].cell
        <4>1. SUFFICES ASSUME NEW c \in Cells', c # NNode
                       PROVE  up2[c][1] # bt[v].cell
          OBVIOUS
        <4>2. CASE c \in Cells
          BY <3>2, <4>1, <4>2 DEF ChainFill, Frame
        <4>3. CASE c \notin Cells
          BY <1>5, <3>2, <4>1, <4>3 DEF ChainFill, Frame
        <4>4. QED
          BY <4>2, <4>3
      <3>4. QED
        BY <1>1, <2>3, <3>2, <3>3 DEF ChainFill
    <2>11. /\ bt[v].pc = "link" => child'[bt[v].n][bt[v].j] = NULL_BODY
           /\ bt[v].pc = "publish" => child'[bt[v].n][bt[v].j] = bt[v].i
      <3>1. SUFFICES ASSUME bt[v].pc \in {"link", "publish"}
                     PROVE  child'[bt[v].n][bt[v].j] = child[bt[v].n][bt[v].j]
        BY <2>1 DEF Chain
      <3>2. own[bt[v].n] = v
        BY <1>3, <1>9, <3>1, HolderCell, ChainsHold
      <3>3. bt[v].n \in Cells /\ bt[v].j \in Sub
        BY <2>1, OctRange DEF Locks
      <3>4. QED
        BY <2>3, <3>2, <3>3
    <2>12. QED
      BY <1>1, <2>2, <2>7, <2>8, <2>9, <2>10, <2>11 DEF Chain
  <1>10. QED
    BY <1>1, <1>2, <1>6, <1>7, <1>8, <1>9


\* A store to one slot.
Stores(m, s, x) ==
  /\ child' \in [Node -> [Sub -> Node \cup {NULL_BODY, LOCK}]] /\ child'[m][s] = x
  /\ \A k \in Node, t \in Sub : k # m \/ t # s => child'[k][t] = child[k][t]
LEMMA SlotStored ==
    ASSUME MemoryInv, NEW m \in Node, NEW s \in Sub, NEW x \in Node \cup {NULL_BODY, LOCK},
           child' = [child EXCEPT ![m][s] = x]
    PROVE  Stores(m, s, x)
  BY DEF MemoryInv, Stores

\* What the invariant says of the others, and of the item that makes the step.
LEMMA FrameItems ==
    ASSUME NEW up, NEW lv, NEW reg, NEW own, NEW up2, NEW lv2, NEW reg2, NEW own2,
           TreeInv(up, lv, reg, own), NEW w \in Item,
           Frame(w, up, lv, reg, own, up2, lv2, reg2, own2),
           Walks(w, lv2, reg2, own2)',
           Holds(w)' => Locks(w, lv2, reg2, own2)',
           Chains(w)' => Chain(w, up2, lv2, reg2, own2)',
           \A c \in Cells' : own2[c] = w => Chains(w)'
    PROVE  ItemInv(up2, lv2, reg2, own2)'
  <1>1. Item' = Item
    BY DEF Frame
  <1>2. \A v \in Item : Walks(v, lv2, reg2, own2)'
    BY OtherItem
  <1>3. \A v \in Item : Holds(v)' => Locks(v, lv2, reg2, own2)'
    BY OtherItem
  <1>4. \A v \in Item : Chains(v)' => Chain(v, up2, lv2, reg2, own2)'
    BY OtherItem
  <1>5. ASSUME NEW c \in Cells', own2[c] # NoItem
        PROVE  own2[c] \in Item' /\ Chains(own2[c])'
    <2>1. CASE own2[c] = w
      BY <1>1, <2>1
    <2>2. CASE own2[c] # w
      <3>1. c \in Cells /\ own[c] # w /\ own2[c] = own[c]
        BY <1>5, <2>2 DEF Frame
      <3>2. PICK v \in Item : v = own[c] /\ Chains(v)
        BY <1>5, <3>1 DEF TreeInv, ItemInv
      <3>3. Chains(v)'
        BY <2>2, <3>1, <3>2, OtherItem
      <3>4. QED
        BY <1>1, <3>1, <3>2, <3>3
    <2>3. QED
      BY <2>1, <2>2
  <1>6. QED
    BY <1>1, <1>2, <1>3, <1>4, <1>5 DEF ItemInv

\* Where a body would go that belongs in the slot item w has locked.
LEMMA LockedWay ==
    ASSUME NEW up, NEW lv, NEW reg, NEW own, TreeInv(up, lv, reg, own), NEW w \in Item, Holds(w),
           NEW p, NEW s, bt[w].locked = <<p, s>>, NEW b, b \in reg[p], Oct(p, b) = s,
           NEW m \in Cells, own[m] = NoItem, b \in reg[m]
    PROVE  m = p \/ (p < m /\ isCell(Leads(m, b)))
  <1>1. p \in Cells /\ s \in Sub /\ own[p] = NoItem /\ child[p][s] = LOCK
    BY DEF TreeInv, ItemInv, Locks
  <1>2. \A v \in Item, l \in Cells : own[l] = NoItem => ~Filling(v, l)
    <2>1. SUFFICES ASSUME NEW v \in Item, NEW l \in Cells, own[l] = NoItem, Filling(v, l)
                   PROVE  FALSE
      OBVIOUS
    <2>2. bt[v].pc = "fill" /\ Chains(v)
      BY <2>1 DEF Filling, Chains, Chaining
    <2>3. own[l] = v
      BY <2>1, <2>2 DEF TreeInv, ItemInv, Chain, ChainFill, Filling
    <2>4. QED
      BY <2>1, <2>3, NoItemIsNone
  <1>3. ~isCell(Leads(p, b))
    BY <1>1, NodeAssumption DEF Leads, isCell, LOCK
  <1>4. p \in Nat /\ m \in Nat
    BY <1>1, CellFacts DEF TreeInv
  <1>5. CASE m < p
    BY <1>1, <1>2, <1>3, <1>5 DEF TreeInv, UniqueInv
  <1>6. CASE p < m
    BY <1>1, <1>2, <1>6 DEF TreeInv, UniqueInv
  <1>7. QED
    BY <1>4, <1>5, <1>6

\* No body is inserted by two items.
LEMMA LockedApart ==
    ASSUME NEW up, NEW lv, NEW reg, NEW own, TreeInv(up, lv, reg, own),
           NEW v \in Item, NEW w \in Item, Holds(v), Holds(w), bt[v].i = bt[w].i
    PROVE  v = w
  <1>1. PICK p \in Cells, s \in Sub, q \in Cells, t \in Sub : bt[v].locked = <<p, s>> /\ bt[w].locked = <<q, t>>
    BY DEF TreeInv, ItemInv, Locks
  <1> DEFINE i == bt[v].i
  <1>2. /\ i \in reg[p] /\ Oct(p, i) = s /\ own[p] = NoItem /\ child[p][s] = LOCK
        /\ i \in reg[q] /\ Oct(q, i) = t /\ own[q] = NoItem /\ child[q][t] = LOCK
    BY <1>1 DEF TreeInv, ItemInv, Locks
  <1>3. ~isCell(Leads(p, i)) /\ ~isCell(Leads(q, i))
    BY <1>2, NodeAssumption DEF Leads, isCell, LOCK
  <1>4. p = q
    BY <1>1, <1>2, <1>3, LockedWay
  <1>5. QED
    BY <1>1, <1>2, <1>4 DEF TreeInv, LockInv

\* A step that stores something else than a cell in a slot that led to no cell.
LEMMA StoreStep ==
    ASSUME NEW up, NEW lv, NEW reg, NEW own, TreeInv(up, lv, reg, own), NEW w \in Item,
           Frame(w, up, lv, reg, own, up, lv, reg, own), UNCHANGED <<mode, pos>>, ts'.bottom = ts.bottom,
           NEW n \in Cells, NEW j \in Sub, NEW x \in Body \cup {LOCK},
           Stores(n, j, x), ~isCell(child[n][j]), bt[w].pc # "fill",
           Chains(w) => Chains(w)' /\ bt'[w].locked = bt[w].locked
    PROVE  /\ MemoryInv' /\ CellInv(up, lv, reg)' /\ LinkInv(up, own)' /\ UniqueInv(reg, own)' /\ FullInv(own)'
           /\ \A m \in Cells : \A b : isCell(Leads(m, b)) => isCell(Leads(m, b)')
  <1>1. /\ MemoryInv /\ CellInv(up, lv, reg) /\ LinkInv(up, own) /\ UniqueInv(reg, own)
        /\ FullInv(own)
    BY DEF TreeInv
  <1>2. /\ Item' = Item /\ Cells' = Cells /\ \A m, b : Oct(m, b)' = Oct(m, b)
        /\ n \in Node /\ \A m \in Cells : m \in Node
    BY <1>1, SameItems, OctKept, CellFacts DEF Cells
  <1>3. ~isCell(x) /\ x # NULL_BODY /\ x \in Node \cup {NULL_BODY, LOCK}
    BY NodeAssumption DEF isCell, Body, Node, NULL_BODY, LOCK
  <1>4. /\ child' \in [Node -> [Sub -> Node \cup {NULL_BODY, LOCK}]] /\ child'[n][j] = x
        /\ \A k \in Node, t \in Sub : k # n \/ t # j => child'[k][t] = child[k][t]
    BY DEF Stores
  <1>5. \A m \in Cells, s \in Sub : isCell(child[m][s]) \/ isCell(child'[m][s]) => child'[m][s] = child[m][s]
    BY <1>2, <1>3, <1>4
  <1>6. \A v \in Item : (\A c : Filling(v, c) => Filling(v, c)')
                        /\ (Chains(v) => Chains(v)' /\ bt'[v].locked = bt[v].locked)
    <2>1. \A c : ~Filling(w, c)
      BY DEF Filling
    <2>2. QED
      BY <2>1, OtherItem
  <1>7. MemoryInv' /\ CellInv(up, lv, reg)'
    <2>1. loaded' \subseteq Body
      BY DEF Frame
    <2>2. QED
      BY <1>1, <1>2, <1>4, <2>1 DEF MemoryInv, CellInv
  <1>8. LinkInv(up, own)'
    <2>1. \A m \in Node, s \in Sub : isCell(m) /\ m < ts.bottom => child'[m][s] = NULL_BODY
      BY <1>1, <1>4, NodeAssumption DEF LinkInv, Cells, MemoryInv
    <2>2. \A c \in Cells : c # NNode => up[c][1] \in Cells /\ up[c][2] \in Sub /\ isCell(c)
      BY <1>1, CellFacts DEF CellInv
    <2>3. \A m \in Cells, s \in Sub : isCell(child'[m][s]) =>
            /\ child'[m][s] \in Cells /\ child'[m][s] # NNode
            /\ up[child'[m][s]] = <<m, s>> /\ own[child'[m][s]] = own[m]
      <3>1. SUFFICES ASSUME NEW m \in Cells, NEW s \in Sub, isCell(child'[m][s])
                     PROVE  /\ child'[m][s] \in Cells /\ child'[m][s] # NNode
                            /\ up[child'[m][s]] = <<m, s>> /\ own[child'[m][s]] = own[m]
        OBVIOUS
      <3>2. child'[m][s] = child[m][s] /\ isCell(child[m][s])
        BY <1>5, <3>1
      <3>3. QED
        BY <1>1, <3>2 DEF LinkInv
    <2>4. \A c \in Cells : c # NNode /\ own[c] = NoItem => child'[up[c][1]][up[c][2]] = c
      BY <1>1, <1>5, <2>2 DEF LinkInv
    <2>5. own = [c \in Node |-> own[c]] /\ own[NNode] = NoItem
      BY <1>1 DEF LinkInv
    <2>6. QED
      <3>1. \A m \in Node, s \in Sub : isCell(m) /\ m < ts'.bottom => child'[m][s] = NULL_BODY
        BY <2>1
      <3>2. QED
        BY <1>2, <2>3, <2>4, <2>5, <3>1 DEF LinkInv
  <1>9. ASSUME NEW m \in Cells, NEW b, isCell(Leads(m, b))
        PROVE  isCell(Leads(m, b)')
    BY <1>2, <1>5, <1>9, OctRange DEF Leads
  <1>10. UniqueInv(reg, own)'
    BY <1>1, <1>2, <1>6, <1>9 DEF UniqueInv, isCell
  <1>11. FullInv(own)'
    <2>1. ASSUME NEW c \in Cells, c # NNode, own[c] = NoItem
          PROVE  \/ \E s \in Sub : isCell(child'[c][s]) \/ \E v \in Item : Chains(v)' /\ bt'[v].locked = <<c, s>>
                 \/ \A s \in Sub : child'[c][s] # NULL_BODY
      <3>1. CASE \E s \in Sub : isCell(child[c][s])
        BY <1>5, <3>1
      <3>2. CASE \E s \in Sub : \E v \in Item : Chains(v) /\ bt[v].locked = <<c, s>>
        BY <1>6, <3>2
      <3>3. CASE \A s \in Sub : child[c][s] # NULL_BODY
        BY <1>2, <1>3, <1>4, <3>3
      <3>4. QED
        BY <1>1, <2>1, <3>1, <3>2, <3>3 DEF FullInv
    <2>2. QED
      BY <1>2, <2>1 DEF FullInv
  <1>12. QED
    BY <1>4, <1>7, <1>8, <1>9, <1>10, <1>11

LEMMA TryLockAction ==
    ASSUME ShapeInv, NumInv, NumInv', NEW up, NEW lv, NEW reg, NEW own, TreeInv(up, lv, reg, own),
           NEW w \in Item, TryLock(w)
    PROVE  TreeInv(up, lv, reg, own)'
  <1>1. /\ phase = "build" /\ bt[w].pc = "lock" /\ ts' = ts
        /\ UNCHANGED <<mode, pos, loaded, overflowed, phase, pass>>
    BY TryLockDoes
  <1>2. /\ MemoryInv /\ CellInv(up, lv, reg) /\ LinkInv(up, own) /\ UniqueInv(reg, own)
        /\ BodyInv(reg, own) /\ LockInv(own) /\ LoadedInv(reg, own) /\ FullInv(own)
        /\ ItemInv(up, lv, reg, own) /\ CoverInv(lv, own)
    BY DEF TreeInv
  <1>3. /\ ~Holds(w) /\ ~Chains(w) /\ bt[w].i \in Body /\ Walks(w, lv, reg, own)
        /\ \A c : ~Filling(w, c)
    BY <1>1, <1>2 DEF ItemInv, Walks, Holds, Chains, Holding, Chaining, Filling
  <1>4. CASE TreeKept /\ Relabels({w}, {"lock"}, {"skip"})
    <2>1. Only(w) /\ Keeps(w) /\ bt'[w].pc = "skip"
      BY <1>4 DEF Relabels, Only
    <2>2. ts.maxDepth <= ts'.maxDepth
      BY <1>1 DEF NumInv
    <2>3. QED
      BY <1>3, <1>4, <2>1, <2>2, RelabelOne
  <1>5. ASSUME child[bt[w].n][bt[w].j] = bt[w].ch,
               child' = [child EXCEPT ![bt[w].n][bt[w].j] = LOCK], Only(w),
               bt'[w].i = bt[w].i, bt'[w].n = bt[w].n, bt'[w].depth = bt[w].depth,
               bt'[w].maxd = bt[w].maxd, bt'[w].j = bt[w].j, bt'[w].ch = bt[w].ch,
               bt'[w].locked = <<bt[w].n, bt[w].j>>, bt'[w].patch = -1,
               bt'[w].pc = IF bt[w].ch = NULL_BODY THEN "insert" ELSE "alloc"
        PROVE  TreeInv(up, lv, reg, own)'
    <2>1. PICK n \in Cells, j \in Sub, i \in Body, u \in Body \cup {NULL_BODY} :
            /\ n = bt[w].n /\ j = bt[w].j /\ i = bt[w].i /\ u = bt[w].ch /\ own[n] = NoItem
            /\ bt[w].depth = lv[n] /\ i \in reg[n] /\ j = Oct(n, i) /\ u # i
      BY <1>1, <1>3 DEF Walks
    <2>2. /\ Item' = Item /\ Cells' = Cells /\ \A m, b : Oct(m, b)' = Oct(m, b)
          /\ n \in Node /\ \A m \in Cells : m \in Node
      BY <1>1, <1>2, SameItems, OctKept, CellFacts DEF Cells
    <2>3. ~isCell(u) /\ u # LOCK /\ ~isCell(LOCK) /\ LOCK \notin Body /\ LOCK # NULL_BODY
      BY NodeAssumption DEF isCell, Body, NULL_BODY, LOCK
    <2>a. child[n][j] = u /\ child' = [child EXCEPT ![n][j] = LOCK]
      BY <1>5, <2>1
    <2>b. PICK x \in Body \cup {LOCK} : x = LOCK
      OBVIOUS
    <2>c. x \in Node \cup {NULL_BODY, LOCK} /\ child' = [child EXCEPT ![n][j] = x]
      BY <2>a, <2>b
    <2>d. Stores(n, j, x)
      BY <1>2, <2>2, <2>c, SlotStored
    <2>4. child'[n][j] = LOCK /\ \A k \in Node, t \in Sub : k # n \/ t # j => child'[k][t] = child[k][t]
      BY <2>b, <2>d DEF Stores
    <2>5. \A v \in Item : Holds(v) => v # w /\ bt[v].locked # <<n, j>>
      BY <1>2, <1>3, <2>3, <2>4, <2>a DEF ItemInv, Locks
    <2>6. i \notin loaded
      <3>1. SUFFICES ASSUME i \in loaded
                     PROVE  FALSE
        OBVIOUS
      <3>2. Leads(n, i) = u
        BY <2>1, <2>4, <2>a DEF Leads
      <3>3. \E v \in Item : Chains(v) /\ bt[v].locked = <<n, Oct(n, i)>> /\ Was(v) = i
        BY <1>2, <2>1, <2>3, <3>1, <3>2 DEF LoadedInv
      <3>4. QED
        BY <2>1, <2>5, <3>3, ChainsHold
    <2>7. Holds(w)' /\ (u = NULL_BODY => bt'[w].pc = "insert" /\ ~Chains(w)')
                    /\ (u # NULL_BODY => bt'[w].pc = "alloc" /\ Chains(w)' /\ Was(w)' = u)
      BY <1>5, <2>1 DEF Holds, Chains, Holding, Chaining, Was
    <2>8. Frame(w, up, lv, reg, own, up, lv, reg, own)
      <3>1. \A v \in Item : v # w /\ Holds(v) =>
              bt[v].i \notin loaded' /\ child'[bt[v].locked[1]][bt[v].locked[2]] = LOCK
        BY <1>1, <1>2, <2>2, <2>4, <2>5 DEF ItemInv, Locks
      <3>2. \A m \in Cells : own[m] \notin {w, NoItem} => \A s \in Sub : child'[m][s] = child[m][s]
        BY <2>1, <2>2, <2>4
      <3>3. loaded' \subseteq Body /\ loaded \subseteq loaded'
        BY <1>1, <1>2 DEF MemoryInv
      <3>4. QED
        BY <1>5, <2>2, <3>1, <3>2, <3>3 DEF Frame
    <2>9. \A v \in Item : v # w => 
             /\ bt'[v] = bt[v] /\ (Holds(v)' <=> Holds(v)) /\ (Chains(v)' <=> Chains(v))
             /\ \A c : Filling(v, c)' <=> Filling(v, c)
             /\ Chains(v) => Was(v)' = Was(v)
      BY <2>8, OtherItem
    <2>10. \A c \in Cells : own[c] # w
      BY <1>2, <1>3, NoItemIsNone DEF ItemInv
    <2>11. u \in Body => u \in loaded /\ u \in reg[n] /\ Oct(n, u) = j
      BY <1>2, <2>1, <2>4, <2>a DEF BodyInv
    <2>12. /\ MemoryInv' /\ CellInv(up, lv, reg)' /\ LinkInv(up, own)' /\ UniqueInv(reg, own)' /\ FullInv(own)'
           /\ \A m \in Cells : \A b : isCell(Leads(m, b)) => isCell(Leads(m, b)')
      BY <1>1, <1>3, <2>3, <2>8, <2>a, <2>d, StoreStep
    <2>16. BodyInv(reg, own)'
      <3>1. ASSUME NEW m \in Cells, NEW s \in Sub, child'[m][s] \in Body
            PROVE  child'[m][s] = child[m][s]
        BY <2>2, <2>3, <2>4, <2>a, <3>1
      <3>2. ASSUME NEW m \in Cells, own[m] # NoItem
            PROVE  bt'[own[m]] = bt[own[m]] /\ Was(own[m])' = Was(own[m])
        BY <1>2, <2>9, <2>10, <3>2 DEF ItemInv
      <3>3. QED
        BY <1>1, <1>2, <2>2, <3>1, <3>2 DEF BodyInv
    <2>17. LockInv(own)'
      <3>1. ASSUME NEW m \in Cells, NEW s \in Sub, child'[m][s] = LOCK
            PROVE  own[m] = NoItem /\ \E v \in Item : Holds(v)' /\ bt'[v].locked = <<m, s>>
        <4>1. CASE m = n /\ s = j
          BY <1>5, <2>1, <2>7, <4>1
        <4>2. CASE m # n \/ s # j
          <5>1. child[m][s] = LOCK
            BY <2>2, <2>4, <3>1, <4>2
          <5>2. own[m] = NoItem /\ \E v \in Item : Holds(v) /\ bt[v].locked = <<m, s>>
            BY <1>2, <5>1 DEF LockInv
          <5>3. QED
            BY <2>5, <2>9, <5>2
        <4>3. QED
          BY <4>1, <4>2
      <3>2. \A v \in Item : v # w => (Holds(v)' => bt'[v].locked # <<n, j>>)
        BY <2>5, <2>9
      <3>3. \A v, z \in Item : Holds(v)' /\ Holds(z)' /\ bt'[v].locked = bt'[z].locked => v = z
        BY <1>2, <1>5, <2>1, <2>9, <3>2 DEF LockInv
      <3>4. QED
        BY <2>2, <3>1, <3>3 DEF LockInv
    <2>18. LoadedInv(reg, own)'
      <3>1. ASSUME NEW b \in loaded, NEW m \in Cells, own[m] = NoItem, b \in reg[m]
            PROVE  \/ isCell(Leads(m, b)') \/ Leads(m, b)' = b
                   \/ \E v \in Item : Chains(v)' /\ bt'[v].locked = <<m, Oct(m, b)>> /\ Was(v)' = b
        <4>1. CASE isCell(Leads(m, b))
          BY <2>12, <4>1
        <4>2. CASE Leads(m, b) = b /\ m = n /\ Oct(m, b) = j
          <5>1. b \in Body /\ u = b
            BY <1>2, <2>a, <4>2 DEF Leads, MemoryInv
          <5>2. u # NULL_BODY
            BY <5>1, NodeAssumption DEF Body, NULL_BODY
          <5>3. Chains(w)' /\ bt'[w].locked = <<m, Oct(m, b)>> /\ Was(w)' = b
            BY <1>5, <2>1, <2>7, <4>2, <5>1, <5>2
          <5>4. QED
            BY <5>3
        <4>3. CASE Leads(m, b) = b /\ ~(m = n /\ Oct(m, b) = j)
          BY <2>2, <2>4, <4>3, OctRange DEF Leads
        <4>4. CASE \E v \in Item : Chains(v) /\ bt[v].locked = <<m, Oct(m, b)>> /\ Was(v) = b
          BY <1>3, <2>9, <4>4
        <4>5. QED
          BY <1>2, <3>1, <4>1, <4>2, <4>3, <4>4 DEF LoadedInv
      <3>2. QED
        BY <1>1, <2>2, <3>1 DEF LoadedInv, isCell
    <2>20. Walks(w, lv, reg, own)'
      <3>1. bt'[w].pc \in Labels /\ bt'[w].pc \notin {"read", "lock", "skip"}
        BY <2>7 DEF Labels, Holding, Chaining
      <3>2. QED
        BY <1>3, <1>5, <2>7, <3>1 DEF Walks
    <2>21. Locks(w, lv, reg, own)'
      <3>1. /\ bt'[w].i = i /\ bt'[w].n = n /\ bt'[w].j = j /\ bt'[w].locked = <<n, j>>
            /\ bt'[w].depth = lv[n] /\ bt'[w].pc # "fill"
        BY <1>5, <2>1, <2>7
      <3>2. Chains(w)' => Was(w)' = u /\ u \in Body
        BY <2>7
      <3>3. QED
        BY <1>1, <2>1, <2>2, <2>4, <2>6, <2>11, <3>1, <3>2 DEF Locks
    <2>22. Chains(w)' => Chain(w, up, lv, reg, own)'
      <3>1. SUFFICES ASSUME Chains(w)'
                     PROVE  Chain(w, up, lv, reg, own)'
        OBVIOUS
      <3>2. bt'[w].pc = "alloc" /\ bt'[w].locked = <<bt'[w].n, bt'[w].j>> /\ bt'[w].patch = -1
        BY <1>5, <2>7, <3>1
      <3>3. QED
        BY <2>2, <2>10, <3>2 DEF Chain, NoChain
    <2>23. ItemInv(up, lv, reg, own)'
      BY <2>2, <2>8, <2>10, <2>20, <2>21, <2>22, FrameItems
    <2>24. CoverInv(lv, own)'
      <3>1. bt[w].maxd <= bt'[w].maxd /\ ts.maxDepth <= ts'.maxDepth /\ bt'[w].pc # "exit"
        BY <1>1, <1>5, <2>7 DEF NumInv
      <3>2. \A v \in {w} : bt[v].pc # "exit" => \/ bt'[v].pc # "exit" /\ bt[v].maxd <= bt'[v].maxd
                                                \/ bt[v].maxd <= ts'.maxDepth
        BY <3>1
      <3>3. lv \in [Node -> Nat] /\ {w} \in SUBSET Item /\ \A v \in Item \ {w} : bt'[v] = bt[v]
        BY <1>2, <1>5 DEF CellInv, Only
      <3>4. QED
        BY <1>1, <1>2, <3>1, <3>2, <3>3, CoverStep
    <2>25. QED
      BY <2>12, <2>16, <2>17, <2>18, <2>23, <2>24 DEF TreeInv
  <1>6. QED
    BY <1>4, <1>5, TryLockDoes

\* The parts of the invariant that a store by the holder of a lock to its slot
\* gives back; the body it inserts is then in the tree.
LEMMA UnlockFrame ==
    ASSUME NEW up, NEW lv, NEW reg, NEW own, TreeInv(up, lv, reg, own), NEW w \in Item, Holds(w),
           NEW p \in Cells, NEW s \in Sub, bt[w].locked = <<p, s>>, NEW x, Stores(p, s, x),
           UNCHANGED <<mode, pos>>, ts'.bottom = ts.bottom, Only(w), loaded' = loaded \cup {bt[w].i},
           NEW own2, \A m \in Cells : own2[m] = IF own[m] = w THEN NoItem ELSE own[m]
    PROVE  Frame(w, up, lv, reg, own, up, lv, reg, own2)
  <1>1. /\ MemoryInv /\ LockInv(own) /\ ItemInv(up, lv, reg, own)
        /\ Locks(w, lv, reg, own)
    BY DEF TreeInv, ItemInv
  <1>2. /\ Item' = Item /\ Cells' = Cells /\ \A m, b : Oct(m, b)' = Oct(m, b)
        /\ \A m \in Cells : m \in Node
    BY <1>1, SameItems, OctKept, CellFacts DEF Cells
  <1>3. own[p] = NoItem
    BY <1>1 DEF Locks
  <1>4. ASSUME NEW v \in Item, v # w, Holds(v)
        PROVE  bt[v].i \notin loaded' /\ child'[bt[v].locked[1]][bt[v].locked[2]] = LOCK
    <2>1. PICK q \in Cells, t \in Sub : /\ bt[v].locked = <<q, t>> /\ child[q][t] = LOCK
                                        /\ bt[v].i \notin loaded
      BY <1>1, <1>4 DEF ItemInv, Locks
    <2>2. bt[v].i # bt[w].i
      BY <1>4, LockedApart
    <2>3. q # p \/ t # s
      BY <1>1, <1>4, <2>1 DEF LockInv
    <2>4. QED
      BY <1>2, <2>1, <2>2, <2>3 DEF Stores
  <1>5. \A m \in Cells : own[m] \notin {w, NoItem} => \A t \in Sub : child'[m][t] = child[m][t]
    BY <1>2, <1>3 DEF Stores
  <1>6. loaded' \subseteq Body /\ loaded \subseteq loaded'
    BY <1>1 DEF MemoryInv, Locks
  <1>7. QED
    BY <1>2, <1>4, <1>5, <1>6 DEF Frame

LEMMA UnlockLocks ==
    ASSUME NEW up, NEW lv, NEW reg, NEW own, TreeInv(up, lv, reg, own), NEW w \in Item, Holds(w), ~Holds(w)',
           NEW p \in Cells, NEW s \in Sub, bt[w].locked = <<p, s>>, NEW x, x # LOCK, Stores(p, s, x),
           ts'.bottom = ts.bottom, NEW own2,
           Frame(w, up, lv, reg, own, up, lv, reg, own2)
    PROVE  LockInv(own2)'
  <1>1. LockInv(own) /\ MemoryInv
    BY DEF TreeInv
  <1>2. Item' = Item /\ Cells' = Cells /\ \A m \in Cells : m \in Node
    BY <1>1, CellFacts DEF Frame, Cells
  <1>3. ASSUME NEW m \in Cells, NEW t \in Sub, child'[m][t] = LOCK
        PROVE  own2[m] = NoItem /\ \E v \in Item : Holds(v)' /\ bt'[v].locked = <<m, t>>
    <2>1. child[m][t] = LOCK /\ <<m, t>> # <<p, s>>
      BY <1>2, <1>3 DEF Stores
    <2>2. own[m] = NoItem /\ \E v \in Item : Holds(v) /\ bt[v].locked = <<m, t>>
      BY <1>1, <2>1 DEF LockInv
    <2>3. PICK v \in Item : Holds(v) /\ bt[v].locked = <<m, t>>
      BY <2>2
    <2>4. Holds(v)' /\ bt'[v] = bt[v]
      BY <2>1, <2>3, OtherItem
    <2>5. own2[m] = NoItem
      BY <2>2, NoItemIsNone DEF Frame
    <2>6. QED
      BY <2>3, <2>4, <2>5
  <1>4. \A v, y \in Item : Holds(v)' /\ Holds(y)' /\ bt'[v].locked = bt'[y].locked => v = y
    <2>1. \A v \in Item : Holds(v)' => Holds(v) /\ bt'[v] = bt[v]
      BY OtherItem
    <2>2. QED
      BY <1>1, <2>1 DEF LockInv
  <1>5. QED
    BY <1>2, <1>3, <1>4 DEF LockInv

LEMMA InsertAction ==
    ASSUME ShapeInv, NumInv, NumInv', NEW up, NEW lv, NEW reg, NEW own, TreeInv(up, lv, reg, own),
           NEW w \in Item, Insert(w)
    PROVE  TreeInv(up, lv, reg, own)'
  <1>1. bt[w].pc = "insert" /\ Loaded(w, bt[w].i)
    BY DEF Insert, At
  <1>2. Holds(w) /\ ~Chains(w) /\ \A c : ~Filling(w, c)
    BY <1>1 DEF Holds, Chains, Holding, Chaining, Filling
  <1>3. /\ MemoryInv /\ CellInv(up, lv, reg) /\ LinkInv(up, own)
        /\ BodyInv(reg, own) /\ LockInv(own) /\ LoadedInv(reg, own)
        /\ ItemInv(up, lv, reg, own) /\ CoverInv(lv, own) /\ Locks(w, lv, reg, own)
    BY <1>2 DEF TreeInv, ItemInv
  <1>4. PICK p \in Cells, s \in Sub, i \in Body :
          /\ bt[w].locked = <<p, s>> /\ bt[w].i = i /\ own[p] = NoItem /\ child[p][s] = LOCK
          /\ i \in reg[p] /\ s = Oct(p, i)
    BY <1>3 DEF Locks
  <1>5. /\ ts' = ts /\ UNCHANGED <<mode, pos>> /\ Only(w)
        /\ child' = [child EXCEPT ![p][s] = i] /\ loaded' = loaded \cup {i}
        /\ Begins(w, i + Inc, Larger(bt[w].depth, bt[w].maxd))
        /\ bt'[w].pc \in {"barrier", "while"}
    <2>1. PICK x : x = bt[w].i
      OBVIOUS
    <2>2. Loaded(w, x)
      BY <1>1, <2>1
    <2>3. /\ ts' = ts /\ UNCHANGED <<mode, pos>> /\ Only(w) /\ loaded' = loaded \cup {bt[w].i}
          /\ child' = [child EXCEPT ![bt[w].locked[1]][bt[w].locked[2]] = x]
          /\ Begins(w, bt[w].i + Inc, Larger(bt[w].depth, bt[w].maxd))
          /\ bt'[w].pc \in {"barrier", "while"}
      BY <2>2, LoadedDoes
    <2>4. QED
      BY <1>4, <2>1, <2>3
  <1>6. /\ Item' = Item /\ Cells' = Cells /\ \A m, b : Oct(m, b)' = Oct(m, b)
        /\ \A m \in Cells : m \in Node
    BY <1>3, <1>5, SameItems, OctKept, CellFacts DEF Cells
  <1>7. i \in Node /\ i \in Nat /\ ~isCell(LOCK) /\ i # LOCK /\ ~isCell(i)
    BY NodeAssumption DEF isCell, Body, Node, LOCK
  <1>8. Stores(p, s, i)
    BY <1>3, <1>5, <1>6, <1>7, SlotStored
  <1>9. \A c \in Cells : own[c] # w
    BY <1>2, <1>3, NoItemIsNone DEF ItemInv
  <1>10. Frame(w, up, lv, reg, own, up, lv, reg, own)
    BY <1>2, <1>4, <1>5, <1>8, <1>9, UnlockFrame
  <1>11. \A v \in Item : v # w =>
           /\ bt'[v] = bt[v] /\ (Chains(v)' <=> Chains(v))
           /\ Chains(v) => Was(v)' = Was(v)
    BY <1>10, OtherItem
  <1>12. /\ MemoryInv' /\ CellInv(up, lv, reg)' /\ LinkInv(up, own)' /\ UniqueInv(reg, own)' /\ FullInv(own)'
         /\ \A m \in Cells : \A b : isCell(Leads(m, b)) => isCell(Leads(m, b)')
    BY <1>1, <1>2, <1>4, <1>5, <1>7, <1>8, <1>10, StoreStep
  <1>13. ~Holds(w)' /\ Walks(w, lv, reg, own)'
    <2>1. i + Inc \in Nat
      BY <1>7, IncNat
    <2>2. lv[NNode] = 1 /\ reg[NNode] = Body /\ own[NNode] = NoItem
      BY <1>3 DEF CellInv, LinkInv
    <2>3. QED
      BY <1>3, <1>5, <2>1, <2>2, BeginsWalks
  <1>14. LockInv(own)'
    BY <1>2, <1>4, <1>5, <1>7, <1>8, <1>10, <1>13, UnlockLocks
  <1>15. BodyInv(reg, own)'
    <2>1. ASSUME NEW m \in Cells, NEW t \in Sub, child'[m][t] \in Body
          PROVE  /\ Oct(m, child'[m][t]) = t /\ child'[m][t] \in reg[m]
                 /\ own[m] = NoItem => child'[m][t] \in loaded'
                 /\ own[m] # NoItem => child'[m][t] \in {bt'[own[m]].i, Was(own[m])'}
      <3>1. CASE m = p /\ t = s
        BY <1>4, <1>5, <1>8, <3>1 DEF Stores
      <3>2. CASE m # p \/ t # s
        <4>1. child'[m][t] = child[m][t]
          BY <1>6, <1>8, <3>2 DEF Stores
        <4>2. own[m] # NoItem => bt'[own[m]] = bt[own[m]] /\ Was(own[m])' = Was(own[m])
          BY <1>3, <1>9, <1>11 DEF ItemInv
        <4>3. QED
          BY <1>3, <1>5, <2>1, <4>1, <4>2 DEF BodyInv
      <3>3. QED
        BY <3>1, <3>2
    <2>2. QED
      BY <1>6, <2>1 DEF BodyInv
  <1>16. LoadedInv(reg, own)'
    <2>1. ASSUME NEW b \in loaded', NEW m \in Cells, own[m] = NoItem, b \in reg[m]
          PROVE  \/ isCell(Leads(m, b)') \/ Leads(m, b)' = b
                 \/ \E v \in Item : Chains(v)' /\ bt'[v].locked = <<m, Oct(m, b)>> /\ Was(v)' = b
      <3>1. CASE b = i
        <4>1. m = p => Leads(m, b)' = b
          BY <1>4, <1>6, <1>8, <3>1 DEF Stores, Leads
        <4>2. m # p => isCell(Leads(m, b))
          BY <1>2, <1>4, <2>1, <3>1, LockedWay
        <4>3. QED
          BY <1>12, <4>1, <4>2
      <3>2. CASE b \in loaded
        <4>1. CASE isCell(Leads(m, b))
          BY <1>12, <4>1
        <4>2. CASE Leads(m, b) = b
          <5>1. ~(m = p /\ Oct(m, b) = s)
            BY <1>3, <1>4, <3>2, <4>2, NodeAssumption DEF Leads, MemoryInv, Body, LOCK
          <5>2. QED
            BY <1>6, <1>8, <4>2, <5>1, OctRange DEF Leads, Stores
        <4>3. CASE \E v \in Item : Chains(v) /\ bt[v].locked = <<m, Oct(m, b)>> /\ Was(v) = b
          BY <1>2, <1>11, <4>3
        <4>4. QED
          BY <1>3, <2>1, <3>2, <4>1, <4>2, <4>3 DEF LoadedInv
      <3>3. QED
        BY <1>5, <2>1, <3>1, <3>2
    <2>2. QED
      BY <1>6, <2>1 DEF LoadedInv, isCell
  <1>17. ItemInv(up, lv, reg, own)'
    BY <1>6, <1>9, <1>10, <1>13, ChainsHold, FrameItems DEF Holds, Chains, Holding
  <1>18. CoverInv(lv, own)'
    <2>1. bt[w].maxd <= bt'[w].maxd /\ ts.maxDepth <= ts'.maxDepth /\ bt'[w].pc # "exit"
      BY <1>5 DEF NumInv, Begins, Larger
    <2>2. \A v \in {w} : bt[v].pc # "exit" => \/ bt'[v].pc # "exit" /\ bt[v].maxd <= bt'[v].maxd
                                              \/ bt[v].maxd <= ts'.maxDepth
      BY <2>1
    <2>3. lv \in [Node -> Nat] /\ {w} \in SUBSET Item /\ \A v \in Item \ {w} : bt'[v] = bt[v]
      BY <1>3, <1>5 DEF CellInv, Only
    <2>4. QED
      BY <1>3, <1>5, <2>1, <2>2, <2>3, CoverStep
  <1>19. QED
    BY <1>12, <1>14, <1>15, <1>16, <1>17, <1>18 DEF TreeInv

LEMMA LinkAction ==
    ASSUME ShapeInv, NumInv, NumInv', NEW up, NEW lv, NEW reg, NEW own, TreeInv(up, lv, reg, own),
           NEW w \in Item, Link(w)
    PROVE  TreeInv(up, lv, reg, own)'
  <1>1. /\ UNCHANGED <<mode, pos, loaded, ts>> /\ Only(w) /\ Keeps(w)
        /\ bt[w].pc = "link" /\ bt'[w].pc = "publish"
    BY LinkDoes DEF Relabels, Only
  <1>2. Holds(w) /\ Chains(w) /\ Holds(w)' /\ Chains(w)' /\ \A c : ~Filling(w, c) /\ ~Filling(w, c)'
    BY <1>1 DEF Holds, Chains, Holding, Chaining, Filling
  <1>3. /\ MemoryInv /\ CellInv(up, lv, reg) /\ LinkInv(up, own)
        /\ BodyInv(reg, own) /\ LockInv(own) /\ LoadedInv(reg, own)
        /\ ItemInv(up, lv, reg, own) /\ CoverInv(lv, own)
        /\ Locks(w, lv, reg, own) /\ Chain(w, up, lv, reg, own) /\ Walks(w, lv, reg, own)
    BY <1>2 DEF TreeInv, ItemInv
  <1>4. bt[w].patch # -1 /\ ChainEnds(w, up, own) /\ own[bt[w].n] = w
    BY <1>1, <1>3 DEF Chain, NoChain, ChainEnds
  <1>5. PICK n \in Cells, j \in Sub, i \in Body :
          /\ n = bt[w].n /\ j = bt[w].j /\ i = bt[w].i /\ own[n] = w /\ child[n][j] = NULL_BODY
          /\ i \in reg[n] /\ j = Oct(n, i) /\ 1 - j \in Sub /\ 1 - j # j
    <2>1. bt[w].n \in Cells /\ bt[w].i \in Body /\ bt[w].j = Oct(bt[w].n, bt[w].i) /\ bt[w].j \in Sub
      BY <1>3, OctRange DEF Locks
    <2>2. bt[w].i \in reg[bt[w].n] /\ child[bt[w].n][bt[w].j] = NULL_BODY
      BY <1>1, <1>2, <1>3, <1>4, <2>1 DEF Chain, ChainCell
    <2>3. 1 - bt[w].j \in Sub /\ 1 - bt[w].j # bt[w].j
      BY <2>1 DEF Sub
    <2>4. QED
      BY <1>4, <2>1, <2>2, <2>3
  <1>6. /\ Item' = Item /\ Cells' = Cells /\ \A m, b : Oct(m, b)' = Oct(m, b)
        /\ \A m \in Cells : m \in Node
    BY <1>1, <1>3, SameItems, OctKept, CellFacts DEF Cells
  <1>7. /\ i \in Node /\ ~isCell(NULL_BODY) /\ ~isCell(i) /\ NULL_BODY \notin Body
        /\ LOCK \notin Body /\ LOCK # NULL_BODY
    BY NodeAssumption DEF isCell, Body, Node, NULL_BODY, LOCK
  <1>8. Stores(n, j, i)
    <2>1. child' = [child EXCEPT ![n][j] = i]
      BY <1>5, LinkDoes
    <2>2. QED
      BY <1>3, <1>6, <1>7, <2>1, SlotStored
  <1>9. Was(w)' = Was(w) /\ Was(w) = child[n][1 - j]
    BY <1>1, <1>5, <1>6, <1>8 DEF Was, Keeps, Stores
  <1>10. Frame(w, up, lv, reg, own, up, lv, reg, own)
    <2>1. ASSUME NEW v \in Item, v # w, Holds(v)
          PROVE  bt[v].i \notin loaded' /\ child'[bt[v].locked[1]][bt[v].locked[2]] = LOCK
      <3>1. PICK q \in Cells, t \in Sub : /\ bt[v].locked = <<q, t>> /\ child[q][t] = LOCK
                                          /\ bt[v].i \notin loaded
        BY <1>3, <2>1 DEF ItemInv, Locks
      <3>2. QED
        BY <1>1, <1>5, <1>6, <1>7, <1>8, <3>1 DEF Stores
    <2>2. \A m \in Cells : own[m] \notin {w, NoItem} => \A t \in Sub : child'[m][t] = child[m][t]
      BY <1>5, <1>6, <1>8 DEF Stores
    <2>3. loaded' \subseteq Body /\ loaded \subseteq loaded'
      BY <1>1, <1>3 DEF MemoryInv
    <2>4. QED
      BY <1>1, <1>6, <2>1, <2>2, <2>3 DEF Frame
  <1>11. \A v \in Item : /\ bt'[v].locked = bt[v].locked /\ bt'[v].i = bt[v].i
                         /\ (Holds(v)' <=> Holds(v)) /\ (Chains(v)' <=> Chains(v))
                         /\ Chains(v) => Was(v)' = Was(v)
    <2>1. bt'[w].locked = bt[w].locked /\ bt'[w].i = bt[w].i
      BY <1>1 DEF Keeps
    <2>2. QED
      BY <1>2, <1>9, <1>10, <2>1, OtherItem
  <1>12. /\ MemoryInv' /\ CellInv(up, lv, reg)' /\ LinkInv(up, own)' /\ UniqueInv(reg, own)' /\ FullInv(own)'
         /\ \A m \in Cells : \A b : isCell(Leads(m, b)) => isCell(Leads(m, b)')
    BY <1>1, <1>2, <1>5, <1>7, <1>8, <1>10, <1>11, StoreStep
  <1>13. LockInv(own)'
    <2>1. \A m \in Cells, t \in Sub : child'[m][t] = LOCK => child[m][t] = LOCK
      BY <1>5, <1>6, <1>7, <1>8 DEF Stores
    <2>2. QED
      <3>1. \A m \in Cells, t \in Sub : child'[m][t] = LOCK =>
              own[m] = NoItem /\ \E v \in Item : Holds(v)' /\ bt'[v].locked = <<m, t>>
        BY <1>3, <1>11, <2>1 DEF LockInv
      <3>2. \A v, y \in Item : Holds(v)' /\ Holds(y)' /\ bt'[v].locked = bt'[y].locked => v = y
        BY <1>3, <1>11 DEF LockInv
      <3>3. QED
        BY <1>6, <3>1, <3>2 DEF LockInv
  <1>14. BodyInv(reg, own)'
    <2>1. ASSUME NEW m \in Cells, NEW t \in Sub, child'[m][t] \in Body
          PROVE  /\ Oct(m, child'[m][t]) = t /\ child'[m][t] \in reg[m]
                 /\ own[m] = NoItem => child'[m][t] \in loaded'
                 /\ own[m] # NoItem => child'[m][t] \in {bt'[own[m]].i, Was(own[m])'}
      <3>0. w # NoItem
        BY NoItemIsNone
      <3>1. CASE m = n /\ t = j
        BY <1>5, <1>8, <1>11, <3>0, <3>1 DEF Stores
      <3>2. CASE m # n \/ t # j
        <4>1. child'[m][t] = child[m][t]
          BY <1>6, <1>8, <3>2 DEF Stores
        <4>2. own[m] # NoItem => bt'[own[m]].i = bt[own[m]].i /\ Was(own[m])' = Was(own[m])
          BY <1>3, <1>11 DEF ItemInv
        <4>3. QED
          BY <1>1, <1>3, <2>1, <4>1, <4>2 DEF BodyInv
      <3>3. QED
        BY <3>1, <3>2
    <2>2. QED
      BY <1>6, <2>1 DEF BodyInv
  <1>15. LoadedInv(reg, own)'
    <2>1. ASSUME NEW b \in loaded, NEW m \in Cells, own[m] = NoItem, b \in reg[m]
          PROVE  \/ isCell(Leads(m, b)') \/ Leads(m, b)' = b
                 \/ \E v \in Item : Chains(v)' /\ bt'[v].locked = <<m, Oct(m, b)>> /\ Was(v)' = b
      <3>1. m # n
        BY <1>5, <2>1, NoItemIsNone
      <3>2. Leads(m, b)' = Leads(m, b)
        BY <1>6, <1>8, <3>1, OctRange DEF Leads, Stores
      <3>3. QED
        BY <1>3, <1>11, <2>1, <3>2 DEF LoadedInv
    <2>2. QED
      BY <1>1, <1>6, <2>1 DEF LoadedInv, isCell
  <1>16. Walks(w, lv, reg, own)'
    <2>1. bt'[w].pc \in Labels
      BY <1>1 DEF Labels, Holding, Chaining
    <2>2. QED
      BY <1>1, <1>2, <1>3, <2>1 DEF Walks, Keeps
  <1>17. Locks(w, lv, reg, own)'
    <2>1. child'[bt[w].locked[1]][bt[w].locked[2]] = LOCK
      <3>1. PICK q \in Cells, t \in Sub : bt[w].locked = <<q, t>> /\ child[q][t] = LOCK
        BY <1>3 DEF Locks
      <3>2. QED
        BY <1>5, <1>6, <1>7, <1>8, <3>1 DEF Stores
    <2>2. QED
      BY <1>1, <1>2, <1>3, <1>6, <1>9, <2>1 DEF Locks, Keeps
  <1>18. Chain(w, up, lv, reg, own)'
    <2>1. ASSUME NEW c \in Cells, own[c] = w
          PROVE  ChainCell(w, c, up, lv, reg)'
      <3>1. ChainCell(w, c, up, lv, reg) /\ c \in Node /\ isCell(c) /\ c # NNode
        BY <1>3, <2>1, CellFacts, NoItemIsNone DEF Chain, LinkInv
      <3>2. up[c][1] \in Cells /\ up[c][2] \in Sub
        BY <1>3, <3>1 DEF CellInv
      <3>3. child[up[c][1]][up[c][2]] = c => child'[up[c][1]][up[c][2]] = c
        BY <1>5, <1>6, <1>7, <1>8, <3>1, <3>2 DEF Stores
      <3>4. PICK u \in Body : u = Was(w) /\ u = Was(w)'
        BY <1>2, <1>3, <1>9 DEF Locks, MemoryInv
      <3>5. Leads(c, u) = u => Leads(c, u)' = u
        BY <1>5, <1>6, <1>7, <1>8, <3>4, OctRange DEF Leads, Stores
      <3>6. isCell(Leads(c, u)) => isCell(Leads(c, u)')
        BY <1>12
      <3>7. QED
        BY <1>1, <1>2, <1>6, <3>1, <3>3, <3>4, <3>5, <3>6 DEF ChainCell, Keeps, isCell
    <2>2. ChainEnds(w, up, own)'
      BY <1>1, <1>2, <1>4, <1>6 DEF ChainEnds, Keeps
    <2>3. bt'[w].patch # -1 /\ child'[bt'[w].n][bt'[w].j] = bt'[w].i
      BY <1>1, <1>4, <1>5, <1>8 DEF Keeps, Stores
    <2>4. QED
      BY <1>1, <1>6, <2>1, <2>2, <2>3 DEF Chain
  <1>19. ItemInv(up, lv, reg, own)'
    BY <1>2, <1>10, <1>16, <1>17, <1>18, FrameItems
  <1>20. CoverInv(lv, own)'
    <2>1. bt[w].maxd <= bt'[w].maxd /\ ts.maxDepth <= ts'.maxDepth /\ bt'[w].pc # "exit"
      BY <1>1 DEF NumInv, Keeps
    <2>2. \A v \in {w} : bt[v].pc # "exit" => \/ bt'[v].pc # "exit" /\ bt[v].maxd <= bt'[v].maxd
                                              \/ bt[v].maxd <= ts'.maxDepth
      BY <2>1
    <2>3. lv \in [Node -> Nat] /\ {w} \in SUBSET Item /\ \A v \in Item \ {w} : bt'[v] = bt[v]
      BY <1>1, <1>3 DEF CellInv, Only
    <2>4. QED
      BY <1>1, <1>3, <2>1, <2>2, <2>3, CoverStep
  <1>21. QED
    BY <1>12, <1>13, <1>14, <1>15, <1>19, <1>20 DEF TreeInv

LEMMA PublishAction ==
    ASSUME ShapeInv, NumInv, NumInv', NEW up, NEW lv, NEW reg, NEW own, TreeInv(up, lv, reg, own),
           NEW w \in Item, Publish(w),
           NEW own2, own2 = [c \in Node |-> IF own[c] = w THEN NoItem ELSE own[c]]
    PROVE  TreeInv(up, lv, reg, own2)'
  <1>1. bt[w].pc = "publish" /\ Loaded(w, bt[w].patch)
    BY DEF Publish, At
  <1>2. Holds(w) /\ Chains(w) /\ \A c : ~Filling(w, c)
    BY <1>1 DEF Holds, Chains, Holding, Chaining, Filling
  <1>3. /\ MemoryInv /\ CellInv(up, lv, reg) /\ LinkInv(up, own) /\ UniqueInv(reg, own)
        /\ BodyInv(reg, own) /\ LockInv(own) /\ LoadedInv(reg, own) /\ FullInv(own)
        /\ ItemInv(up, lv, reg, own) /\ CoverInv(lv, own)
        /\ Locks(w, lv, reg, own) /\ Chain(w, up, lv, reg, own)
    BY <1>2 DEF TreeInv, ItemInv
  <1>4. PICK p \in Cells, s \in Sub, i \in Body, u \in Body :
          /\ bt[w].locked = <<p, s>> /\ bt[w].i = i /\ own[p] = NoItem /\ child[p][s] = LOCK
          /\ i \in reg[p] /\ s = Oct(p, i) /\ Was(w) = u /\ u \in loaded
    BY <1>2, <1>3 DEF Locks, MemoryInv
  <1>5. PICK x \in Cells, n \in Cells, j \in Sub :
          /\ bt[w].patch = x /\ n = bt[w].n /\ j = bt[w].j /\ x # NNode /\ own[x] = w /\ own[n] = w
          /\ up[x] = <<p, s>> /\ j = Oct(n, i) /\ child[n][j] = i
          /\ \A c \in Cells : own[c] = w => n <= c /\ c <= x
    <2>1. bt[w].patch # -1 /\ ChainEnds(w, up, own) /\ child[bt[w].n][bt[w].j] = bt[w].i
      BY <1>1, <1>3 DEF Chain, NoChain
    <2>2. bt[w].n \in Cells /\ bt[w].j = Oct(bt[w].n, bt[w].i) /\ bt[w].j \in Sub
      BY <1>3, OctRange DEF Locks
    <2>3. QED
      BY <1>2, <1>4, <2>1, <2>2 DEF ChainEnds
  <1>6. /\ ts' = ts /\ UNCHANGED <<mode, pos>> /\ Only(w)
        /\ child' = [child EXCEPT ![p][s] = x] /\ loaded' = loaded \cup {i}
        /\ Begins(w, i + Inc, Larger(bt[w].depth, bt[w].maxd))
        /\ bt'[w].pc \in {"barrier", "while"}
    <2>1. Loaded(w, x)
      BY <1>1, <1>5
    <2>2. /\ ts' = ts /\ UNCHANGED <<mode, pos>> /\ Only(w) /\ loaded' = loaded \cup {bt[w].i}
          /\ child' = [child EXCEPT ![bt[w].locked[1]][bt[w].locked[2]] = x]
          /\ Begins(w, bt[w].i + Inc, Larger(bt[w].depth, bt[w].maxd))
          /\ bt'[w].pc \in {"barrier", "while"}
      BY <2>1, LoadedDoes
    <2>3. QED
      BY <1>4, <2>2
  <1>7. /\ Item' = Item /\ Cells' = Cells /\ \A m, b : Oct(m, b)' = Oct(m, b)
        /\ \A m \in Cells : m \in Node /\ m \in Nat /\ isCell(m)
    BY <1>3, <1>6, SameItems, OctKept, CellFacts DEF Cells
  <1>8. /\ i \in Nat /\ ~isCell(LOCK) /\ ~isCell(NULL_BODY) /\ x \notin Body /\ x # LOCK /\ x # NULL_BODY
        /\ LOCK \notin Body /\ i # NULL_BODY /\ u # NULL_BODY
    BY <1>7, NodeAssumption DEF isCell, Body, NULL_BODY, LOCK
  <1>9. Stores(p, s, x)
    BY <1>3, <1>6, <1>7, SlotStored
  <1>10. \A m \in Cells : own2[m] = IF own[m] = w THEN NoItem ELSE own[m]
    BY <1>7
  <1>11. Frame(w, up, lv, reg, own, up, lv, reg, own2)
    BY <1>2, <1>4, <1>6, <1>9, <1>10, UnlockFrame
  <1>12. \A v \in Item : v # w =>
           /\ bt'[v] = bt[v] /\ (Chains(v)' <=> Chains(v)) /\ (Chains(v) => Was(v)' = Was(v))
           /\ \A c : Filling(v, c)' <=> Filling(v, c)
    BY <1>11, OtherItem
  <1>13. ~Holds(w)' /\ Walks(w, lv, reg, own2)'
    <2>1. i + Inc \in Nat
      BY <1>8, IncNat
    <2>2. lv[NNode] = 1 /\ reg[NNode] = Body /\ own2[NNode] = NoItem
      BY <1>3, <1>10, CellFacts DEF CellInv, LinkInv
    <2>3. QED
      BY <1>3, <1>6, <2>1, <2>2, BeginsWalks
  <1>14. LockInv(own2)'
    BY <1>2, <1>4, <1>6, <1>8, <1>9, <1>11, <1>13, UnlockLocks
  <1>15. \A m \in Cells, t \in Sub : isCell(child[m][t]) => child'[m][t] = child[m][t]
    BY <1>4, <1>7, <1>8, <1>9 DEF Stores
  <1>16. \A m \in Cells : \A b : isCell(Leads(m, b)) => isCell(Leads(m, b)')
    BY <1>7, <1>15, OctRange DEF Leads
  <1>17. \A m \in Cells, b \in Body : Leads(m, b) = b => Leads(m, b)' = b
    <2>1. ASSUME NEW m \in Cells, NEW b \in Body, Leads(m, b) = b
          PROVE  Leads(m, b)' = b
      <3>1. ~(m = p /\ Oct(m, b) = s)
        BY <1>4, <1>8, <2>1 DEF Leads
      <3>2. QED
        BY <1>7, <1>9, <2>1, <3>1, OctRange DEF Leads, Stores
    <2>2. QED
      BY <2>1
  <1>18. \A b : Oct(p, b) = s => isCell(Leads(p, b)')
    BY <1>7, <1>9 DEF Stores, Leads
  <1>19. \A c \in Cells : own[c] = w =>
           /\ c # NNode /\ lv[c] <= bt[w].depth /\ c < p /\ i \in reg[c] /\ u \in reg[c]
           /\ \A b \in reg[c] : b \in reg[p] /\ Oct(p, b) = s
           /\ c = x \/ child[up[c][1]][up[c][2]] = c
           /\ isCell(Leads(c, u)) \/ Leads(c, u) = u
    <2>1. x < p
      BY <1>3, <1>4, <1>5 DEF CellInv
    <2>2. ASSUME NEW c \in Cells, own[c] = w
          PROVE  ChainCell(w, c, up, lv, reg) /\ c # NNode /\ c < p
      <3>1. ChainCell(w, c, up, lv, reg)
        BY <1>3, <2>2 DEF Chain
      <3>2. c # NNode
        BY <1>3, <2>2, NoItemIsNone DEF LinkInv
      <3>3. c <= x /\ c \in Nat /\ x \in Nat /\ p \in Nat
        BY <1>5, <1>7, <2>2
      <3>4. QED
        BY <2>1, <3>1, <3>2, <3>3
    <2>3. ASSUME NEW c \in Cells, own[c] = w
          PROVE  /\ lv[c] <= bt[w].depth /\ i \in reg[c] /\ u \in reg[c]
                 /\ \A b \in reg[c] : b \in reg[p] /\ Oct(p, b) = s
                 /\ c = x \/ child[up[c][1]][up[c][2]] = c
                 /\ isCell(Leads(c, u)) \/ Leads(c, u) = u
      <3>1. ChainCell(w, c, up, lv, reg) /\ ~Filling(w, c)
        BY <1>2, <2>2, <2>3
      <3>2. bt[w].locked[1] = p /\ bt[w].locked[2] = s
        BY <1>4
      <3>3. QED
        BY <1>4, <1>5, <3>1, <3>2 DEF ChainCell
    <2>4. QED
      BY <2>2, <2>3
  <1>20. \A c \in Cells : own[c] = w /\ c # n => isCell(Leads(c, i))
    <2>1. SUFFICES ASSUME NEW c \in Cells, own[c] = w, c # n
                   PROVE  isCell(Leads(c, i))
      OBVIOUS
    <2>2. n < c /\ i \in reg[c] /\ i \in reg[n]
      BY <1>5, <1>7, <1>19, <2>1
    <2>3. \A v \in Item : ~Filling(v, n)
      <3>1. SUFFICES ASSUME NEW v \in Item, Filling(v, n)
                     PROVE  FALSE
        OBVIOUS
      <3>2. bt[v].pc = "fill" /\ Chains(v) /\ bt[v].cell = n
        BY <3>1 DEF Filling, Chains, Chaining
      <3>3. own[n] = v
        BY <1>3, <3>2 DEF ItemInv, Chain, ChainFill
      <3>4. QED
        BY <1>2, <1>5, <3>1, <3>3
    <2>4. QED
      BY <1>3, <1>5, <2>1, <2>2, <2>3 DEF UniqueInv
  <1>21. MemoryInv' /\ CellInv(up, lv, reg)'
    <2>1. loaded' \subseteq Body
      BY <1>11 DEF Frame
    <2>2. QED
      BY <1>3, <1>6, <1>7, <1>9, <2>1 DEF MemoryInv, CellInv, Stores
  <1>22. LinkInv(up, own2)'
    <2>1. own2 = [c \in Node |-> own2[c]] /\ own2[NNode] = NoItem
      BY <1>3, <1>10, CellFacts DEF LinkInv
    <2>2. ASSUME NEW m \in Cells, NEW t \in Sub, isCell(child'[m][t])
          PROVE  /\ child'[m][t] \in Cells /\ child'[m][t] # NNode
                 /\ up[child'[m][t]] = <<m, t>> /\ own2[child'[m][t]] = own2[m]
      <3>1. CASE m = p /\ t = s
        BY <1>4, <1>5, <1>9, <1>10, <3>1 DEF Stores
      <3>2. CASE m # p \/ t # s
        <4>1. child'[m][t] = child[m][t]
          BY <1>7, <1>9, <3>2 DEF Stores
        <4>2. /\ child[m][t] \in Cells /\ child[m][t] # NNode
              /\ up[child[m][t]] = <<m, t>> /\ own[child[m][t]] = own[m]
          BY <1>3, <2>2, <4>1 DEF LinkInv
        <4>3. own2[child[m][t]] = own2[m]
          BY <1>10, <4>2
        <4>4. QED
          BY <4>1, <4>2, <4>3
      <3>3. QED
        BY <3>1, <3>2
    <2>3. \A m \in Node, t \in Sub : isCell(m) /\ m < ts'.bottom => child'[m][t] = NULL_BODY
      BY <1>3, <1>6, <1>9, NodeAssumption DEF LinkInv, Cells, MemoryInv, Stores
    <2>4. ASSUME NEW c \in Cells, c # NNode, own2[c] = NoItem
          PROVE  child'[up[c][1]][up[c][2]] = c
      <3>1. up[c][1] \in Cells /\ up[c][2] \in Sub /\ isCell(c)
        BY <1>3, <1>7, <2>4 DEF CellInv
      <3>2. CASE child[up[c][1]][up[c][2]] = c
        BY <1>15, <3>1, <3>2
      <3>3. CASE c = x
        BY <1>5, <1>9, <3>3 DEF Stores
      <3>4. QED
        BY <1>3, <1>10, <1>19, <2>4, <3>2, <3>3 DEF LinkInv
    <2>5. \A m \in Cells', t \in Sub : isCell(child'[m][t]) =>
            /\ child'[m][t] \in Cells' /\ child'[m][t] # NNode
            /\ up[child'[m][t]] = <<m, t>> /\ own2[child'[m][t]] = own2[m]
      BY <1>7, <2>2
    <2>6. \A c \in Cells' : c # NNode /\ own2[c] = NoItem => child'[up[c][1]][up[c][2]] = c
      BY <1>7, <2>4
    <2>7. QED
      BY <2>1, <2>3, <2>5, <2>6 DEF LinkInv
  <1>23. UniqueInv(reg, own2)'
    <2>1. ASSUME NEW m \in Cells, NEW l \in Cells, l < m, own2[l] = own2[m], NEW b, b \in reg[m], b \in reg[l]
          PROVE  isCell(Leads(m, b)') \/ \E v \in Item : Filling(v, l)'
      <3>1. CASE own[l] = own[m]
        BY <1>2, <1>3, <1>12, <1>16, <2>1, <3>1 DEF UniqueInv
      <3>2. CASE own[l] = w /\ own[m] = NoItem
        <4>1. b \in reg[p] /\ Oct(p, b) = s
          BY <1>19, <2>1, <3>2
        <4>2. m = p \/ isCell(Leads(m, b))
          BY <1>2, <1>4, <2>1, <3>2, <4>1, LockedWay
        <4>3. QED
          BY <1>16, <1>18, <4>1, <4>2
      <3>3. CASE own[l] = NoItem /\ own[m] = w
        <4>1. b \in reg[p] /\ Oct(p, b) = s /\ m < p
          BY <1>19, <2>1, <3>3
        <4>2. l = p \/ p < l
          BY <1>2, <1>4, <2>1, <3>3, <4>1, LockedWay
        <4>3. QED
          BY <1>7, <2>1, <4>1, <4>2
      <3>4. QED
        BY <1>10, <2>1, <3>1, <3>2, <3>3
    <2>2. QED
      BY <1>7, <2>1 DEF UniqueInv, isCell
  <1>24. BodyInv(reg, own2)'
    <2>1. ASSUME NEW m \in Cells, NEW t \in Sub, child'[m][t] \in Body
          PROVE  /\ Oct(m, child'[m][t]) = t /\ child'[m][t] \in reg[m]
                 /\ own2[m] = NoItem => child'[m][t] \in loaded'
                 /\ own2[m] # NoItem => child'[m][t] \in {bt'[own2[m]].i, Was(own2[m])'}
      <3>1. child'[m][t] = child[m][t]
        BY <1>7, <1>8, <1>9, <2>1 DEF Stores
      <3>2. /\ Oct(m, child[m][t]) = t /\ child[m][t] \in reg[m]
            /\ own[m] = NoItem => child[m][t] \in loaded
            /\ own[m] # NoItem => child[m][t] \in {bt[own[m]].i, Was(own[m])}
        BY <1>3, <2>1, <3>1 DEF BodyInv
      <3>3. own[m] = w => child[m][t] \in loaded'
        BY <1>4, <1>6, <3>2, NoItemIsNone
      <3>4. own[m] \notin {w, NoItem} => bt'[own[m]] = bt[own[m]] /\ Was(own[m])' = Was(own[m])
        BY <1>3, <1>12 DEF ItemInv
      <3>5. QED
        BY <1>6, <1>10, <3>1, <3>2, <3>3, <3>4
    <2>2. QED
      BY <1>7, <2>1 DEF BodyInv
  <1>25. LoadedInv(reg, own2)'
    <2>1. ASSUME NEW b \in loaded', NEW m \in Cells, own2[m] = NoItem, b \in reg[m]
          PROVE  \/ isCell(Leads(m, b)') \/ Leads(m, b)' = b
                 \/ \E v \in Item : Chains(v)' /\ bt'[v].locked = <<m, Oct(m, b)>> /\ Was(v)' = b
      <3>1. CASE own[m] = NoItem /\ b = i
        <4>1. m = p \/ isCell(Leads(m, b))
          BY <1>2, <1>4, <2>1, <3>1, LockedWay
        <4>2. QED
          BY <1>4, <1>16, <1>18, <3>1, <4>1
      <3>2. CASE own[m] = NoItem /\ b \in loaded
        <4>1. CASE isCell(Leads(m, b)) \/ Leads(m, b) = b
          BY <1>3, <1>16, <1>17, <3>2, <4>1 DEF MemoryInv
        <4>2. CASE \E v \in Item : Chains(v) /\ bt[v].locked = <<m, Oct(m, b)>> /\ Was(v) = b
          <5>1. PICK v \in Item : Chains(v) /\ bt[v].locked = <<m, Oct(m, b)>> /\ Was(v) = b
            BY <4>2
          <5>2. v = w => m = p /\ Oct(p, b) = s
            BY <1>4, <5>1
          <5>3. v # w => Chains(v)' /\ bt'[v].locked = <<m, Oct(m, b)>> /\ Was(v)' = b
            BY <1>12, <5>1
          <5>4. QED
            BY <1>18, <5>2, <5>3
        <4>3. QED
          BY <1>3, <2>1, <3>2, <4>1, <4>2 DEF LoadedInv
      <3>3. CASE own[m] = w /\ b = i
        BY <1>5, <1>8, <1>16, <1>17, <1>20, <3>3 DEF Leads
      <3>4. CASE own[m] = w /\ b \in loaded
        <4>1. b \in reg[p] /\ Oct(p, b) = s
          BY <1>19, <2>1, <3>4
        <4>2. ~isCell(Leads(p, b)) /\ Leads(p, b) # b
          BY <1>3, <1>4, <1>8, <3>4, <4>1 DEF Leads, MemoryInv
        <4>3. PICK v \in Item : Chains(v) /\ bt[v].locked = <<p, s>> /\ Was(v) = b
          <5>1. \E v \in Item : Chains(v) /\ bt[v].locked = <<p, Oct(p, b)>> /\ Was(v) = b
            <6>1. p \in Cells /\ own[p] = NoItem /\ b \in loaded /\ b \in reg[p] /\ LoadedInv(reg, own)
              BY <1>3, <1>4, <3>4, <4>1
            <6>2. QED
              BY <4>2, <6>1 DEF LoadedInv
          <5>2. QED
            BY <4>1, <5>1
        <4>4. v = w
          BY <1>2, <1>3, <1>4, <4>3, ChainsHold DEF LockInv
        <4>5. b = u
          BY <1>4, <4>3, <4>4
        <4>6. QED
          BY <1>16, <1>17, <1>19, <3>4, <4>5
      <3>5. QED
        BY <1>6, <1>10, <2>1, <3>1, <3>2, <3>3, <3>4
    <2>2. QED
      BY <1>7, <2>1 DEF LoadedInv, isCell
  <1>26. FullInv(own2)'
    <2>1. ASSUME NEW c \in Cells, c # NNode, own2[c] = NoItem
          PROVE  \/ \E t \in Sub : isCell(child'[c][t]) \/ \E v \in Item : Chains(v)' /\ bt'[v].locked = <<c, t>>
                 \/ \A t \in Sub : child'[c][t] # NULL_BODY
      <3>1. CASE own[c] = NoItem
        <4>1. CASE \E t \in Sub : isCell(child[c][t])
          BY <1>15, <4>1
        <4>2. CASE \E t \in Sub : \E v \in Item : Chains(v) /\ bt[v].locked = <<c, t>>
          <5>1. PICK t \in Sub, v \in Item : Chains(v) /\ bt[v].locked = <<c, t>>
            BY <4>2
          <5>2. v = w => isCell(child'[p][s]) /\ c = p
            BY <1>4, <1>7, <1>9, <5>1 DEF Stores
          <5>3. v # w => Chains(v)' /\ bt'[v].locked = <<c, t>>
            BY <1>12, <5>1
          <5>4. QED
            BY <5>2, <5>3
        <4>3. CASE \A t \in Sub : child[c][t] # NULL_BODY
          BY <1>7, <1>8, <1>9, <4>3 DEF Stores
        <4>4. QED
          BY <1>3, <2>1, <3>1, <4>1, <4>2, <4>3 DEF FullInv
      <3>2. CASE own[c] = w /\ c # n
        <4>1. isCell(Leads(c, i)') /\ Oct(c, i) \in Sub /\ Leads(c, i)' = child'[c][Oct(c, i)]
          BY <1>7, <1>16, <1>20, <3>2, OctRange DEF Leads
        <4>2. QED
          BY <4>1
      <3>3. CASE c = n
        <4>1. child[n][1 - j] = u /\ n # p
          BY <1>1, <1>4, <1>5, NoItemIsNone DEF Was
        <4>2. \A t \in Sub : t = j \/ t = 1 - j
          BY DEF Sub
        <4>3. QED
          BY <1>5, <1>7, <1>8, <1>9, <3>3, <4>1, <4>2 DEF Stores
      <3>4. QED
        BY <1>10, <2>1, <3>1, <3>2, <3>3
    <2>2. QED
      BY <1>7, <2>1 DEF FullInv
  <1>27. ItemInv(up, lv, reg, own2)'
    <2>1. \A c \in Cells' : own2[c] # w
      BY <1>7, <1>10, NoItemIsNone
    <2>2. ~Chains(w)'
      BY <1>13 DEF Holds, Chains, Holding
    <2>3. QED
      BY <1>11, <1>13, <2>1, <2>2, FrameItems
  <1>28. CoverInv(lv, own2)'
    <2>1. /\ bt[w].maxd <= bt'[w].maxd /\ bt[w].depth <= bt'[w].maxd /\ bt'[w].pc # "exit"
          /\ bt[w].maxd \in Nat /\ bt'[w].maxd \in Nat /\ bt[w].depth \in Nat
      BY <1>6, <1>7 DEF NumInv, Begins, Larger
    <2>2. \A c \in Cells : lv[c] \in Nat
      BY <1>3, <1>7 DEF CellInv
    <2>3. ASSUME NEW c \in Cells, own2[c] = NoItem
          PROVE  lv[c] <= ts.maxDepth \/ \E v \in Item : bt'[v].pc # "exit" /\ lv[c] <= bt'[v].maxd
      <3>1. CASE own[c] = w
        <4>1. lv[c] <= bt'[w].maxd
          BY <1>19, <2>1, <2>2, <3>1
        <4>2. QED
          BY <2>1, <4>1
      <3>2. CASE own[c] = NoItem /\ \E v \in Item : bt[v].pc # "exit" /\ lv[c] <= bt[v].maxd
        <4>1. PICK v \in Item : bt[v].pc # "exit" /\ lv[c] <= bt[v].maxd
          BY <3>2
        <4>2. v = w => lv[c] <= bt'[w].maxd
          BY <2>1, <2>2, <4>1
        <4>3. v # w => bt'[v] = bt[v]
          BY <1>12
        <4>4. QED
          BY <2>1, <4>1, <4>2, <4>3
      <3>3. QED
        BY <1>3, <1>10, <2>3, <3>1, <3>2 DEF CoverInv
    <2>4. ts.maxDepth >= 1
      BY <1>3 DEF CoverInv
    <2>5. QED
      BY <1>6, <1>7, <2>3, <2>4 DEF CoverInv
  <1>29. QED
    BY <1>14, <1>21, <1>22, <1>23, <1>24, <1>25, <1>26, <1>27, <1>28 DEF TreeInv

\* The slot of the cell an item takes is the one it has come to, and all bodies
\* that belong there belong in the slot it has locked.
LEMMA NextSlot ==
    ASSUME NEW up, NEW lv, NEW reg, NEW own, TreeInv(up, lv, reg, own), NEW w \in Item,
           bt[w].pc \in {"alloc", "fill"}
    PROVE  /\ bt[w].n \in Cells /\ bt[w].j \in Sub /\ bt[w].i \in reg[bt[w].n] /\ Was(w) \in reg[bt[w].n]
           /\ bt[w].j = Oct(bt[w].n, bt[w].i) /\ bt[w].j = Oct(bt[w].n, Was(w))
           /\ own[bt[w].n] \in {w, NoItem} /\ (own[bt[w].n] = w <=> bt[w].patch # -1)
           /\ \A b \in reg[bt[w].n] : Oct(bt[w].n, b) = bt[w].j =>
                b \in reg[bt[w].locked[1]] /\ Oct(bt[w].locked[1], b) = bt[w].locked[2]
  <1>1. Holds(w) /\ Chains(w)
    BY DEF Holds, Chains, Holding, Chaining
  <1>2. Locks(w, lv, reg, own) /\ Chain(w, up, lv, reg, own) /\ BodyInv(reg, own) /\ MemoryInv
    BY <1>1 DEF TreeInv, ItemInv
  <1>3. bt[w].n \in Cells /\ bt[w].j = Oct(bt[w].n, bt[w].i) /\ bt[w].j \in Sub
    BY <1>2, OctRange DEF Locks
  <1>4. CASE bt[w].patch = -1
    <2>1. bt[w].locked = <<bt[w].n, bt[w].j>>
      BY <1>2, <1>4 DEF Chain, NoChain
    <2>2. own[bt[w].n] = NoItem
      BY <1>2, <2>1 DEF Locks
    <2>3. QED
      BY <1>1, <1>2, <1>3, <1>4, <2>1, <2>2, NoItemIsNone DEF Locks
  <1>5. CASE bt[w].patch # -1
    <2>1. ChainEnds(w, up, own)
      BY <1>2, <1>5 DEF Chain
    <2>2. own[bt[w].n] = w /\ ~Filling(w, bt[w].n) /\ child[bt[w].n][bt[w].j] = Was(w)
      BY <2>1 DEF ChainEnds
    <2>3. ChainCell(w, bt[w].n, up, lv, reg)
      BY <1>2, <1>3, <2>2 DEF Chain
    <2>4. Was(w) \in Body
      BY <1>1, <1>2 DEF Locks, MemoryInv
    <2>5. bt[w].j = Oct(bt[w].n, Was(w))
      BY <1>2, <1>3, <2>2, <2>4 DEF BodyInv
    <2>6. QED
      BY <1>3, <1>5, <2>2, <2>3, <2>5 DEF ChainCell
  <1>6. QED
    BY <1>4, <1>5

LEMMA AllocAction ==
    ASSUME ShapeInv, NumInv, NumInv', Fit', NEW up, NEW lv, NEW reg, NEW own, TreeInv(up, lv, reg, own),
           NEW w \in Item, Alloc(w)
    PROVE  \E up2, lv2, reg2, own2 : TreeInv(up2, lv2, reg2, own2)'
  <1>1. /\ UNCHANGED <<mode, pos, child, loaded>> /\ Only(w)
        /\ bt[w].pc = "alloc" /\ bt'[w].i = bt[w].i /\ bt'[w].n = bt[w].n
        /\ bt'[w].depth = bt[w].depth + 1 /\ bt'[w].maxd = bt[w].maxd /\ bt'[w].j = bt[w].j
        /\ bt'[w].ch = bt[w].ch /\ bt'[w].locked = bt[w].locked /\ bt'[w].patch = bt[w].patch
        /\ bt'[w].cell = ts.bottom - 1
        /\ ts'.bottom = ts.bottom - 1 /\ ts'.maxDepth = ts.maxDepth
    BY AllocDoes
  <1>2. ts.bottom - 1 > NBody /\ bt'[w].pc = "fill"
    <2>1. ~overflowed'
      BY DEF Fit
    <2>2. ~(ts.bottom - 1 <= NBody)
      BY <2>1, AllocDoes, Zenon
    <2>3. ts.bottom \in Int /\ NBody \in Int
      BY NodeAssumption DEF TreeInv, MemoryInv
    <2>4. bt'[w].pc = "fill"
      BY <2>2, AllocDoes
    <2>5. QED
      BY <2>2, <2>3, <2>4
  <1>3. Holds(w) /\ Chains(w) /\ Holds(w)' /\ Chains(w)' /\ \A c : ~Filling(w, c)
    BY <1>1, <1>2 DEF Holds, Chains, Holding, Chaining, Filling
  <1>4. /\ MemoryInv /\ CellInv(up, lv, reg) /\ LinkInv(up, own) /\ UniqueInv(reg, own)
        /\ BodyInv(reg, own) /\ LockInv(own) /\ LoadedInv(reg, own) /\ FullInv(own)
        /\ ItemInv(up, lv, reg, own) /\ CoverInv(lv, own)
        /\ Locks(w, lv, reg, own) /\ Chain(w, up, lv, reg, own) /\ Walks(w, lv, reg, own)
    BY <1>3 DEF TreeInv, ItemInv
  <1>5. PICK n \in Cells, j \in Sub, p \in Cells, s \in Sub :
          /\ n = bt[w].n /\ j = bt[w].j /\ bt[w].locked = <<p, s>> /\ own[n] \in {w, NoItem}
          /\ \A b \in reg[n] : Oct(n, b) = j => b \in reg[p] /\ Oct(p, b) = s
    <2>1. PICK p \in Cells, s \in Sub : bt[w].locked = <<p, s>>
      BY <1>4 DEF Locks
    <2>2. bt[w].locked[1] = p /\ bt[w].locked[2] = s
      BY <2>1
    <2>3. QED
      BY <1>1, <2>1, <2>2, NextSlot
  <1>6. PICK c \in Node : c = ts.bottom - 1
    BY <1>2, <1>4, NodeAssumption DEF MemoryInv, Node
  <1>7. /\ Item' = Item /\ \A m, b : Oct(m, b)' = Oct(m, b)
        /\ Cells' = Cells \cup {c} /\ c \notin Cells /\ isCell(c) /\ c # NNode /\ c < n
        /\ \A m \in Cells : m \in Node /\ m \in Nat /\ c < m
    BY <1>1, <1>2, <1>4, <1>6, SameItems, OctKept, NodeAssumption DEF MemoryInv, Cells, Node, isCell
  <1>8. \A t \in Sub : child[c][t] = NULL_BODY
    BY <1>4, <1>6, <1>7 DEF LinkInv, MemoryInv
  <1>9. \A m, b : Leads(m, b)' = Leads(m, b)
    BY <1>1, <1>7 DEF Leads
  <1>10. PICK up2, lv2, reg2, own2 :
           /\ lv2 \in [Node -> Nat] /\ own2 = [m \in Node |-> own2[m]]
           /\ up2[c] = <<n, j>> /\ lv2[c] = lv[n] + 1 /\ own2[c] = w
           /\ reg2[c] = {b \in reg[n] : Oct(n, b) = j}
           /\ \A m \in Cells : up2[m] = up[m] /\ lv2[m] = lv[m] /\ reg2[m] = reg[m] /\ own2[m] = own[m]
    <2>1. PICK U : U = [m \in Node |-> IF m = c THEN <<n, j>> ELSE up[m]]
      OBVIOUS
    <2>2. PICK L : L = [m \in Node |-> IF m = c THEN lv[n] + 1 ELSE lv[m]]
      OBVIOUS
    <2>3. PICK R : R = [m \in Node |-> IF m = c THEN {b \in reg[n] : Oct(n, b) = j} ELSE reg[m]]
      OBVIOUS
    <2>4. PICK O : O = [m \in Node |-> IF m = c THEN w ELSE own[m]]
      OBVIOUS
    <2>5. L \in [Node -> Nat] /\ L[c] = lv[n] + 1 /\ \A m \in Cells : L[m] = lv[m]
      BY <1>4, <1>7, <2>2 DEF CellInv
    <2>6. U[c] = <<n, j>> /\ \A m \in Cells : U[m] = up[m]
      BY <1>7, <2>1
    <2>7. R[c] = {b \in reg[n] : Oct(n, b) = j} /\ \A m \in Cells : R[m] = reg[m]
      BY <1>7, <2>3
    <2>8. O = [m \in Node |-> O[m]] /\ O[c] = w /\ \A m \in Cells : O[m] = own[m]
      BY <1>7, <2>4
    <2>9. QED
      BY <2>5, <2>6, <2>7, <2>8
  <1>11. Frame(w, up, lv, reg, own, up2, lv2, reg2, own2)
    <2>1. ASSUME NEW v \in Item, v # w, Holds(v)
          PROVE  bt[v].i \notin loaded' /\ child'[bt[v].locked[1]][bt[v].locked[2]] = LOCK
      BY <1>1, <1>4, <2>1 DEF ItemInv, Locks
    <2>2. loaded' \subseteq Body /\ loaded \subseteq loaded'
      BY <1>1, <1>4 DEF MemoryInv
    <2>3. \A m \in Cells' : m \notin Cells =>
            own2[m] = w /\ up2[m][1] \in Cells /\ own[up2[m][1]] \in {w, NoItem}
      BY <1>5, <1>7, <1>10
    <2>4. \A m \in Cells : /\ m \in Cells' /\ up2[m] = up[m] /\ lv2[m] = lv[m] /\ reg2[m] = reg[m]
                           /\ own[m] # w => own2[m] = own[m]
                           /\ own[m] = w => own2[m] \in {w, NoItem}
      BY <1>7, <1>10
    <2>5. QED
      BY <1>1, <1>7, <2>1, <2>2, <2>3, <2>4 DEF Frame
  <1>12. /\ w # NoItem /\ Was(w)' = Was(w) /\ Filling(w, c)' /\ \A d \in Cells : ~Filling(w, d)'
    BY <1>1, <1>2, <1>6, <1>7, NoItemIsNone DEF Was, Filling
  <1>13. \A v \in Item : /\ bt'[v].locked = bt[v].locked /\ bt'[v].i = bt[v].i /\ bt'[v].maxd = bt[v].maxd
                         /\ (Holds(v)' <=> Holds(v)) /\ (Chains(v)' <=> Chains(v))
                         /\ Chains(v) => Was(v)' = Was(v)
                         /\ \A d : Filling(v, d) => Filling(v, d)'
                         /\ bt'[v].pc = "exit" => bt[v].pc = "exit"
    BY <1>1, <1>2, <1>3, <1>11, <1>12, OtherItem
  <1>14. MemoryInv'
    BY <1>1, <1>2, <1>4, NodeAssumption DEF MemoryInv
  <1>15. CellInv(up2, lv2, reg2)'
    <2>1. lv2[NNode] = 1 /\ reg2[NNode] = Body
      BY <1>4, <1>10, CellFacts DEF CellInv
    <2>2. ASSUME NEW d \in Cells'
          PROVE  /\ reg2[d] \subseteq Body
                 /\ d # NNode => /\ up2[d] \in Cells' \X Sub /\ d < up2[d][1] /\ lv2[d] = lv2[up2[d][1]] + 1
                                 /\ \A b : b \in reg2[d] <=> b \in reg2[up2[d][1]] /\ Oct(up2[d][1], b) = up2[d][2]
      <3>1. CASE d = c
        <4>1. reg2[n] = reg[n] /\ lv2[n] = lv[n] /\ reg[n] \subseteq Body
          BY <1>4, <1>10 DEF CellInv
        <4>2. up2[d] = <<n, j>> /\ up2[d][1] = n /\ up2[d][2] = j
          BY <1>10, <3>1
        <4>3. QED
          BY <1>7, <1>10, <3>1, <4>1, <4>2
      <3>2. CASE d \in Cells
        <4>1. up2[d] = up[d] /\ lv2[d] = lv[d] /\ reg2[d] = reg[d] /\ reg[d] \subseteq Body
          BY <1>4, <1>10, <3>2 DEF CellInv
        <4>2. ASSUME d # NNode
              PROVE  /\ up[d] \in Cells' \X Sub /\ d < up[d][1] /\ lv[d] = lv2[up[d][1]] + 1
                     /\ \A b : b \in reg[d] <=> b \in reg2[up[d][1]] /\ Oct(up[d][1], b) = up[d][2]
          <5>1. /\ up[d] \in Cells \X Sub /\ d < up[d][1] /\ lv[d] = lv[up[d][1]] + 1
                /\ \A b : b \in reg[d] <=> b \in reg[up[d][1]] /\ Oct(up[d][1], b) = up[d][2]
            BY <1>4, <3>2, <4>2 DEF CellInv
          <5>2. lv2[up[d][1]] = lv[up[d][1]] /\ reg2[up[d][1]] = reg[up[d][1]]
            BY <1>10, <5>1
          <5>3. QED
            BY <1>7, <5>1, <5>2
        <4>3. QED
          BY <4>1, <4>2
      <3>3. QED
        BY <1>7, <3>1, <3>2
    <2>3. QED
      BY <1>7, <1>10, <2>1, <2>2 DEF CellInv
  <1>16. LinkInv(up2, own2)'
    <2>1. own2[NNode] = NoItem /\ NNode \in Cells
      BY <1>4, <1>10, CellFacts DEF LinkInv
    <2>2. ASSUME NEW m \in Cells', NEW t \in Sub, isCell(child[m][t])
          PROVE  /\ child[m][t] \in Cells' /\ child[m][t] # NNode
                 /\ up2[child[m][t]] = <<m, t>> /\ own2[child[m][t]] = own2[m]
      <3>1. m \in Cells
        BY <1>7, <1>8, <2>2, NodeAssumption DEF isCell, NULL_BODY
      <3>2. /\ child[m][t] \in Cells /\ child[m][t] # NNode
            /\ up[child[m][t]] = <<m, t>> /\ own[child[m][t]] = own[m]
        BY <1>4, <2>2, <3>1 DEF LinkInv
      <3>3. QED
        BY <1>7, <1>10, <3>1, <3>2
    <2>3. \A m \in Node, t \in Sub : isCell(m) /\ m < ts'.bottom => child[m][t] = NULL_BODY
      BY <1>1, <1>4, <1>6 DEF LinkInv, MemoryInv, Node
    <2>4. ASSUME NEW d \in Cells', d # NNode, own2[d] = NoItem
          PROVE  child[up2[d][1]][up2[d][2]] = d
      BY <1>4, <1>7, <1>10, <1>12, <2>4 DEF LinkInv
    <2>5. QED
      BY <1>1, <1>10, <2>1, <2>2, <2>3, <2>4 DEF LinkInv
  <1>17. UniqueInv(reg2, own2)'
    <2>1. ASSUME NEW m \in Cells', NEW l \in Cells', l < m, own2[l] = own2[m], NEW b, b \in reg2[m], b \in reg2[l]
          PROVE  isCell(Leads(m, b)) \/ \E v \in Item : Filling(v, l)'
      <3>1. CASE l = c
        BY <1>12, <3>1
      <3>2. CASE l # c
        <4>0. l \in Cells /\ c < l /\ l \in Nat /\ c \in Nat
          BY <1>7, <2>1, <3>2 DEF Node
        <4>1. l \in Cells /\ m \in Cells
          BY <1>7, <2>1, <4>0
        <4>2. isCell(Leads(m, b)) \/ \E v \in Item : Filling(v, l)
          BY <1>4, <1>10, <2>1, <4>1 DEF UniqueInv
        <4>3. QED
          BY <1>13, <4>2
      <3>3. QED
        BY <3>1, <3>2
    <2>2. QED
      BY <1>7, <1>9, <2>1 DEF UniqueInv, isCell
  <1>18. BodyInv(reg2, own2)'
    <2>1. ASSUME NEW m \in Cells', NEW t \in Sub, child[m][t] \in Body
          PROVE  /\ Oct(m, child[m][t]) = t /\ child[m][t] \in reg2[m]
                 /\ own2[m] = NoItem => child[m][t] \in loaded'
                 /\ own2[m] # NoItem => child[m][t] \in {bt'[own2[m]].i, Was(own2[m])'}
      <3>1. m \in Cells
        BY <1>7, <1>8, <2>1, NodeAssumption DEF Body, NULL_BODY
      <3>2. /\ Oct(m, child[m][t]) = t /\ child[m][t] \in reg[m]
            /\ own[m] = NoItem => child[m][t] \in loaded
            /\ own[m] # NoItem => child[m][t] \in {bt[own[m]].i, Was(own[m])}
        BY <1>4, <2>1, <3>1 DEF BodyInv
      <3>3. own[m] # NoItem => bt'[own[m]].i = bt[own[m]].i /\ Was(own[m])' = Was(own[m])
        BY <1>4, <1>13, <3>1 DEF ItemInv
      <3>4. QED
        BY <1>1, <1>10, <3>1, <3>2, <3>3
    <2>2. QED
      BY <1>1, <1>7, <2>1 DEF BodyInv
  <1>19. LockInv(own2)'
    <2>1. ASSUME NEW m \in Cells', NEW t \in Sub, child[m][t] = LOCK
          PROVE  own2[m] = NoItem /\ \E v \in Item : Holds(v)' /\ bt'[v].locked = <<m, t>>
      <3>1. m \in Cells
        BY <1>7, <1>8, <2>1 DEF LOCK, NULL_BODY
      <3>2. own[m] = NoItem /\ \E v \in Item : Holds(v) /\ bt[v].locked = <<m, t>>
        BY <1>4, <2>1, <3>1 DEF LockInv
      <3>3. QED
        BY <1>10, <1>13, <3>1, <3>2
    <2>2. \A v, y \in Item : Holds(v)' /\ Holds(y)' /\ bt'[v].locked = bt'[y].locked => v = y
      BY <1>4, <1>13 DEF LockInv
    <2>3. QED
      BY <1>1, <1>7, <2>1, <2>2 DEF LockInv
  <1>20. LoadedInv(reg2, own2)'
    <2>1. ASSUME NEW b \in loaded, NEW m \in Cells', own2[m] = NoItem, b \in reg2[m]
          PROVE  \/ isCell(Leads(m, b)) \/ Leads(m, b) = b
                 \/ \E v \in Item : Chains(v)' /\ bt'[v].locked = <<m, Oct(m, b)>> /\ Was(v)' = b
      <3>1. m \in Cells /\ own[m] = NoItem /\ b \in reg[m]
        BY <1>7, <1>10, <1>12, <2>1
      <3>2. QED
        BY <1>4, <1>13, <3>1 DEF LoadedInv
    <2>2. QED
      BY <1>1, <1>7, <1>9, <2>1 DEF LoadedInv, isCell
  <1>21. FullInv(own2)'
    <2>1. ASSUME NEW d \in Cells', d # NNode, own2[d] = NoItem
          PROVE  \/ \E t \in Sub : isCell(child[d][t]) \/ \E v \in Item : Chains(v)' /\ bt'[v].locked = <<d, t>>
                 \/ \A t \in Sub : child[d][t] # NULL_BODY
      <3>1. d \in Cells /\ own[d] = NoItem
        BY <1>7, <1>10, <1>12, <2>1
      <3>2. QED
        BY <1>4, <1>13, <2>1, <3>1 DEF FullInv
    <2>2. QED
      BY <1>1, <1>7, <2>1 DEF FullInv
  <1>22. Walks(w, lv2, reg2, own2)'
    <2>1. bt'[w].pc \in Labels
      BY <1>2 DEF Labels, Holding, Chaining
    <2>2. QED
      BY <1>1, <1>2, <1>3, <1>4, <2>1 DEF Walks
  <1>23. Locks(w, lv2, reg2, own2)'
    <2>1. /\ bt[w].i \in Body /\ bt[w].i \notin loaded /\ own[p] = NoItem /\ child[p][s] = LOCK
          /\ bt[w].i \in reg[p] /\ s = Oct(p, bt[w].i) /\ j = Oct(n, bt[w].i) /\ bt[w].depth = lv[n]
      BY <1>1, <1>4, <1>5 DEF Locks
    <2>2. Was(w) \in loaded /\ Was(w) \in reg[p] /\ Oct(p, Was(w)) = s
      BY <1>3, <1>4, <1>5 DEF Locks
    <2>3. p \in Cells' /\ n \in Cells' /\ reg2[p] = reg[p] /\ own2[p] = NoItem
      BY <1>7, <1>10, <2>1
    <2>4. bt'[w].locked = <<p, s>> /\ bt'[w].n = n /\ bt'[w].j = j /\ bt'[w].cell = c
      BY <1>1, <1>5, <1>6
    <2>5. QED
      BY <1>1, <1>2, <1>7, <1>10, <1>12, <2>1, <2>2, <2>3, <2>4 DEF Locks
  <1>24. Chain(w, up2, lv2, reg2, own2)'
    <2>1. ASSUME NEW d \in Cells', own2[d] = w
          PROVE  ChainCell(w, d, up2, lv2, reg2)'
      <3>1. bt[w].depth \in Nat /\ bt[w].depth = lv[n] /\ reg2[p] = reg[p] /\ bt'[w].locked = <<p, s>>
        BY <1>1, <1>4, <1>5, <1>10 DEF NumInv, Locks
      <3>2. CASE d = c
        <4>1. \A b \in reg2[c] : b \in reg2[p] /\ Oct(p, b) = s
          BY <1>5, <1>10, <3>1
        <4>2. lv2[c] <= bt'[w].depth
          BY <1>1, <1>10, <3>1
        <4>3. QED
          BY <1>7, <1>12, <3>1, <3>2, <4>1, <4>2 DEF ChainCell
      <3>3. CASE d \in Cells
        <4>1. ChainCell(w, d, up, lv, reg) /\ ~Filling(w, d) /\ d # NNode
          BY <1>3, <1>4, <1>10, <1>12, <2>1, <3>3 DEF Chain, LinkInv
        <4>2. up2[d] = up[d] /\ lv2[d] = lv[d] /\ reg2[d] = reg[d] /\ lv[d] \in Nat
          BY <1>4, <1>7, <1>10, <3>3 DEF CellInv
        <4>3. PICK u : u = Was(w) /\ u = Was(w)'
          BY <1>12
        <4>4. QED
          BY <1>1, <1>5, <1>7, <1>9, <3>1, <4>1, <4>2, <4>3 DEF ChainCell, isCell
      <3>4. QED
        BY <1>7, <2>1, <3>2, <3>3
    <2>2. bt[w].patch = -1 => NoChain(w, own2)'
      <3>1. SUFFICES ASSUME bt[w].patch = -1
                     PROVE  NoChain(w, own2)'
        OBVIOUS
      <3>2. NoChain(w, own)
        BY <1>4, <3>1 DEF Chain
      <3>3. \A d \in Cells' : own2[d] = w => Filling(w, d)'
        BY <1>3, <1>7, <1>10, <1>12, <3>2 DEF NoChain
      <3>4. QED
        BY <1>1, <1>2, <3>2, <3>3 DEF NoChain
    <2>3. bt[w].patch # -1 => ChainEnds(w, up2, own2)'
      <3>1. SUFFICES ASSUME bt[w].patch # -1
                     PROVE  ChainEnds(w, up2, own2)'
        OBVIOUS
      <3>2. PICK x \in Cells : /\ x = bt[w].patch /\ x # NNode /\ own[x] = w /\ up[x] = bt[w].locked
                               /\ own[n] = w /\ child[n][j] = Was(w)
                               /\ \A d \in Cells : own[d] = w => Filling(w, d) \/ (n <= d /\ d <= x)
        BY <1>1, <1>4, <1>5, <3>1 DEF Chain, ChainEnds
      <3>3. x \in Cells' /\ own2[x] = w /\ own2[n] = w /\ up2[x] = up[x]
        BY <1>7, <1>10, <3>2
      <3>4. \A d \in Cells' : own2[d] = w => Filling(w, d)' \/ (n <= d /\ d <= x)
        BY <1>3, <1>7, <1>10, <1>12, <3>2
      <3>5. bt'[w].patch = x /\ bt'[w].n = n /\ bt'[w].j = j
        BY <1>1, <1>5, <3>2
      <3>6. ~Filling(w, x)' /\ ~Filling(w, n)'
        BY <1>12
      <3>7. QED
        BY <1>1, <1>12, <3>2, <3>3, <3>4, <3>5, <3>6 DEF ChainEnds
    <2>4. ChainFill(w, up2, own2)'
      <3>1. bt'[w].cell = c /\ bt'[w].n = n /\ bt'[w].j = j
        BY <1>1, <1>5, <1>6
      <3>2. \A d \in Cells' : d # NNode => up2[d][1] # c
        <4>1. SUFFICES ASSUME NEW d \in Cells', d # NNode
                       PROVE  up2[d][1] # c
          OBVIOUS
        <4>2. CASE d = c
          BY <1>7, <1>10, <4>2
        <4>3. CASE d \in Cells
          <5>1. up2[d] = up[d] /\ up[d][1] \in Cells
            BY <1>4, <1>10, <4>1, <4>3 DEF CellInv
          <5>2. QED
            BY <1>7, <5>1
        <4>4. QED
          BY <1>7, <4>2, <4>3
      <3>3. QED
        BY <1>1, <1>7, <1>8, <1>10, <3>1, <3>2 DEF ChainFill
    <2>5. QED
      BY <1>1, <1>2, <2>1, <2>2, <2>3, <2>4 DEF Chain
  <1>25. ItemInv(up2, lv2, reg2, own2)'
    BY <1>3, <1>11, <1>22, <1>23, <1>24, FrameItems
  <1>26. CoverInv(lv2, own2)'
    <2>1. ASSUME NEW d \in Cells', own2[d] = NoItem
          PROVE  lv2[d] <= ts.maxDepth \/ \E v \in Item : bt'[v].pc # "exit" /\ lv2[d] <= bt'[v].maxd
      <3>1. d \in Cells /\ own[d] = NoItem /\ lv2[d] = lv[d]
        BY <1>7, <1>10, <1>12, <2>1
      <3>2. QED
        BY <1>4, <1>13, <3>1 DEF CoverInv
    <2>2. ts.maxDepth >= 1
      BY <1>4 DEF CoverInv
    <2>3. QED
      BY <1>1, <1>7, <2>1, <2>2 DEF CoverInv
  <1>27. TreeInv(up2, lv2, reg2, own2)'
    BY <1>14, <1>15, <1>16, <1>17, <1>18, <1>19, <1>20, <1>21, <1>25, <1>26 DEF TreeInv
  <1>28. QED
    BY <1>27

LEMMA FillAction ==
    ASSUME ShapeInv, NumInv, NumInv', Fit, NEW up, NEW lv, NEW reg, NEW own, TreeInv(up, lv, reg, own),
           NEW w \in Item, Fill(w)
    PROVE  TreeInv(up, lv, reg, own)'
  <1>1. bt[w].pc = "fill" /\ phase = "build"
    BY DEF Fill, At
  <1>2. Holds(w) /\ Chains(w) /\ Was(w) = bt[w].ch
    BY <1>1 DEF Holds, Chains, Holding, Chaining, Was
  <1>3. /\ MemoryInv /\ CellInv(up, lv, reg) /\ LinkInv(up, own) /\ UniqueInv(reg, own)
        /\ BodyInv(reg, own) /\ LockInv(own) /\ LoadedInv(reg, own) /\ FullInv(own)
        /\ ItemInv(up, lv, reg, own) /\ CoverInv(lv, own)
        /\ Locks(w, lv, reg, own) /\ Chain(w, up, lv, reg, own) /\ Walks(w, lv, reg, own)
    BY <1>2 DEF TreeInv, ItemInv
  <1>4. PICK p \in Cells, s \in Sub, i \in Body, b \in Body :
          /\ bt[w].locked = <<p, s>> /\ bt[w].i = i /\ own[p] = NoItem /\ child[p][s] = LOCK
          /\ i \in reg[p] /\ s = Oct(p, i) /\ b = bt[w].ch /\ Was(w) = b /\ b \in loaded /\ b \in reg[p]
          /\ Oct(p, b) = s /\ i \notin loaded
    <2>1. Was(w) \in Body
      BY <1>2, <1>3 DEF Locks, MemoryInv
    <2>2. PICK p \in Cells, s \in Sub : bt[w].locked = <<p, s>> /\ bt[w].locked[1] = p /\ bt[w].locked[2] = s
      BY <1>3 DEF Locks
    <2>3. QED
      BY <1>2, <1>3, <2>1, <2>2 DEF Locks
  <1>5. PICK n \in Cells, j \in Sub, c \in Cells :
          /\ n = bt[w].n /\ j = bt[w].j /\ i \in reg[n] /\ b \in reg[n] /\ j = Oct(n, i) /\ j = Oct(n, b)
          /\ own[n] \in {w, NoItem} /\ (own[n] = w <=> bt[w].patch # -1)
          /\ c = bt[w].cell /\ c # NNode /\ own[c] = w /\ up[c] = <<n, j>> /\ lv[c] = bt[w].depth
          /\ (\A t \in Sub : child[c][t] = NULL_BODY) /\ (\A d \in Cells : d # NNode => up[d][1] # c)
    <2>1. ChainFill(w, up, own) /\ bt[w].depth = lv[bt[w].cell]
      BY <1>1, <1>3 DEF Chain, Locks
    <2>2. QED
      BY <1>1, <1>4, <2>1, NextSlot DEF ChainFill
  <1>6. /\ Item' = Item /\ Cells' = Cells /\ n \in Node /\ c \in Node /\ c < n /\ i \in reg[c] /\ b \in reg[c]
        /\ \A m \in Cells : m \in Node /\ m \in Nat /\ isCell(m) /\ m \notin Body
    <2>a. up[c][1] = n /\ up[c][2] = j
      BY <1>5
    <2>b. c < n /\ \A y : y \in reg[c] <=> y \in reg[n] /\ Oct(n, y) = j
      BY <1>3, <1>5, <2>a DEF CellInv
    <2>1. c < n /\ i \in reg[c] /\ b \in reg[c]
      BY <1>5, <2>b
    <2>2. \A m \in Cells : m \in Node /\ m \in Nat /\ isCell(m) /\ m \notin Body
      BY <1>3, CellFacts, NodeAssumption DEF isCell, Body
    <2>3. UNCHANGED <<mode, ts>>
      BY <1>1, FillKeeps DEF Fill, keep
    <2>4. QED
      BY <2>1, <2>2, <2>3, SameItems DEF Cells
  <1>8. PICK ji \in Sub, jb \in Sub : /\ ji = Oct(c, i)' /\ jb = Oct(c, b)'
                                      /\ ji = Octant(pos'[c], pos'[i]) /\ jb = Octant(pos'[c], pos'[b])
    BY DEF Oct, Octant, Sub
  <1>7. PICK x : /\ UNCHANGED <<mode, loaded, ts>> /\ Only(w) /\ pos' = [pos EXCEPT ![c] = x]
                 /\ child' = [(IF Larger(bt[w].patch, c) # c THEN [child EXCEPT ![n][j] = c]
                                                             ELSE child) EXCEPT ![c][jb] = b]
                 /\ bt'[w].i = i /\ bt'[w].depth = bt[w].depth /\ bt'[w].maxd = bt[w].maxd
                 /\ bt'[w].locked = <<p, s>> /\ bt'[w].cell = c
                 /\ bt'[w].patch = Larger(bt[w].patch, c) /\ bt'[w].n = c /\ bt'[w].j = ji
                 /\ bt'[w].ch = child'[c][ji]
                 /\ bt'[w].pc = IF bt'[w].ch >= 0 /\ bt[w].depth <= MaxDepth THEN "alloc" ELSE "link"
    <2>1. pos = [m \in Node |-> pos[m]]
      BY <1>3 DEF MemoryInv
    <2>2. c = bt[w].cell /\ i = bt[w].i /\ b = bt[w].ch /\ c \in Node
      BY <1>4, <1>5, <1>6
    <2>3. bt[w].cell \in Node
      BY <2>2
    <2>4. /\ UNCHANGED <<mode, loaded, ts>> /\ Only(w)
          /\ \E x : pos' = [pos EXCEPT ![bt[w].cell] = x]
      BY <2>1, <2>3, FillDoes
    <2>5. child' = [(IF Larger(bt[w].patch, bt[w].cell) # bt[w].cell
                     THEN [child EXCEPT ![bt[w].n][bt[w].j] = bt[w].cell]
                     ELSE child) EXCEPT ![bt[w].cell][Octant(pos'[bt[w].cell], pos'[bt[w].ch])] = bt[w].ch]
      BY <2>1, <2>3, FillDoes
    <2>6. /\ bt'[w].i = bt[w].i /\ bt'[w].depth = bt[w].depth /\ bt'[w].maxd = bt[w].maxd
          /\ bt'[w].locked = bt[w].locked /\ bt'[w].cell = bt[w].cell
          /\ bt'[w].patch = Larger(bt[w].patch, bt[w].cell) /\ bt'[w].n = bt[w].cell
          /\ bt'[w].pc = IF bt'[w].ch >= 0 /\ bt[w].depth <= MaxDepth THEN "alloc" ELSE "link"
      BY <2>1, <2>3, FillDoes
    <2>7. LET k == Octant(pos'[bt[w].cell], pos'[bt[w].i])
          IN  bt'[w].j = k /\ bt'[w].ch = child'[bt[w].cell][k]
      BY <2>1, <2>3, FillDoes
    <2>8. /\ bt[w].cell = c /\ bt[w].n = n /\ bt[w].j = j /\ bt[w].locked = <<p, s>> /\ bt[w].i = i /\ bt[w].ch = b
      BY <1>4, <1>5
    <2>9. child' = [(IF Larger(bt[w].patch, c) # c THEN [child EXCEPT ![n][j] = c]
                                                   ELSE child) EXCEPT ![c][jb] = b]
      BY <1>8, <2>5, <2>8
    <2>10. QED
      BY <1>8, <2>4, <2>6, <2>7, <2>8, <2>9
  <1>9. /\ \A m \in Cells, y \in Body : m # c => Oct(m, y)' = Oct(m, y)
        /\ pos' = [m \in Node |-> pos'[m]]
    <2>1. \A m \in Node : m # c => pos'[m] = pos[m]
      BY <1>3, <1>7 DEF MemoryInv
    <2>2. Body \subseteq Node
      BY NodeAssumption DEF Body, Node
    <2>3. \A m \in Cells, y \in Body : m # c => pos'[m] = pos[m] /\ pos'[y] = pos[y]
      BY <1>6, <2>1, <2>2
    <2>4. pos' = [m \in Node |-> pos'[m]]
      BY <1>3, <1>7 DEF MemoryInv
    <2>5. QED
      BY <2>3, <2>4 DEF Oct
  <1>10. /\ bt[w].patch = -1 => Larger(bt[w].patch, c) = c
         /\ bt[w].patch # -1 => /\ bt[w].patch \in Cells /\ bt[w].patch # NNode /\ c < bt[w].patch
                                /\ Larger(bt[w].patch, c) = bt[w].patch /\ Larger(bt[w].patch, c) # c
                                /\ up[bt[w].patch] = <<p, s>> /\ own[bt[w].patch] = w /\ child[n][j] = b
                                /\ \A d \in Cells : own[d] = w => d = c \/ (n <= d /\ d <= bt[w].patch)
    <2>1. bt[w].patch = -1 => Larger(bt[w].patch, c) = c
      BY <1>6 DEF Larger
    <2>2. ASSUME bt[w].patch # -1
          PROVE  /\ bt[w].patch \in Cells /\ bt[w].patch # NNode /\ c < bt[w].patch
                 /\ up[bt[w].patch] = <<p, s>> /\ own[bt[w].patch] = w /\ child[n][j] = b
                 /\ \A d \in Cells : own[d] = w => d = c \/ (n <= d /\ d <= bt[w].patch)
      <3>1. ChainEnds(w, up, own)
        BY <1>3, <2>2 DEF Chain
      <3>2. /\ bt[w].patch \in Cells /\ bt[w].patch # NNode
            /\ up[bt[w].patch] = <<p, s>> /\ own[bt[w].patch] = w /\ child[n][j] = b
            /\ \A d \in Cells : own[d] = w => d = c \/ (n <= d /\ d <= bt[w].patch)
        BY <1>1, <1>4, <1>5, <3>1 DEF ChainEnds, Filling
      <3>3. own[n] = w /\ n # c
        BY <1>5, <1>6, <2>2
      <3>4. n <= bt[w].patch
        BY <3>2, <3>3
      <3>5. QED
        BY <1>6, <3>2, <3>4
    <2>3. QED
      BY <1>6, <2>1, <2>2 DEF Larger
  <1>11. bt[w].patch = -1 => \A d \in Cells : own[d] = w => d = c
    BY <1>3, <1>5 DEF Chain, NoChain, Filling
  <1>12. /\ child' \in [Node -> [Sub -> Node \cup {NULL_BODY, LOCK}]]
         /\ child'[c][jb] = b /\ \A t \in Sub : t # jb => child'[c][t] = NULL_BODY
         /\ bt[w].patch # -1 => child'[n][j] = c
         /\ \A m \in Node, t \in Sub : m # c /\ (bt[w].patch = -1 \/ m # n \/ t # j) => child'[m][t] = child[m][t]
    <2>1. child \in [Node -> [Sub -> Node \cup {NULL_BODY, LOCK}]] /\ b \in Node /\ n # c
      BY <1>3, <1>6, NodeAssumption DEF MemoryInv, Body, Node
    <2>2. CASE bt[w].patch = -1
      <3>1. child' = [child EXCEPT ![c][jb] = b]
        BY <1>7, <1>8, <1>10, <2>2
      <3>2. QED
        BY <1>5, <1>6, <2>1, <2>2, <3>1
    <2>3. CASE bt[w].patch # -1
      <3>1. PICK k : k = [child EXCEPT ![n][j] = c]
        OBVIOUS
      <3>2. /\ k \in [Node -> [Sub -> Node \cup {NULL_BODY, LOCK}]] /\ k[n][j] = c
            /\ \A m \in Node, t \in Sub : m # n \/ t # j => k[m][t] = child[m][t]
        BY <1>6, <2>1, <3>1
      <3>3. child' = [k EXCEPT ![c][jb] = b]
        BY <1>7, <1>8, <1>10, <2>3, <3>1
      <3>4. QED
        BY <1>5, <1>6, <2>1, <2>3, <3>2, <3>3
    <2>4. QED
      BY <2>2, <2>3
  <1>r. /\ UNCHANGED <<mode, loaded, ts>> /\ Only(w) /\ bt'[w].i = i /\ bt'[w].depth = bt[w].depth
        /\ bt'[w].maxd = bt[w].maxd /\ bt'[w].locked = <<p, s>> /\ bt'[w].n = c /\ bt'[w].j = ji
        /\ bt'[w].patch = (IF bt[w].patch = -1 THEN c ELSE bt[w].patch) /\ bt'[w].ch = child'[c][ji]
        /\ bt'[w].pc = IF bt'[w].ch >= 0 /\ bt[w].depth <= MaxDepth THEN "alloc" ELSE "link"
    BY <1>7, <1>8, <1>10
  <1>13. bt[w].depth <= MaxDepth /\ b >= 0 /\ NULL_BODY < 0
    BY <1>1, <1>2 DEF Fit, Body, NULL_BODY
  <1>14. /\ ji = jb => bt'[w].pc = "alloc" /\ bt'[w].ch = b
         /\ ji # jb => bt'[w].pc = "link" /\ child'[c][ji] = NULL_BODY
    BY <1>r, <1>8, <1>12, <1>13 DEF NULL_BODY
  <1>15. Was(w)' = b
    <2>1. CASE ji = jb
      BY <1>14, <2>1 DEF Was
    <2>2. CASE ji # jb
      <3>1. 1 - ji = jb
        BY <2>2 DEF Sub
      <3>2. QED
        BY <1>r, <1>8, <1>12, <1>14, <2>2, <3>1 DEF Was
    <2>3. QED
      BY <2>1, <2>2
  <1>16. Holds(w)' /\ Chains(w)' /\ (\A d : ~Filling(w, d)') /\ \A d : Filling(w, d) => d = c
    BY <1>5, <1>14 DEF Holds, Chains, Holding, Chaining, Filling
  <1>17. /\ w # NoItem /\ c # p /\ (bt[w].patch # -1 => n # p /\ own[n] = w)
         /\ ~isCell(NULL_BODY) /\ ~isCell(LOCK) /\ ~isCell(b) /\ LOCK \notin Body /\ NULL_BODY \notin Body
         /\ LOCK # NULL_BODY
    BY <1>4, <1>5, NoItemIsNone, NodeAssumption DEF isCell, Body, NULL_BODY, LOCK
  <1>18. \A m \in Cells : own[m] # w => \A t \in Sub : child'[m][t] = child[m][t]
    BY <1>5, <1>6, <1>12, <1>17
  <1>19. Frame(w, up, lv, reg, own, up, lv, reg, own)
    <2>1. ASSUME NEW v \in Item, v # w, Holds(v)
          PROVE  bt[v].i \notin loaded' /\ child'[bt[v].locked[1]][bt[v].locked[2]] = LOCK
      <3>1. PICK q \in Cells, t \in Sub : /\ bt[v].locked = <<q, t>> /\ child[q][t] = LOCK
                                          /\ bt[v].i \notin loaded /\ own[q] = NoItem
        BY <1>3, <2>1 DEF ItemInv, Locks
      <3>2. child'[q][t] = LOCK
        BY <1>17, <1>18, <3>1
      <3>3. QED
        BY <1>r, <3>1, <3>2
    <2>2. loaded' \subseteq Body /\ loaded \subseteq loaded'
      BY <1>3, <1>r DEF MemoryInv
    <2>3. \A m \in Cells : own[m] # w => \A y \in Body : Oct(m, y)' = Oct(m, y)
      BY <1>5, <1>9
    <2>4. QED
      BY <1>6, <1>r, <1>18, <2>1, <2>2, <2>3 DEF Frame
  <1>20. \A v \in Item : /\ bt'[v].locked = bt[v].locked /\ bt'[v].i = bt[v].i
                         /\ (Holds(v)' <=> Holds(v)) /\ (Chains(v)' <=> Chains(v))
                         /\ Chains(v) => Was(v)' = Was(v)
                         /\ v # w => \A d : Filling(v, d) => Filling(v, d)'
    <2>1. bt'[w].locked = bt[w].locked /\ bt'[w].i = bt[w].i /\ Was(w)' = Was(w)
      BY <1>4, <1>r, <1>15
    <2>2. \A v \in Item : v # w =>
            /\ bt'[v] = bt[v] /\ (Holds(v)' <=> Holds(v)) /\ (Chains(v)' <=> Chains(v))
            /\ \A d : Filling(v, d)' <=> Filling(v, d)
            /\ Chains(v) => Was(v)' = Was(v)
      BY <1>19, OtherItem
    <2>3. QED
      BY <1>2, <1>16, <2>1, <2>2
  <1>21. \A m \in Cells, t \in Sub : isCell(child[m][t]) => child'[m][t] = child[m][t] /\ m # c
    BY <1>5, <1>6, <1>10, <1>12, <1>17
  <1>22. \A m \in Cells, y \in Body : isCell(Leads(m, y)) => isCell(Leads(m, y)')
    <2>1. ASSUME NEW m \in Cells, NEW y \in Body, isCell(Leads(m, y))
          PROVE  isCell(Leads(m, y)')
      <3>1. m # c /\ child'[m][Oct(m, y)] = child[m][Oct(m, y)]
        BY <1>21, <2>1, OctRange DEF Leads
      <3>2. QED
        BY <1>9, <2>1, <3>1 DEF Leads
    <2>2. QED
      BY <2>1
  <1>23. MemoryInv' 
    BY <1>3, <1>r, <1>9, <1>12 DEF MemoryInv
  <1>24. CellInv(up, lv, reg)'
    <2>1. ASSUME NEW d \in Cells, d # NNode
          PROVE  /\ up[d] \in Cells \X Sub /\ d < up[d][1] /\ lv[d] = lv[up[d][1]] + 1
                 /\ \A y : y \in reg[d] <=> y \in reg[up[d][1]] /\ Oct(up[d][1], y)' = up[d][2]
      <3>1. /\ up[d] \in Cells \X Sub /\ d < up[d][1] /\ lv[d] = lv[up[d][1]] + 1
            /\ \A y : y \in reg[d] <=> y \in reg[up[d][1]] /\ Oct(up[d][1], y) = up[d][2]
        BY <1>3, <2>1 DEF CellInv
      <3>2. up[d][1] # c /\ reg[up[d][1]] \subseteq Body /\ up[d][1] \in Cells
        BY <1>3, <1>5, <2>1, <3>1 DEF CellInv
      <3>3. \A y \in reg[up[d][1]] : Oct(up[d][1], y)' = Oct(up[d][1], y)
        BY <1>9, <3>2
      <3>4. QED
        BY <3>1, <3>3
    <2>2. QED
      BY <1>3, <1>6, <2>1 DEF CellInv
  <1>25. LinkInv(up, own)'
    <2>1. ASSUME NEW m \in Cells, NEW t \in Sub, isCell(child'[m][t])
          PROVE  /\ child'[m][t] \in Cells /\ child'[m][t] # NNode
                 /\ up[child'[m][t]] = <<m, t>> /\ own[child'[m][t]] = own[m]
      <3>1. m # c
        BY <1>12, <1>17, <2>1
      <3>2. CASE bt[w].patch # -1 /\ m = n /\ t = j
        BY <1>5, <1>12, <3>2
      <3>3. CASE ~(bt[w].patch # -1 /\ m = n /\ t = j)
        <4>1. child'[m][t] = child[m][t]
          BY <1>6, <1>12, <3>1, <3>3
        <4>2. isCell(child[m][t]) => /\ child[m][t] \in Cells /\ child[m][t] # NNode
                                     /\ up[child[m][t]] = <<m, t>> /\ own[child[m][t]] = own[m]
          BY <1>3 DEF LinkInv
        <4>3. QED
          BY <2>1, <4>1, <4>2
      <3>4. QED
        BY <3>2, <3>3
    <2>2. \A m \in Node, t \in Sub : isCell(m) /\ m < ts'.bottom => child'[m][t] = NULL_BODY
      <3>1. \A m \in Node, t \in Sub : isCell(m) /\ m < ts.bottom => child[m][t] = NULL_BODY
        BY <1>3 DEF LinkInv
      <3>2. \A m \in Node : m < ts.bottom => m # c /\ m # n
        BY <1>3, NodeAssumption DEF Cells, MemoryInv, Node
      <3>3. QED
        BY <1>r, <1>12, <3>1, <3>2
    <2>3. ASSUME NEW d \in Cells, d # NNode, own[d] = NoItem
          PROVE  child'[up[d][1]][up[d][2]] = d
      <3>1. up[d][1] \in Cells /\ up[d][2] \in Sub /\ child[up[d][1]][up[d][2]] = d
        BY <1>3, <2>3 DEF CellInv, LinkInv
      <3>2. QED
        BY <1>6, <1>21, <3>1
    <2>4. own = [d \in Node |-> own[d]] /\ own[NNode] = NoItem
      BY <1>3 DEF LinkInv
    <2>5. QED
      BY <1>6, <2>1, <2>2, <2>3, <2>4 DEF LinkInv
  <1>26. UniqueInv(reg, own)'
    <2>1. ASSUME NEW m \in Cells, NEW l \in Cells, l < m, own[l] = own[m], NEW y, y \in reg[m], y \in reg[l]
          PROVE  isCell(Leads(m, y)') \/ \E v \in Item : Filling(v, l)'
      <3>0. y \in Body
        BY <1>3, <2>1 DEF CellInv
      <3>1. CASE isCell(Leads(m, y))
        BY <1>22, <3>0, <3>1
      <3>2. CASE l # c /\ \E v \in Item : Filling(v, l)
        BY <1>16, <1>20, <3>2
      <3>3. CASE l = c
        <4>1. own[m] = w /\ m # c
          BY <1>5, <1>6, <2>1, <3>3
        <4>2. bt[w].patch # -1 /\ n <= m /\ own[n] = w
          BY <1>10, <1>11, <1>17, <4>1
        <4>3. y \in reg[n] /\ Oct(n, y) = j
          BY <1>3, <1>5, <2>1, <3>3 DEF CellInv
        <4>4. CASE m = n
          <5>1. n # c /\ Oct(n, y)' = j
            BY <1>6, <1>9, <3>0, <4>3
          <5>2. QED
            BY <1>6, <1>12, <4>2, <4>4, <5>1 DEF Leads
        <4>5. CASE m # n
          <5>1. n < m
            BY <1>6, <4>2, <4>5
          <5>2. \A v \in Item : ~Filling(v, n)
            <6>1. SUFFICES ASSUME NEW v \in Item, Filling(v, n)
                           PROVE  FALSE
              OBVIOUS
            <6>2. bt[v].pc = "fill" /\ Chains(v) /\ bt[v].cell = n
              BY <6>1 DEF Filling, Chains, Chaining
            <6>3. own[n] = v
              BY <1>3, <6>2 DEF ItemInv, Chain, ChainFill
            <6>4. QED
              BY <1>5, <1>6, <4>2, <6>2, <6>3
          <5>3. isCell(Leads(m, y))
            BY <1>3, <2>1, <4>1, <4>2, <4>3, <5>1, <5>2 DEF UniqueInv
          <5>4. QED
            BY <1>22, <3>0, <5>3
        <4>6. QED
          BY <4>4, <4>5
      <3>4. QED
        BY <1>3, <2>1, <3>1, <3>2, <3>3 DEF UniqueInv
    <2>2. QED
      BY <1>6, <2>1 DEF UniqueInv, isCell
  <1>27. BodyInv(reg, own)'
    <2>1. ASSUME NEW m \in Cells, NEW t \in Sub, NEW y \in Body, y = child'[m][t]
          PROVE  /\ Oct(m, y)' = t /\ y \in reg[m]
                 /\ own[m] = NoItem => y \in loaded'
                 /\ own[m] # NoItem => y \in {bt'[own[m]].i, Was(own[m])'}
      <3>1. CASE m = c
        <4>1. t = jb /\ y = b
          BY <1>12, <1>17, <2>1, <3>1
        <4>2. QED
          BY <1>5, <1>6, <1>8, <1>15, <1>17, <3>1, <4>1
      <3>2. CASE m # c
        <4>1. y = child[m][t] /\ Oct(m, y)' = Oct(m, y)
          BY <1>6, <1>9, <1>12, <2>1, <3>2
        <4>2. /\ Oct(m, y) = t /\ y \in reg[m] /\ (own[m] = NoItem => y \in loaded)
              /\ own[m] # NoItem => y \in {bt[own[m]].i, Was(own[m])}
          BY <1>3, <4>1 DEF BodyInv
        <4>3. own[m] # NoItem => bt'[own[m]].i = bt[own[m]].i /\ Was(own[m])' = Was(own[m])
          BY <1>3, <1>20 DEF ItemInv
        <4>4. QED
          BY <1>r, <4>1, <4>2, <4>3
      <3>3. QED
        BY <3>1, <3>2
    <2>2. QED
      BY <1>6, <2>1 DEF BodyInv
  <1>28. LockInv(own)'
    <2>1. \A m \in Cells, t \in Sub : child'[m][t] = LOCK => child[m][t] = LOCK
      BY <1>6, <1>12, <1>17 DEF Body
    <2>2. \A m \in Cells, t \in Sub : child'[m][t] = LOCK =>
            own[m] = NoItem /\ \E v \in Item : Holds(v)' /\ bt'[v].locked = <<m, t>>
      <3>1. SUFFICES ASSUME NEW m \in Cells, NEW t \in Sub, child[m][t] = LOCK
                     PROVE  own[m] = NoItem /\ \E v \in Item : Holds(v)' /\ bt'[v].locked = <<m, t>>
        BY <2>1
      <3>2. own[m] = NoItem /\ \E v \in Item : Holds(v) /\ bt[v].locked = <<m, t>>
        BY <1>3, <3>1 DEF LockInv
      <3>3. QED
        BY <1>20, <3>2
    <2>3. \A v, y \in Item : Holds(v)' /\ Holds(y)' /\ bt'[v].locked = bt'[y].locked => v = y
      BY <1>3, <1>20 DEF LockInv
    <2>4. QED
      BY <1>6, <2>2, <2>3 DEF LockInv
  <1>29. LoadedInv(reg, own)'
    <2>1. ASSUME NEW y \in loaded, NEW m \in Cells, own[m] = NoItem, y \in reg[m]
          PROVE  \/ isCell(Leads(m, y)') \/ Leads(m, y)' = y
                 \/ \E v \in Item : Chains(v)' /\ bt'[v].locked = <<m, Oct(m, y)'>> /\ Was(v)' = y
      <3>1. m # c /\ y \in Body
        BY <1>3, <1>5, <1>17, <2>1 DEF MemoryInv
      <3>2. Oct(m, y)' = Oct(m, y)
        BY <1>9, <3>1
      <3>3. Leads(m, y)' = Leads(m, y)
        BY <1>17, <1>18, <2>1, <3>2, OctRange DEF Leads
      <3>4. QED
        BY <1>3, <1>20, <2>1, <3>2, <3>3 DEF LoadedInv
    <2>2. QED
      BY <1>6, <1>r, <2>1 DEF LoadedInv, isCell
  <1>30. FullInv(own)'
    <2>1. ASSUME NEW d \in Cells, d # NNode, own[d] = NoItem
          PROVE  \/ \E t \in Sub : isCell(child'[d][t]) \/ \E v \in Item : Chains(v)' /\ bt'[v].locked = <<d, t>>
                 \/ \A t \in Sub : child'[d][t] # NULL_BODY
      <3>1. \A t \in Sub : child'[d][t] = child[d][t]
        BY <1>17, <1>18, <2>1
      <3>2. QED
        BY <1>3, <1>20, <2>1, <3>1 DEF FullInv
    <2>2. QED
      BY <1>6, <2>1 DEF FullInv
  <1>31. Walks(w, lv, reg, own)'
    <2>1. bt'[w].pc \in Labels /\ bt'[w].pc \notin {"read", "lock", "skip"}
      BY <1>14 DEF Labels, Holding, Chaining
    <2>2. i \in Nat
      BY DEF Body
    <2>3. QED
      BY <1>r, <1>16, <2>1, <2>2 DEF Walks
  <1>32. Locks(w, lv, reg, own)'
    <2>1. child'[p][s] = LOCK /\ Oct(p, i)' = s /\ Oct(p, b)' = s
      BY <1>4, <1>9, <1>17, <1>18
    <2>2. bt'[w].pc # "fill" /\ bt'[w].pc # "insert" /\ bt'[w].depth = lv[c]
      BY <1>5, <1>r, <1>14
    <2>3. /\ bt'[w].i \notin loaded' /\ bt'[w].locked \in Cells' \X Sub /\ bt'[w].i = i
          /\ bt'[w].locked[1] = p /\ bt'[w].locked[2] = s /\ bt'[w].n = c /\ c \in Cells'
      BY <1>4, <1>6, <1>r
    <2>4. bt'[w].j = Oct(bt[w].n, bt[w].i)'
      BY <1>r, <1>8
    <2>5. Oct(bt[w].locked[1], bt[w].i)' = s /\ Oct(bt[w].locked[1], Was(w))' = s
      BY <1>15, <2>1, <2>3
    <2>6. QED
      BY <1>4, <1>r, <1>15, <2>1, <2>2, <2>3, <2>4, <2>5 DEF Locks
  <1>33. Chain(w, up, lv, reg, own)'
    <2>1. ASSUME NEW d \in Cells, own[d] = w
          PROVE  ChainCell(w, d, up, lv, reg)'
      <3>1. ChainCell(w, d, up, lv, reg) /\ reg[d] \subseteq Body /\ d # NNode
        BY <1>3, <1>17, <2>1 DEF Chain, CellInv, LinkInv
      <3>2. lv[d] <= bt'[w].depth
        BY <1>r, <3>1 DEF ChainCell
      <3>3. \A y \in reg[d] : y \in reg[p] /\ Oct(p, y)' = s
        <4>1. \A y \in reg[d] : y \in reg[p] /\ Oct(p, y) = s
          BY <1>4, <3>1 DEF ChainCell
        <4>2. QED
          BY <1>9, <1>17, <3>1, <4>1
      <3>4. /\ i \in reg[d] /\ b \in reg[d] /\ (d = bt'[w].patch \/ child'[up[d][1]][up[d][2]] = d)
            /\ isCell(Leads(d, b)') \/ Leads(d, b)' = b
        <4>1. CASE d = c
          <5>1. Leads(c, b)' = b
            BY <1>8, <1>12 DEF Leads
          <5>2. c = bt'[w].patch \/ child'[up[c][1]][up[c][2]] = c
            BY <1>5, <1>r, <1>10, <1>12
          <5>3. QED
            BY <1>6, <4>1, <5>1, <5>2
        <4>2. CASE d # c
          <5>1. /\ i \in reg[d] /\ b \in reg[d] /\ (d = bt[w].patch \/ child[up[d][1]][up[d][2]] = d)
                /\ isCell(Leads(d, b)) \/ Leads(d, b) = b
            BY <1>4, <1>16, <3>1, <4>2 DEF ChainCell
          <5>2. bt[w].patch # -1 /\ bt'[w].patch = bt[w].patch
            BY <1>r, <1>10, <1>11, <2>1, <4>2
          <5>3. up[d][1] \in Cells /\ up[d][2] \in Sub
            BY <1>3, <3>1 DEF CellInv
          <5>4. child[up[d][1]][up[d][2]] = d => child'[up[d][1]][up[d][2]] = d
            BY <1>6, <1>21, <5>3
          <5>5. Leads(d, b) = b => isCell(Leads(d, b)') \/ Leads(d, b)' = b
            <6>1. SUFFICES ASSUME Leads(d, b) = b
                           PROVE  isCell(Leads(d, b)') \/ Leads(d, b)' = b
              OBVIOUS
            <6>2. Oct(d, b)' = Oct(d, b) /\ Oct(d, b) \in Sub
              BY <1>9, <4>2, OctRange
            <6>3. CASE d = n /\ Oct(d, b) = j
              BY <1>6, <1>12, <5>2, <6>2, <6>3 DEF Leads
            <6>4. CASE ~(d = n /\ Oct(d, b) = j)
              BY <1>6, <1>12, <4>2, <6>1, <6>2, <6>4 DEF Leads
            <6>5. QED
              BY <6>3, <6>4
          <5>6. QED
            BY <1>22, <5>1, <5>2, <5>4, <5>5
        <4>3. QED
          BY <4>1, <4>2
      <3>5. QED
        BY <1>r, <1>15, <3>2, <3>3, <3>4 DEF ChainCell, isCell
    <2>2. PICK q \in Cells : /\ q = bt'[w].patch /\ q # NNode /\ own[q] = w /\ up[q] = <<p, s>>
                             /\ \A d \in Cells : own[d] = w => c <= d /\ d <= q
      <3>1. CASE bt[w].patch = -1
        <4>1. bt'[w].patch = c
          BY <1>r, <1>10, <3>1
        <4>2. up[c] = <<p, s>>
          BY <1>3, <1>4, <1>5, <3>1 DEF Chain, NoChain
        <4>3. \A d \in Cells : own[d] = w => c <= d /\ d <= c
          BY <1>6, <1>11, <3>1
        <4>4. QED
          BY <1>5, <4>1, <4>2, <4>3
      <3>2. CASE bt[w].patch # -1
        BY <1>6, <1>r, <1>10, <3>2
      <3>3. QED
        BY <3>1, <3>2
    <2>3. ChainEnds(w, up, own)'
      <3>1. bt'[w].pc \in {"alloc", "fill"} => child'[c][bt'[w].j] = Was(w)'
        BY <1>r, <1>8, <1>12, <1>14, <1>15
      <3>2. QED
        BY <1>5, <1>6, <1>r, <1>16, <2>2, <3>1 DEF ChainEnds
    <2>4. bt'[w].patch # -1
      BY <1>6, <2>2
    <2>5. bt'[w].pc \in {"alloc", "link"} /\ (bt'[w].pc = "link" => child'[bt'[w].n][bt'[w].j] = NULL_BODY)
      BY <1>r, <1>8, <1>14
    <2>6. QED
      BY <1>6, <2>1, <2>3, <2>4, <2>5 DEF Chain
  <1>34. ItemInv(up, lv, reg, own)'
    BY <1>16, <1>19, <1>31, <1>32, <1>33, FrameItems
  <1>35. CoverInv(lv, own)'
    <2>1. bt[w].maxd <= bt'[w].maxd /\ ts.maxDepth <= ts'.maxDepth /\ bt'[w].pc # "exit"
      BY <1>r, <1>14 DEF NumInv
    <2>2. \A v \in {w} : bt[v].pc # "exit" => \/ bt'[v].pc # "exit" /\ bt[v].maxd <= bt'[v].maxd
                                              \/ bt[v].maxd <= ts'.maxDepth
      BY <2>1
    <2>3. lv \in [Node -> Nat] /\ {w} \in SUBSET Item /\ \A v \in Item \ {w} : bt'[v] = bt[v]
      BY <1>3, <1>r DEF CellInv, Only
    <2>4. QED
      BY <1>3, <1>r, <2>1, <2>2, <2>3, CoverStep
  <1>36. QED
    BY <1>23, <1>24, <1>25, <1>26, <1>27, <1>28, <1>29, <1>30, <1>34, <1>35 DEF TreeInv

-----------------------------------------------------------------------------
(* Every step of the whole program.                                         *)

IsTree == \E up, lv, reg, own : TreeInv(up, lv, reg, own)

LEMMA BuildItemTree ==
    ASSUME ShapeInv, NumInv, NumInv', Fit, Fit', pass \in Nat, IsTree, NEW w \in Item, BuildItem(w)
    PROVE  IsTree'
  <1>1. PICK up, lv, reg, own : TreeInv(up, lv, reg, own)
    BY DEF IsTree
  <1>2. CASE WhileDead(w) \/ WhileMore(w) \/ Skip(w) \/ Leave(w)
    BY <1>1, <1>2, WalkActions DEF IsTree
  <1>3. CASE Read(w)
    BY <1>1, <1>3, ReadAction DEF IsTree
  <1>4. CASE TryLock(w)
    BY <1>1, <1>4, TryLockAction DEF IsTree
  <1>5. CASE Insert(w)
    BY <1>1, <1>5, InsertAction DEF IsTree
  <1>6. CASE Alloc(w)
    <2>1. \E up2, lv2, reg2, own2 : TreeInv(up2, lv2, reg2, own2)'
      BY <1>1, <1>6, AllocAction
    <2>2. QED
      BY <2>1 DEF IsTree
  <1>7. CASE Overflow(w)
    <2>1. bt[w].pc = "overflow"
      BY <1>7, OverflowDoes
    <2>2. bt[w].pc \in Labels
      BY <1>1 DEF TreeInv, ItemInv, Walks
    <2>3. QED
      BY <2>1, <2>2 DEF Labels, Holding, Chaining
  <1>8. CASE Fill(w)
    BY <1>1, <1>8, FillAction DEF IsTree
  <1>9. CASE Link(w)
    BY <1>1, <1>9, LinkAction DEF IsTree
  <1>10. CASE Publish(w)
    <2>1. PICK own2 : own2 = [c \in Node |-> IF own[c] = w THEN NoItem ELSE own[c]]
      OBVIOUS
    <2>2. TreeInv(up, lv, reg, own2)'
      BY <1>1, <1>10, <2>1, PublishAction
    <2>3. QED
      BY <2>2 DEF IsTree
  <1>11. QED
    BY <1>2, <1>3, <1>4, <1>5, <1>6, <1>7, <1>8, <1>9, <1>10 DEF BuildItem

LEMMA BuildGroupTree ==
    ASSUME ShapeInv, NumInv, NumInv', IsTree, NEW g \in Group, GroupStart(g) \/ Barrier(g) \/ Sync(g)
    PROVE  IsTree'
  <1>1. PICK up, lv, reg, own : TreeInv(up, lv, reg, own)
    BY DEF IsTree
  <1>2. TreeInv(up, lv, reg, own)'
    BY <1>1, GroupActions
  <1>3. QED
    BY <1>2 DEF IsTree


LEMMA FirstBody ==
    ASSUME ShapeInv, NEW k \in Nat, NEW w \in Item
    PROVE  Gid(w) \in Nat /\ Offset(k) \in Nat /\ Gid(w) + (IF mode.consistent THEN Offset(k) ELSE 0) \in Nat
  <1>1. w[1] \in Nat /\ w[2] \in Nat /\ Inc \in Nat /\ mode.lanes \in Nat
    BY IncNat DEF Item, Group, Lane
  <1>2. w[1] * mode.lanes \in Nat /\ k * Inc \in Nat
    BY <1>1
  <1>3. QED
    BY <1>1, <1>2 DEF Gid, Offset

Types ==
  /\ child \in [Node -> [Sub -> Node \cup {NULL_BODY, LOCK}]]
  /\ pos = [n \in Node |-> pos[n]]
  /\ ts.maxDepth >= 1

\* The tree that boundingBox and buildTreeClear leave: the root alone.
LEMMA ClearTree ==
    ASSUME ShapeInv, NumInv, Types, ts.bottom = NNode, \A s \in Sub : child[NNode][s] = NULL_BODY,
           buildTreeClear
    PROVE  IsTree'
  <1> DEFINE up == [c \in Node |-> <<NNode, 0>>]
             lv == [c \in Node |-> 1]
             reg == [c \in Node |-> Body]
             own == [c \in Node |-> NoItem]
  <1>1. /\ child' = [n \in Node |-> IF isCell(n) /\ n < NNode THEN [j \in Sub |-> NULL_BODY] ELSE child[n]]
        /\ loaded' = {} /\ UNCHANGED <<mode, pos, ts>> /\ LaunchBuild(0)
    BY DEF buildTreeClear
  <1>2. NNode \in Node /\ NNode \in Nat /\ NBody \in Nat /\ NNode > NBody + 1
    BY NodeAssumption DEF Node
  <1>3. Cells' = {NNode} /\ Cells = {NNode} /\ Item' = Item
    BY <1>1, <1>2, SameItems DEF Cells
  <1>4. \A n \in Node, s \in Sub : isCell(n) => child'[n][s] = NULL_BODY
    BY <1>1, <1>2 DEF Node, isCell
  <1>5. MemoryInv'
    <2>1. child' \in [Node -> [Sub -> Node \cup {NULL_BODY, LOCK}]]
      BY <1>1 DEF Types
    <2>2. NNode \in NBody + 1 .. NNode
      BY <1>2
    <2>3. QED
      BY <1>1, <2>1, <2>2 DEF Types, MemoryInv
  <1>6. lv[NNode] = 1 /\ reg[NNode] = Body /\ own[NNode] = NoItem /\ lv \in [Node -> Nat]
        /\ own = [c \in Node |-> own[c]]
    BY <1>2
  <1>7. PICK xu, xl, xr, xo : xu = up /\ xl = lv /\ xr = reg /\ xo = own
    OBVIOUS
  <1>8. xl[NNode] = 1 /\ xr[NNode] = Body /\ xo[NNode] = NoItem /\ xl \in [Node -> Nat] /\ xo = [c \in Node |-> xo[c]]
    BY <1>6, <1>7
  <1> HIDE DEF up, lv, reg, own
  <1>9. ~isCell(NULL_BODY) /\ NULL_BODY \notin Body /\ NULL_BODY # LOCK /\ isCell(NNode)
    BY <1>2 DEF isCell, NULL_BODY, LOCK, Body
  <1>a. CellInv(xu, xl, xr)'
    BY <1>3, <1>8 DEF CellInv
  <1>b. LinkInv(xu, xo)'
    BY <1>2, <1>3, <1>4, <1>8, <1>9 DEF LinkInv
  <1>c. UniqueInv(xr, xo)'
    BY <1>2, <1>3 DEF UniqueInv
  <1>d. BodyInv(xr, xo)'
    BY <1>2, <1>3, <1>4, <1>9 DEF BodyInv
  <1>e. ASSUME NEW w \in Item
        PROVE  ~Holds(w)' /\ ~Chains(w)' /\ Walks(w, xl, xr, xo)'
    <2>1. PICK i \in Nat : Begins(w, i, 1) /\ bt'[w].pc = "start"
      BY <1>1, FirstBody, LaunchDoes
    <2>2. ~Holds(w)' /\ ~Chains(w)' /\ bt'[w].pc \in Labels /\ bt'[w].pc \notin {"read", "lock", "skip"}
      BY <2>1 DEF Holds, Chains, Holding, Chaining, Labels
    <2>3. bt'[w].j \in Sub /\ \A a, b : Oct(a, b)' = Oct(a, b)
      BY <1>1, <2>1, OctRange, OctKept DEF Begins, Sub
    <2>4. QED
      BY <1>3, <1>8, <2>1, <2>2, <2>3 DEF Walks, Begins
  <1>f. LockInv(xo)'
    BY <1>2, <1>3, <1>4, <1>9, <1>e DEF LockInv
  <1>g. LoadedInv(xr, xo)'
    BY <1>1 DEF LoadedInv
  <1>h. FullInv(xo)'
    BY <1>3 DEF FullInv
  <1>i. ItemInv(xu, xl, xr, xo)'
    BY <1>3, <1>8, <1>e DEF ItemInv
  <1>j. CoverInv(xl, xo)'
    BY <1>1, <1>3, <1>8 DEF CoverInv, Types, NumInv
  <1>k. TreeInv(xu, xl, xr, xo)'
    BY <1>5, <1>a, <1>b, <1>c, <1>d, <1>f, <1>g, <1>h, <1>i, <1>j DEF TreeInv
  <1>l. QED
    BY <1>k DEF IsTree

\* A launch behind another one goes on with the tree it finds.
LEMMA LaunchTree ==
    ASSUME ShapeInv, NumInv, NumInv', IsTree, BuildEnded, NEW k \in Nat, LaunchBuild(k),
           UNCHANGED <<mode, child, pos, loaded, ts>>
    PROVE  IsTree'
  <1>1. PICK up, lv, reg, own : TreeInv(up, lv, reg, own)
    BY DEF IsTree
  <1>2. MemoryInv /\ lv[NNode] = 1 /\ reg[NNode] = Body /\ own[NNode] = NoItem
    BY <1>1 DEF TreeInv, CellInv, LinkInv
  <1>3. ASSUME NEW w \in Item
        PROVE  ~Holds(w) /\ ~Holds(w)' /\ Walks(w, lv, reg, own)'
    <2>1. PICK i \in Nat : Begins(w, i, 1) /\ bt'[w].pc = "start"
      BY FirstBody, LaunchDoes
    <2>2. bt'[w].pc \in {"start", "while", "barrier"} /\ ts'.bottom = ts.bottom
      BY <2>1
    <2>3. ~Holds(w)' /\ Walks(w, lv, reg, own)'
      BY <1>2, <2>1, <2>2, BeginsWalks
    <2>4. QED
      BY <2>3 DEF BuildEnded, Holds, Holding, Chaining
  <1>4. CoverInv(lv, own)'
    <2>1. CoverInv(lv, own) /\ \A w \in Item : bt[w].pc = "exit"
      BY <1>1 DEF TreeInv, BuildEnded
    <2>2. Cells' = Cells
      BY DEF Cells
    <2>3. QED
      BY <2>1, <2>2 DEF CoverInv
  <1>5. TreeInv(up, lv, reg, own)'
    <2> DEFINE U == Item
    <2>1. U \in SUBSET Item /\ \A v \in Item \ U : bt'[v] = bt[v]
      OBVIOUS
    <2>2. \A v \in U : ~Holds(v) /\ ~Holds(v)' /\ Walks(v, lv, reg, own)'
      BY <1>3
    <2> HIDE DEF U
    <2>3. QED
      BY <1>1, <1>4, <2>1, <2>2, WalkStep
  <1>6. QED
    BY <1>5 DEF IsTree

\* What does not touch the tree or the registers of buildTree.
LEMMA SameTree ==
    ASSUME IsTree, UNCHANGED <<mode, child, pos, loaded, bt>>, ts'.bottom = ts.bottom, ts'.maxDepth = ts.maxDepth
    PROVE  IsTree'
  <1>1. PICK up, lv, reg, own : TreeInv(up, lv, reg, own)
    BY DEF IsTree
  <1>2. Item' = Item /\ Cells' = Cells
    BY SameItems DEF Cells
  <1>3. CoverInv(lv, own)'
    BY <1>1, <1>2 DEF TreeInv, CoverInv
  <1>4. TreeInv(up, lv, reg, own)'
    <2> DEFINE U == {}
    <2>1. U \in SUBSET Item /\ \A v \in Item \ U : bt'[v] = bt[v]
      OBVIOUS
    <2>2. \A v \in U : ~Holds(v) /\ ~Holds(v)' /\ Walks(v, lv, reg, own)'
      OBVIOUS
    <2> HIDE DEF U
    <2>3. QED
      BY <1>1, <1>3, <2>1, <2>2, WalkStep
  <1>5. QED
    BY <1>4 DEF IsTree

-----------------------------------------------------------------------------
(* boundingBox: the last group to count itself creates the root.            *)

BoxDone == {g \in Group : box[g].pc = "exit"}
BoxInv ==
  /\ box = [g \in Group |-> box[g]] /\ \A g \in Group : IsRecord(box[g], {"pc", "ext"})
  /\ BoxDone # Group => ts.blkCnt = Cardinality(BoxDone)
  /\ BoxDone = Group => /\ ts.blkCnt = 0 /\ ts.doneCnt = 0 /\ ts.bottom = NNode
                        /\ \A s \in Sub : child[NNode][s] = NULL_BODY

LEMMA GroupCount ==
    ASSUME ShapeInv
    PROVE  /\ IsFiniteSet(Group) /\ Cardinality(Group) = mode.groups /\ Group # {}
           /\ \A A \in SUBSET Group : IsFiniteSet(A) /\ Cardinality(A) \in Nat
                                      /\ (Cardinality(A) = mode.groups => A = Group)
  <1>1. mode.groups \in Nat /\ mode.groups >= 1
    BY IncNat
  <1>2. 0 \in Int /\ mode.groups - 1 \in Int /\ 0 <= mode.groups - 1
    BY <1>1
  <1>3. IsFiniteSet(0 .. mode.groups - 1) /\ Cardinality(0 .. mode.groups - 1) = (mode.groups - 1) - 0 + 1
    BY <1>2, FS_Interval
  <1>4. IsFiniteSet(Group) /\ Cardinality(Group) = mode.groups
    BY <1>1, <1>3 DEF Group
  <1>5. 0 \in Group
    BY <1>1 DEF Group
  <1>6. ASSUME NEW A \in SUBSET Group
        PROVE  IsFiniteSet(A) /\ Cardinality(A) \in Nat /\ (Cardinality(A) = mode.groups => A = Group)
    BY <1>4, FS_Subset, FS_CardinalityType
  <1>7. QED
    BY <1>4, <1>5, <1>6

LEMMA BoxReduceBox ==
    ASSUME ShapeInv, BoxInv, NEW g \in Group, BoxReduce(g)
    PROVE  BoxInv'
  <1>1. UNCHANGED <<mode, ts, child>> /\ box[g].pc = "scan"
    BY DEF BoxReduce, buffers
  <1>2. Group' = Group
    BY <1>1 DEF Group
  <1>3. PICK e : box' = [box EXCEPT ![g] = [pc |-> "count", ext |-> e]]
    BY DEF BoxReduce
  <1>4. /\ box' = [h \in Group |-> box'[h]] /\ box'[g] = [pc |-> "count", ext |-> e]
        /\ \A h \in Group \ {g} : box'[h] = box[h]
    BY <1>3 DEF BoxInv
  <1>5. \A h \in Group : IsRecord(box'[h], {"pc", "ext"})
    BY <1>4 DEF BoxInv, IsRecord
  <1>6. BoxDone' = BoxDone
    <2>1. \A h \in Group : box'[h].pc = "exit" <=> box[h].pc = "exit"
      BY <1>1, <1>4
    <2>2. QED
      BY <1>2, <2>1 DEF BoxDone
  <1>7. QED
    BY <1>1, <1>2, <1>4, <1>5, <1>6 DEF BoxInv

LEMMA BoxCountBox ==
    ASSUME ShapeInv, BoxInv, Types, NEW g \in Group, BoxCount(g)
    PROVE  BoxInv' /\ Types'
  <1>1. UNCHANGED mode /\ box[g].pc = "count" /\ box' = [box EXCEPT ![g].pc = "exit"]
    BY DEF BoxCount
  <1>2. Group' = Group
    BY <1>1 DEF Group
  <1>3. IsRecord(box[g], {"pc", "ext"}) /\ box = [h \in Group |-> box[h]]
    BY DEF BoxInv
  <1>4. /\ box' = [h \in Group |-> box'[h]] /\ box'[g] = [box[g] EXCEPT !.pc = "exit"]
        /\ \A h \in Group \ {g} : box'[h] = box[h]
    BY <1>1, <1>3
  <1>5. IsRecord(box'[g], {"pc", "ext"}) /\ box'[g].pc = "exit"
    BY <1>3, <1>4 DEF IsRecord
  <1>6. \A h \in Group : IsRecord(box'[h], {"pc", "ext"})
    BY <1>4, <1>5 DEF BoxInv
  <1>7. BoxDone' = BoxDone \cup {g} /\ g \notin BoxDone /\ BoxDone # Group
    <2>1. \A h \in Group : box'[h].pc = "exit" <=> (h = g \/ box[h].pc = "exit")
      BY <1>4, <1>5
    <2>2. QED
      BY <1>1, <1>2, <2>1 DEF BoxDone
  <1>8. BoxDone \in SUBSET Group /\ BoxDone' \in SUBSET Group
    BY <1>2 DEF BoxDone
  <1>9. Cardinality(BoxDone') = Cardinality(BoxDone) + 1 /\ Cardinality(BoxDone) \in Nat
    BY <1>7, <1>8, GroupCount, FS_AddElement
  <1>10. ts.blkCnt = Cardinality(BoxDone) /\ IsRecord(ts, StatusFields)
    BY <1>7 DEF BoxInv, ShapeInv
  <1>11. CASE ts.blkCnt = mode.groups - 1
    <2>1. PICK r, c : /\ ts' = [ts EXCEPT !.radius = r, !.bottom = NNode, !.blkCnt = 0, !.doneCnt = 0]
                      /\ pos' = [pos EXCEPT ![NNode] = c]
                      /\ child' = [child EXCEPT ![NNode] = [j \in Sub |-> NULL_BODY]]
      BY <1>11 DEF BoxCount
    <2>2. BoxDone' = Group
      BY <1>8, <1>9, <1>10, <1>11, GroupCount, IncNat
    <2>3. ts'.blkCnt = 0 /\ ts'.doneCnt = 0 /\ ts'.bottom = NNode /\ ts'.maxDepth = ts.maxDepth
      BY <1>10, <2>1 DEF IsRecord, StatusFields
    <2>4. NNode \in Node
      BY NodeAssumption DEF Node
    <2>5. \A s \in Sub : child'[NNode][s] = NULL_BODY
      BY <2>1, <2>4 DEF Types
    <2>6. Types'
      BY <2>1, <2>3, <2>4 DEF Types
    <2>7. QED
      BY <1>2, <1>4, <1>6, <2>2, <2>3, <2>5, <2>6 DEF BoxInv
  <1>12. CASE ts.blkCnt # mode.groups - 1
    <2>1. ts' = [ts EXCEPT !.blkCnt = @ + 1] /\ UNCHANGED <<pos, child>>
      BY <1>12 DEF BoxCount
    <2>2. ts'.blkCnt = Cardinality(BoxDone') /\ ts'.maxDepth = ts.maxDepth
      BY <1>9, <1>10, <2>1 DEF IsRecord, StatusFields
    <2>3. BoxDone' # Group
      BY <1>9, <1>10, <1>12, GroupCount, IncNat
    <2>4. Types'
      BY <2>1, <2>2 DEF Types
    <2>5. QED
      BY <1>2, <1>4, <1>6, <2>2, <2>3, <2>4 DEF BoxInv
  <1>13. QED
    BY <1>11, <1>12

\* Before a step's first launch no group has counted itself.
LEMMA BoxIdle ==
    ASSUME ShapeInv, box = Idle[1], ts.blkCnt = 0
    PROVE  BoxInv
  <1>1. box = [g \in Group |-> [pc |-> "scan", ext |-> <<0, 0>>]]
    BY DEF Idle
  <1>2. BoxDone = {} /\ \A g \in Group : IsRecord(box[g], {"pc", "ext"})
    BY <1>1 DEF BoxDone, IsRecord
  <1>3. Cardinality({}) = 0
    BY FS_EmptySet
  <1>4. QED
    BY <1>1, <1>2, <1>3, GroupCount DEF BoxInv

-----------------------------------------------------------------------------
(* summarization moves the children of a cell to the front.                 *)

SumRegisters == {"pc", "k", "i", "j", "cnt", "missing", "total"}
SumInv ==
  /\ sm = [w \in Item |-> sm[w]] /\ \A w \in Item : IsRecord(sm[w], SumRegisters)
  /\ \A w \in Item : sm[w].pc = "scan" => sm[w].i \in Sub /\ sm[w].j \in 0 .. sm[w].i

LEMMA FromCellSum ==
    ASSUME NEW k, NEW ready, NEW R, R = FromCell(k, ready)
    PROVE  IsRecord(R, SumRegisters) /\ R.i = 0 /\ R.j = 0
  BY DEF FromCell, IsRecord, SumRegisters

\* The cells of a launch.
LEMMA LaunchSumInv ==
    ASSUME UNCHANGED mode, NEW first, sm' = [w \in Item |-> first[w]],
           \A w \in Item : \/ \E k, ready : first[w] = FromCell(k, ready)
                           \/ \E k, ready : first[w] = [FromCell(k, ready) EXCEPT !.pc = "sort"]
    PROVE  SumInv'
  <1>1. Item' = Item
    BY SameItems
  <1>2. ASSUME NEW w \in Item
        PROVE  IsRecord(sm'[w], SumRegisters) /\ (sm'[w].pc = "scan" => sm'[w].i = 0 /\ sm'[w].j = 0)
    <2>1. CASE \E k, ready : first[w] = FromCell(k, ready)
      BY <2>1, FromCellSum
    <2>2. CASE \E k, ready : first[w] = [FromCell(k, ready) EXCEPT !.pc = "sort"]
      <3>1. PICK k, ready : sm'[w] = [FromCell(k, ready) EXCEPT !.pc = "sort"]
        BY <2>2
      <3>2. QED
        BY <3>1 DEF FromCell, IsRecord, SumRegisters
    <2>3. QED
      BY <2>1, <2>2
  <1>3. 0 \in Sub /\ 0 \in 0 .. 0
    BY DEF Sub
  <1>4. QED
    BY <1>1, <1>2, <1>3 DEF SumInv

\* A step of one item.
LEMMA SumOne ==
    ASSUME SumInv, UNCHANGED mode, NEW w \in Item, NEW R, sm' = [sm EXCEPT ![w] = R],
           IsRecord(R, SumRegisters), R.pc = "scan" => R.i \in Sub /\ R.j \in 0 .. R.i
    PROVE  SumInv'
  <1>1. Item' = Item
    BY SameItems
  <1>2. QED
    BY <1>1 DEF SumInv

LEMMA SumLabel ==
    ASSUME SumInv, UNCHANGED mode, NEW w \in Item, NEW x, x # "scan", sm' = [sm EXCEPT ![w].pc = x]
    PROVE  SumInv'
  <1> DEFINE R == [sm[w] EXCEPT !.pc = x]
  <1>1. sm' = [sm EXCEPT ![w] = R]
    BY DEF SumInv
  <1>2. IsRecord(R, SumRegisters) /\ R.pc = x
    BY DEF SumInv, IsRecord, SumRegisters
  <1> HIDE DEF R
  <1>3. QED
    BY <1>1, <1>2, SumOne

LEMMA ScanDoes ==
    ASSUME SumInv, NEW w \in Item, Scan(w)
    PROVE  /\ SumInv' /\ UNCHANGED mode
           /\ \/ UNCHANGED child
              \/ \E k : \E i, j \in Sub : i # j /\ child' = [child EXCEPT ![k][i] = NULL_BODY, ![k][j] = child[k][i]]
  <1> DEFINE R == sm[w]
             c == child[R.k][R.i]
             left == IF c >= 0 /\ ~IsReady(c) THEN Append(R.missing, c) ELSE R.missing
             seen == IF c >= 0 THEN R.j + 1 ELSE R.j
             add == c >= 0 /\ IsReady(c)
             total == IF add THEN Plus(R.total, Contribution(c)) ELSE R.total
             cnt == R.cnt + (IF add THEN Extra(c) ELSE 0) + (IF R.i = 1 THEN seen ELSE 0)
             label == IF R.i = 1 THEN AfterScan(left) ELSE "scan"
             new == [R EXCEPT !.i = @ + 1, !.j = seen, !.missing = left, !.total = total, !.cnt = cnt,
                              !.pc = label]
  <1>1. R.i \in Sub /\ R.j \in 0 .. R.i /\ IsRecord(R, SumRegisters)
    BY DEF Scan, AtSum, SumInv
  <1>2. UNCHANGED mode
    BY DEF Scan
  <1>3. \/ UNCHANGED child
        \/ R.i # R.j /\ child' = [child EXCEPT ![R.k][R.i] = NULL_BODY, ![R.k][R.j] = c]
    BY DEF Scan
  <1>4. \/ UNCHANGED child
        \/ \E k : \E i, j \in Sub : i # j /\ child' = [child EXCEPT ![k][i] = NULL_BODY, ![k][j] = child[k][i]]
    <2>1. R.j \in Sub
      BY <1>1 DEF Sub
    <2>2. QED
      BY <1>1, <1>3, <2>1
  <1>5. sm' = [sm EXCEPT ![w] = [R EXCEPT
              !.i = @ + 1, !.j = seen, !.missing = left,
              !.total = IF add THEN Plus(@, Contribution(c)) ELSE @,
              !.cnt = @ + (IF add THEN Extra(c) ELSE 0) + (IF R.i = 1 THEN seen ELSE 0),
              !.pc = IF R.i = 1 THEN AfterScan(left) ELSE "scan"]]
    BY DEF Scan
  <1>6. sm' = [sm EXCEPT ![w] = new]
    BY <1>5
  <1>7. label = "scan" => R.i = 0
    BY <1>1 DEF AfterScan, Sub
  <1>8. R.i = 0 => seen \in 0 .. 1
    BY <1>1
  <1> HIDE DEF left, seen, add, total, cnt, label, c
  <1>9. IsRecord(new, SumRegisters) /\ new.i = R.i + 1 /\ new.j = seen /\ new.pc = label
    BY <1>1 DEF IsRecord, SumRegisters
  <1>10. new.pc = "scan" => new.i \in Sub /\ new.j \in 0 .. new.i
    BY <1>7, <1>8, <1>9 DEF Sub
  <1> HIDE DEF new
  <1>11. SumInv'
    BY <1>2, <1>6, <1>9, <1>10, SumOne
  <1>12. QED
    BY <1>2, <1>4, <1>11

LEMMA SumItemSum ==
    ASSUME SumInv, NEW w \in Item, SumItem(w) \/ SortCell(w)
    PROVE  SumInv'
  <1>1. CASE Scan(w)
    BY <1>1, ScanDoes
  <1>2. CASE Poll(w)
    <2> DEFINE R == sm[w]
               c == R.missing[Len(R.missing)]
               left == SubSeq(R.missing, 1, Len(R.missing) - 1)
    <2>1. UNCHANGED mode /\ IsRecord(R, SumRegisters)
      BY <1>2 DEF Poll, SumInv
    <2>2. CASE sm' = [sm EXCEPT ![w].pc = "next"]
      BY <2>1, <2>2, SumLabel
    <2>3. CASE sm' = [sm EXCEPT ![w] = [R EXCEPT
                 !.missing = left, !.total = Plus(@, Contribution(c)), !.cnt = @ + Extra(c),
                 !.pc = IF left = <<>> THEN "store" ELSE "poll"]]
      <3> DEFINE total == Plus(R.total, Contribution(c))
                 cnt == R.cnt + Extra(c)
                 label == IF left = <<>> THEN "store" ELSE "poll"
                 new == [R EXCEPT !.missing = left, !.total = total, !.cnt = cnt, !.pc = label]
      <3>1. sm' = [sm EXCEPT ![w] = new]
        BY <2>3
      <3>2. label # "scan"
        OBVIOUS
      <3> HIDE DEF total, cnt, label, left, c
      <3>3. IsRecord(new, SumRegisters) /\ new.pc = label
        BY <2>1 DEF IsRecord, SumRegisters
      <3> HIDE DEF new
      <3>4. QED
        BY <2>1, <3>1, <3>2, <3>3, SumOne
    <2>4. QED
      BY <1>2, <2>2, <2>3 DEF Poll
  <1>3. CASE Store(w)
    <2>1. UNCHANGED mode /\ sm' = [sm EXCEPT ![w].pc = "ready"]
      BY <1>3 DEF Store
    <2>2. QED
      BY <2>1, SumLabel
  <1>4. CASE SetReady(w)
    <2>1. UNCHANGED mode /\ sm' = [sm EXCEPT ![w].pc = "next"]
      BY <1>4 DEF SetReady
    <2>2. QED
      BY <2>1, SumLabel
  <1>5. CASE NextCell(w)
    <2> DEFINE new == FromCell(sm[w].k + Inc, ReadyWords(phase))
    <2>1. UNCHANGED mode /\ sm' = [sm EXCEPT ![w] = new]
      BY <1>5 DEF NextCell
    <2>2. IsRecord(new, SumRegisters) /\ new.i = 0 /\ new.j = 0
      BY FromCellSum
    <2>3. new.i \in Sub /\ new.j \in 0 .. new.i
      BY <2>2 DEF Sub
    <2> HIDE DEF new
    <2>4. QED
      BY <2>1, <2>2, <2>3, SumOne
  <1>6. CASE SortCell(w)
    <2> DEFINE new == [sm[w] EXCEPT !.k = @ - Inc]
    <2>1. UNCHANGED mode /\ sm' = [sm EXCEPT ![w].k = @ - Inc] /\ sm[w].pc = "sort"
      BY <1>6 DEF SortCell
    <2>2. sm' = [sm EXCEPT ![w] = new]
      BY <2>1 DEF SumInv
    <2>3. IsRecord(new, SumRegisters) /\ new.pc = "sort"
      BY <2>1 DEF SumInv, IsRecord, SumRegisters
    <2> HIDE DEF new
    <2>4. QED
      BY <2>1, <2>2, <2>3, SumOne
  <1>7. QED
    BY <1>1, <1>2, <1>3, <1>4, <1>5, <1>6 DEF SumItem

LEMMA SumNext == SumInv /\ [Next]_vars => SumInv'
  <1> SUFFICES ASSUME SumInv, [Next]_vars
               PROVE  SumInv'
    OBVIOUS
  <1>1. ASSUME UNCHANGED <<mode, sm>>
        PROVE  SumInv'
    <2>1. Item' = Item
      BY <1>1, SameItems
    <2>2. QED
      BY <1>1, <2>1 DEF SumInv
  <1>2. ASSUME NEW w \in Item, ItemStep(w)
        PROVE  SumInv'
    <2>1. CASE BuildItem(w)
      <3>1. UNCHANGED <<mode, sm>>
        BY <2>1 DEF BuildItem, WhileDead, WhileMore, Read, TryLock, Insert, Alloc, Overflow, Fill, Link,
                    Publish, Skip, Leave, Loaded, keep
      <3>2. QED
        BY <1>1, <3>1
    <2>2. CASE BuildGroup(w[1])
      <3>1. UNCHANGED <<mode, sm>>
        BY <2>2 DEF BuildGroup, BoxReduce, BoxCount, GroupStart, Barrier, Sync, keep
      <3>2. QED
        BY <1>1, <3>1
    <2>3. CASE \E u : Visit(u) \/ Save(u)
      <3>1. UNCHANGED <<mode, sm>>
        BY <2>3 DEF Visit, Save
      <3>2. QED
        BY <1>1, <3>1
    <2>4. QED
      BY <1>2, <2>1, <2>2, <2>3, SumItemSum DEF ItemStep
  <1>3. CASE BuildHost \/ ForceHost
    <2>1. UNCHANGED <<mode, sm>>
      BY <1>3 DEF BuildHost, buildTreeClear, NextChunk, Repeat, ForceHost, BeginForce, ForceAgain
    <2>2. QED
      BY <1>1, <2>1
  <1>4. CASE SumHost \/ integration
    <2>1. UNCHANGED mode
      BY <1>4 DEF SumHost, summarizationClear, SumAgain, SortAgain, QuadAgain, integration
    <2>2. CASE LaunchSort
      <3> DEFINE first == [w \in Item |-> [FromCell(NNode + 1 - Inc + Gid(w), Unfinished) EXCEPT !.pc = "sort"]]
      <3>1. \A w \in Item : \E k, ready : first[w] = [FromCell(k, ready) EXCEPT !.pc = "sort"]
        OBVIOUS
      <3>2. sm' = [w \in Item |-> first[w]]
        BY <2>2 DEF LaunchSort
      <3> HIDE DEF first
      <3>3. QED
        BY <2>1, <3>1, <3>2, LaunchSumInv
    <2>3. ASSUME NEW ready, sm' = [w \in Item |-> FromCell(FirstCell(w), ready)]
          PROVE  SumInv'
      <3> DEFINE first == [w \in Item |-> FromCell(FirstCell(w), ready)]
      <3>1. \A w \in Item : \E k, r : first[w] = FromCell(k, r)
        OBVIOUS
      <3>2. sm' = [w \in Item |-> first[w]]
        BY <2>3
      <3> HIDE DEF first
      <3>3. QED
        BY <2>1, <3>1, <3>2, LaunchSumInv
    <2>4. CASE integration
      <3> DEFINE first == [w \in Item |-> FromCell(NNode + 1, Unfinished)]
      <3>1. \A w \in Item : \E k, ready : first[w] = FromCell(k, ready)
        OBVIOUS
      <3>2. sm' = [w \in Item |-> first[w]]
        BY <2>4 DEF integration, Idle
      <3> HIDE DEF first
      <3>3. QED
        BY <2>1, <3>1, <3>2, LaunchSumInv
    <2>5. CASE SumHost
      <3>1. UNCHANGED sm \/ LaunchSort \/ (\E ready : sm' = [w \in Item |-> FromCell(FirstCell(w), ready)])
        BY <2>5 DEF SumHost, summarizationClear, SumAgain, SortAgain, QuadAgain, LaunchSum
      <3>2. QED
        BY <1>1, <2>1, <2>2, <2>3, <3>1
    <2>6. QED
      BY <1>4, <2>4, <2>5
  <1>5. CASE UNCHANGED vars
    BY <1>1, <1>5 DEF vars, work
  <1>6. QED
    BY <1>2, <1>3, <1>4, <1>5 DEF Next, HostStep

LEMMA InitSum == Init => SumInv
  <1> SUFFICES ASSUME Init
               PROVE  SumInv
    OBVIOUS
  <1>1. sm = [w \in Item |-> FromCell(NNode + 1, Unfinished)]
    BY DEF Init, Idle
  <1>2. \A w \in Item : IsRecord(sm[w], SumRegisters) /\ sm[w].i = 0 /\ sm[w].j = 0
    BY <1>1, FromCellSum
  <1>3. QED
    BY <1>1, <1>2 DEF SumInv, Sub

-----------------------------------------------------------------------------
(* The walk of forceCalculation: an entry of the stack is a cell, and its   *)
(* place in the stack is the cell's level.                                  *)

LevelInv(lv) ==
  /\ ts.bottom \in NBody + 1 .. NNode
  /\ lv \in [Node -> Nat] /\ lv[NNode] = 1
  /\ \A m \in Cells, s \in Sub : isCell(child[m][s]) =>
       child[m][s] \in Cells /\ lv[child[m][s]] = lv[m] + 1
  /\ \A c \in Cells : lv[c] <= ts.maxDepth

IsStack(s, lv) == s \in Seq([node : Cells, pos : Nat]) /\ \A k \in 1 .. Len(s) : lv[s[k].node] = k
WalkRegisters == {"pc", "k", "stack", "got", "self"}
WalkInv(lv) ==
  /\ fw = [u \in Wave |-> fw[u]] /\ \A u \in Wave : IsRecord(fw[u], WalkRegisters)
  /\ \A u \in Wave : IsStack(fw[u].stack, lv) /\ (fw[u].pc = "walk" => Len(fw[u].stack) >= 1)

LEMMA StackTurned ==
    ASSUME NEW s, NEW lv, IsStack(s, lv), Len(s) >= 1
    PROVE  /\ IsStack([s EXCEPT ![Len(s)].pos = @ + 1], lv)
           /\ Len([s EXCEPT ![Len(s)].pos = @ + 1]) = Len(s)
  <1> DEFINE t == [s EXCEPT ![Len(s)].pos = @ + 1]
             E == [node : Cells, pos : Nat]
  <1>a. s \in Seq(E)
    BY DEF IsStack
  <1> HIDE DEF E
  <1>1. s \in Seq(E) /\ Len(s) \in Nat /\ DOMAIN s = 1 .. Len(s) /\ \A k \in 1 .. Len(s) : s[k] \in E
    BY <1>a
  <1>2. Len(s) \in 1 .. Len(s)
    BY <1>1
  <1>3. s[Len(s)] \in E
    BY <1>1, <1>2
  <1>4. t[Len(s)] = [s[Len(s)] EXCEPT !.pos = @ + 1]
    BY <1>1, <1>2
  <1>5. t[Len(s)] \in E /\ t[Len(s)].node = s[Len(s)].node
    BY <1>3, <1>4 DEF E
  <1>6. \A k \in 1 .. Len(s) : k # Len(s) => t[k] = s[k]
    BY <1>1
  <1>7. \A k \in 1 .. Len(s) : t[k] \in E /\ t[k].node = s[k].node
    BY <1>1, <1>5, <1>6
  <1>8. t = [k \in 1 .. Len(s) |-> t[k]]
    BY <1>1
  <1> HIDE DEF t, E
  <1>9. t \in Seq(E) /\ Len(t) = Len(s)
    BY <1>1, <1>7, <1>8
  <1>10. QED
    BY <1>7, <1>9 DEF IsStack, t, E

LEMMA StackPopped ==
    ASSUME NEW s, NEW lv, IsStack(s, lv), Len(s) >= 1
    PROVE  IsStack(SubSeq(s, 1, Len(s) - 1), lv) /\ Len(SubSeq(s, 1, Len(s) - 1)) = Len(s) - 1
  <1> DEFINE t == SubSeq(s, 1, Len(s) - 1)
             E == [node : Cells, pos : Nat]
  <1>1. s \in Seq(E) /\ Len(s) \in Nat
    BY DEF IsStack
  <1> HIDE DEF E
  <1>a. Len(s) - 1 \in Nat
    BY <1>1
  <1>b. t = [k \in 1 .. Len(s) - 1 |-> s[k]]
    BY <1>1, <1>a
  <1>c. t \in Seq(E)
    BY <1>1
  <1> HIDE DEF t
  <1>d. Len(t) \in Nat /\ 1 .. Len(t) = 1 .. Len(s) - 1
    BY <1>b, <1>c
  <1>e. Len(t) = Len(s) - 1
    <2> DEFINE a == Len(t)
               b == Len(s) - 1
    <2>1. a \in Nat /\ b \in Nat /\ 1 .. a = 1 .. b
      BY <1>a, <1>d
    <2> HIDE DEF a, b
    <2>2. (a \in 1 .. a <=> a \in 1 .. b) /\ (b \in 1 .. a <=> b \in 1 .. b)
      BY <2>1
    <2>3. a = b
      BY <2>1, <2>2
    <2>4. QED
      BY <2>3 DEF a, b
  <1>2. t \in Seq(E) /\ Len(t) = Len(s) - 1 /\ \A k \in 1 .. Len(s) - 1 : t[k] = s[k]
    BY <1>b, <1>c, <1>e
  <1>3. ASSUME NEW k \in 1 .. Len(t)
        PROVE  lv[t[k].node] = k
    <2>1. k \in 1 .. Len(s) /\ k \in 1 .. Len(s) - 1
      BY <1>1, <1>2, <1>3
    <2>2. lv[s[k].node] = k
      BY <2>1 DEF IsStack
    <2>3. QED
      BY <1>2, <2>1, <2>2
  <1>4. QED
    BY <1>2, <1>3 DEF IsStack, t, E

LEMMA StackPushed ==
    ASSUME NEW s, NEW lv, IsStack(s, lv), NEW n \in Cells, lv[n] = Len(s) + 1
    PROVE  IsStack(Append(s, Push(n)), lv) /\ Len(Append(s, Push(n))) = Len(s) + 1
  <1> DEFINE t == Append(s, Push(n))
             E == [node : Cells, pos : Nat]
  <1>1. s \in Seq(E) /\ Len(s) \in Nat /\ Push(n) \in E /\ Push(n).node = n
    BY DEF IsStack, Push
  <1> HIDE DEF E
  <1>2. t \in Seq(E) /\ Len(t) = Len(s) + 1 /\ t[Len(s) + 1] = Push(n) /\ \A k \in 1 .. Len(s) : t[k] = s[k]
    BY <1>1
  <1> HIDE DEF t
  <1>3. \A k \in 1 .. Len(t) : lv[t[k].node] = k
    BY <1>1, <1>2 DEF IsStack
  <1>4. QED
    BY <1>2, <1>3 DEF IsStack, t, E

LEMMA StackRoot ==
    ASSUME NEW lv, lv[NNode] = 1, NNode \in Cells
    PROVE  IsStack(<<Push(NNode)>>, lv) /\ Len(<<Push(NNode)>>) = 1
  <1> DEFINE E == [node : Cells, pos : Nat]
             t == <<Push(NNode)>>
  <1>1. Push(NNode) \in E /\ Push(NNode).node = NNode
    BY DEF Push
  <1> HIDE DEF E
  <1>2. t \in Seq(E) /\ Len(t) = 1 /\ t[1] = Push(NNode)
    BY <1>1
  <1> HIDE DEF t
  <1>3. \A k \in 1 .. Len(t) : lv[t[k].node] = k
    BY <1>1, <1>2
  <1>4. QED
    BY <1>2, <1>3 DEF IsStack, t, E

\* The wavefront that goes on with registers R.
LEMMA WalkOne ==
    ASSUME NEW lv, WalkInv(lv), NEW u \in Wave, NEW R, fw' = [fw EXCEPT ![u] = R], UNCHANGED mode,
           ts'.bottom = ts.bottom,
           IsRecord(R, WalkRegisters), IsStack(R.stack, lv), R.pc = "walk" => Len(R.stack) >= 1
    PROVE  WalkInv(lv)'
  <1>1. Wave' = Wave /\ Cells' = Cells
    BY DEF Wave, Inc, Warp, Cells
  <1>3. fw' = [v \in Wave |-> fw'[v]] /\ fw'[u] = R /\ \A v \in Wave \ {u} : fw'[v] = fw[v]
    BY DEF WalkInv
  <1>4. ASSUME NEW v \in Wave
        PROVE  /\ IsRecord(fw'[v], WalkRegisters) /\ IsStack(fw'[v].stack, lv)
               /\ fw'[v].pc = "walk" => Len(fw'[v].stack) >= 1
    BY <1>3 DEF WalkInv
  <1>5. \A v \in Wave : IsStack(fw[v].stack, lv)'
    BY <1>1, <1>4 DEF IsStack
  <1>6. QED
    BY <1>1, <1>3, <1>4, <1>5 DEF WalkInv

LEMMA WalkLaunched ==
    ASSUME NEW lv, UNCHANGED mode, ts'.bottom = ts.bottom, lv[NNode] = 1, NNode \in Cells, NEW c, LaunchForce(c)
    PROVE  WalkInv(lv)'
  <1>1. Wave' = Wave /\ Cells' = Cells
    BY DEF Wave, Inc, Warp, Cells
  <1>2. fw' = [u \in Wave |-> FromSlot(u * Warp + Offset(c), Bound(c))]
    BY DEF LaunchForce
  <1>3. ASSUME NEW k, NEW b
        PROVE  IsRecord(FromSlot(k, b), WalkRegisters) /\ FromSlot(k, b).stack = <<Push(NNode)>>
    <2> DEFINE label == IF k < b THEN "walk" ELSE "exit"
               root == <<Push(NNode)>>
               R == [pc |-> label, k |-> k, stack |-> root, got |-> NoMass, self |-> {}]
    <2>1. FromSlot(k, b) = R
      BY DEF FromSlot
    <2> HIDE DEF label, root
    <2>2. IsRecord(R, WalkRegisters) /\ R.stack = root
      BY DEF IsRecord, WalkRegisters
    <2>3. QED
      BY <2>1, <2>2 DEF root
  <1> DEFINE root == <<Push(NNode)>>
  <1>4. \A u \in Wave : IsRecord(fw'[u], WalkRegisters) /\ fw'[u].stack = root
    BY <1>2, <1>3
  <1>5. IsStack(root, lv) /\ Len(root) = 1
    BY StackRoot
  <1> HIDE DEF root
  <1>6. ASSUME NEW u \in Wave
        PROVE  Len(fw'[u].stack) >= 1
    <2>1. fw'[u].stack = root
      BY <1>4
    <2>2. Len(fw'[u].stack) = 1
      BY <1>5, <2>1
    <2>3. QED
      BY <2>2
  <1>7. \A u \in Wave : IsStack(fw'[u].stack, lv)
    BY <1>4, <1>5
  <1>8. \A u \in Wave : IsStack(fw[u].stack, lv)'
    BY <1>1, <1>7 DEF IsStack
  <1>9. QED
    BY <1>1, <1>2, <1>4, <1>6, <1>8 DEF WalkInv

LEMMA VisitWalk ==
    ASSUME NEW lv, LevelInv(lv), WalkInv(lv), NEW u, Visit(u)
    PROVE  WalkInv(lv)'
  <1>1. UNCHANGED <<mode, ts>> /\ fw[u].pc = "walk"
    BY DEF Visit, AtForce
  <1>2. CASE u \notin Wave
    <2>1. fw = [v \in Wave |-> fw[v]]
      BY DEF WalkInv
    <2>2. \E x, y, z, t : fw' = [fw EXCEPT ![u].stack = t, ![u].pc = x] \/ fw' = [fw EXCEPT ![u].stack = t]
                       \/ fw' = [fw EXCEPT ![u].stack = t, ![u].got = y, ![u].self = z]
      BY DEF Visit
    <2>3. fw' = fw
      BY <1>2, <2>1, <2>2
    <2>4. Wave' = Wave /\ Cells' = Cells
      BY <1>1 DEF Wave, Inc, Warp, Cells
    <2>5. QED
      BY <2>3, <2>4 DEF WalkInv, IsStack
  <1>3. CASE u \in Wave
    <2> DEFINE s == fw[u].stack
               d == Len(s)
               top == s[d]
               n == child[top.node][top.pos]
               turned == [s EXCEPT ![d].pos = @ + 1]
    <2>a. IsStack(s, lv) /\ d >= 1
      BY <1>1, <1>3 DEF WalkInv
    <2>b. s \in Seq([node : Cells, pos : Nat])
      BY <2>a DEF IsStack
    <2>1. IsStack(s, lv) /\ d >= 1 /\ d \in Nat
      BY <2>a, <2>b
    <2>2. IsStack(turned, lv) /\ Len(turned) = d
      BY <2>1, StackTurned
    <2>3. IsRecord(fw[u], WalkRegisters) /\ fw = [v \in Wave |-> fw[v]]
      BY <1>3 DEF WalkInv
    <2>4. ASSUME NEW t, NEW x, IsStack(t, lv), x = "walk" => Len(t) >= 1,
                 fw' = [fw EXCEPT ![u].stack = t, ![u].pc = x]
          PROVE  WalkInv(lv)'
      <3> DEFINE R == [fw[u] EXCEPT !.stack = t, !.pc = x]
      <3>1. fw' = [fw EXCEPT ![u] = R]
        BY <1>3, <2>3, <2>4
      <3>2. IsRecord(R, WalkRegisters) /\ R.stack = t /\ R.pc = x
        BY <2>3 DEF IsRecord, WalkRegisters
      <3> HIDE DEF R
      <3>3. QED
        BY <1>1, <1>3, <2>4, <3>1, <3>2, WalkOne
    <2>5. ASSUME NEW t, IsStack(t, lv), Len(t) >= 1, fw' = [fw EXCEPT ![u].stack = t]
          PROVE  WalkInv(lv)'
      <3> DEFINE R == [fw[u] EXCEPT !.stack = t]
      <3>1. fw' = [fw EXCEPT ![u] = R]
        BY <1>3, <2>3, <2>5
      <3>2. IsRecord(R, WalkRegisters) /\ R.stack = t
        BY <2>3 DEF IsRecord, WalkRegisters
      <3> HIDE DEF R
      <3>3. QED
        BY <1>1, <1>3, <2>5, <3>1, <3>2, WalkOne
    <2>6. CASE /\ top.pos \notin Sub
               /\ fw' = [fw EXCEPT ![u].stack = SubSeq(@, 1, d - 1), ![u].pc = IF d = 1 THEN "save" ELSE "walk"]
      <3> DEFINE t == SubSeq(s, 1, d - 1)
                 x == IF d = 1 THEN "save" ELSE "walk"
      <3>1. IsStack(t, lv) /\ Len(t) = d - 1
        BY <2>1, StackPopped
      <3>2. fw' = [fw EXCEPT ![u].stack = t, ![u].pc = x]
        BY <1>3, <2>3, <2>6
      <3>3. x = "walk" => Len(t) >= 1
        BY <2>1, <3>1
      <3> HIDE DEF t, x
      <3>4. QED
        BY <2>4, <3>1, <3>2, <3>3
    <2>7. CASE fw' = [fw EXCEPT ![u].stack = IF d = 1 THEN turned ELSE SubSeq(turned, 1, d - 1)]
      <3> DEFINE p == SubSeq(turned, 1, d - 1)
                 t == IF d = 1 THEN turned ELSE p
      <3>1. IsStack(SubSeq(turned, 1, Len(turned) - 1), lv) /\ Len(SubSeq(turned, 1, Len(turned) - 1)) = Len(turned) - 1
        BY <2>1, <2>2, StackPopped
      <3>2. IsStack(p, lv) /\ Len(p) = d - 1
        BY <2>2, <3>1
      <3>c. fw' = [fw EXCEPT ![u].stack = t]
        BY <2>7
      <3>d. (d = 1 => t = turned) /\ (d # 1 => t = p)
        OBVIOUS
      <3> HIDE DEF p, turned, d, t
      <3>a. ASSUME d = 1
            PROVE  IsStack(t, lv) /\ Len(t) >= 1
        <4>1. t = turned
          BY <3>a, <3>d
        <4>2. Len(t) = d
          BY <2>2, <4>1
        <4>3. QED
          BY <2>1, <2>2, <4>1, <4>2
      <3>b. ASSUME d # 1
            PROVE  IsStack(t, lv) /\ Len(t) >= 1
        <4>1. t = p
          BY <3>b, <3>d
        <4>2. Len(t) = d - 1 /\ d - 1 >= 1
          BY <2>1, <3>2, <3>b, <4>1
        <4>3. QED
          BY <3>2, <4>1, <4>2
      <3>3. IsStack(t, lv) /\ Len(t) >= 1
        BY <3>a, <3>b
      <3>4. QED
        BY <2>5, <3>3, <3>c
    <2>8. CASE fw' = [fw EXCEPT ![u].stack = turned, ![u].got = Plus(@, mass[n]), ![u].self = @ \cup {n}]
      <3> DEFINE got == Plus(fw[u].got, mass[n])
                 self == fw[u].self \cup {n}
                 R == [fw[u] EXCEPT !.stack = turned, !.got = got, !.self = self]
      <3>1. fw' = [fw EXCEPT ![u] = R]
        BY <1>3, <2>3, <2>8
      <3> HIDE DEF got, self, turned
      <3>2. IsRecord(R, WalkRegisters) /\ R.stack = turned
        BY <2>3 DEF IsRecord, WalkRegisters
      <3> HIDE DEF R
      <3>3. IsStack(R.stack, lv) /\ Len(R.stack) >= 1
        BY <2>1, <2>2, <3>2
      <3>4. QED
        BY <1>1, <1>3, <3>1, <3>2, <3>3, WalkOne
    <2>9. CASE top.pos \in Sub /\ isCell(n) /\ fw' = [fw EXCEPT ![u].stack = Append(turned, Push(n))]
      <3>a. d \in 1 .. d
        BY <2>1
      <3> DEFINE E == [node : Cells, pos : Nat]
      <3>b. s \in Seq(E)
        BY <2>b
      <3> HIDE DEF E
      <3>c. top \in E
        BY <3>a, <3>b
      <3>d. lv[top.node] = d
        BY <2>1, <3>a DEF IsStack
      <3>1. top.node \in Cells /\ lv[top.node] = d
        BY <3>c, <3>d DEF E
      <3>2. n \in Cells /\ lv[n] = d + 1
        BY <2>9, <3>1 DEF LevelInv
      <3> HIDE DEF turned, n
      <3>3. IsStack(Append(turned, Push(n)), lv) /\ Len(Append(turned, Push(n))) = d + 1
        BY <2>2, <3>2, StackPushed
      <3>4. Len(Append(turned, Push(n))) >= 1
        BY <2>1, <3>3
      <3>5. QED
        BY <2>5, <2>9, <3>3, <3>4
    <2>10. QED
      BY <2>6, <2>7, <2>8, <2>9 DEF Visit
  <1>4. QED
    BY <1>2, <1>3

LEMMA SaveWalk ==
    ASSUME NEW lv, LevelInv(lv), WalkInv(lv), NEW u, Save(u), ts'.bottom = ts.bottom
    PROVE  WalkInv(lv)'
  <1>1. UNCHANGED mode
    BY DEF Save
  <1> DEFINE R == FromSlot(fw[u].k + Inc, Bound(pass))
  <1>2. fw = [v \in Wave |-> fw[v]] /\ fw' = [fw EXCEPT ![u] = R]
    BY DEF Save, WalkInv
  <1>3. CASE u \notin Wave
    <2>1. fw' = fw
      BY <1>2, <1>3
    <2>2. Wave' = Wave /\ Cells' = Cells
      BY <1>1 DEF Wave, Inc, Warp, Cells
    <2>3. QED
      BY <2>1, <2>2 DEF WalkInv, IsStack
  <1>4. CASE u \in Wave
    <2>1. NNode \in Cells /\ lv[NNode] = 1
      BY NodeAssumption DEF LevelInv, Cells
    <2> DEFINE root == <<Push(NNode)>>
    <2>2. IsStack(root, lv) /\ Len(root) = 1
      BY <2>1, StackRoot
    <2>3. IsRecord(R, WalkRegisters) /\ R.stack = root
      <3> DEFINE k == fw[u].k + Inc
                 label == IF k < Bound(pass) THEN "walk" ELSE "exit"
                 S == [pc |-> label, k |-> k, stack |-> root, got |-> NoMass, self |-> {}]
      <3>1. R = S
        BY DEF FromSlot
      <3> HIDE DEF label, root, k
      <3>2. IsRecord(S, WalkRegisters) /\ S.stack = root
        BY DEF IsRecord, WalkRegisters
      <3>3. QED
        BY <3>1, <3>2
    <2> HIDE DEF R, root
    <2>4. IsStack(R.stack, lv) /\ Len(R.stack) = 1
      BY <2>2, <2>3
    <2>5. Len(R.stack) >= 1
      BY <2>4
    <2>6. QED
      BY <1>1, <1>2, <1>4, <2>3, <2>4, <2>5, WalkOne
  <1>5. QED
    BY <1>3, <1>4

\* Moving a child within its cell changes neither its level nor the types.
LEMMA MovedChild ==
    ASSUME Types, NEW k, NEW i \in Sub, NEW j \in Sub, i # j,
           child' = [child EXCEPT ![k][i] = NULL_BODY, ![k][j] = child[k][i]]
    PROVE  /\ child' \in [Node -> [Sub -> Node \cup {NULL_BODY, LOCK}]]
           /\ \A m \in Node, s \in Sub : child'[m][s] = NULL_BODY \/ \E r \in Sub : child'[m][s] = child[m][r]
  <1> DEFINE W == Node \cup {NULL_BODY, LOCK}
  <1>1. child \in [Node -> [Sub -> W]]
    BY DEF Types
  <1>2. NULL_BODY \in W
    OBVIOUS
  <1> HIDE DEF W
  <1>3. CASE k \in Node
    <2>1. /\ child'[k] = [child[k] EXCEPT ![i] = NULL_BODY, ![j] = child[k][i]]
          /\ child' = [m \in Node |-> child'[m]] /\ \A m \in Node \ {k} : child'[m] = child[m]
      BY <1>1, <1>3
    <2>2. child[k] \in [Sub -> W]
      BY <1>1, <1>3
    <2>3. child'[k] \in [Sub -> W] /\ child'[k][i] = NULL_BODY /\ child'[k][j] = child[k][i]
          /\ \A s \in Sub : s # i /\ s # j => child'[k][s] = child[k][s]
      <3> DEFINE f == child[k]
                 g == [f EXCEPT ![i] = NULL_BODY, ![j] = f[i]]
      <3>1. f \in [Sub -> W] /\ child'[k] = g
        BY <2>1, <2>2
      <3> HIDE DEF f
      <3>2. f[i] \in W
        BY <3>1
      <3>3. g \in [Sub -> W]
        BY <1>2, <3>1, <3>2
      <3>4. g[i] = NULL_BODY /\ g[j] = f[i]
        BY <3>1
      <3>5. \A s \in Sub : s # i /\ s # j => g[s] = f[s]
        BY <3>1
      <3> HIDE DEF g
      <3>6. QED
        BY <3>1, <3>3, <3>4, <3>5 DEF f
    <2>4. child' \in [Node -> [Sub -> W]]
      BY <1>1, <2>1, <2>3
    <2>5. \A m \in Node, s \in Sub : child'[m][s] = NULL_BODY \/ \E r \in Sub : child'[m][s] = child[m][r]
      BY <2>1, <2>3
    <2>6. QED
      BY <2>4, <2>5 DEF W
  <1>4. CASE k \notin Node
    <2>1. child' = child
      BY <1>1, <1>4
    <2>2. QED
      BY <1>1, <2>1 DEF W
  <1>5. QED
    BY <1>3, <1>4

LEMMA ScanLevels ==
    ASSUME Types, SumInv, NEW w \in Item, Scan(w)
    PROVE  /\ Types'
           /\ \A lv : LevelInv(lv) => LevelInv(lv)'
  <1>1. UNCHANGED <<ts, pos>>
    BY DEF Scan
  <1>2. Cells' = Cells
    BY <1>1 DEF Cells
  <1>3. CASE UNCHANGED child
    BY <1>1, <1>2, <1>3 DEF Types, LevelInv
  <1>4. CASE \E k : \E i, j \in Sub : i # j /\ child' = [child EXCEPT ![k][i] = NULL_BODY, ![k][j] = child[k][i]]
    <2>1. /\ child' \in [Node -> [Sub -> Node \cup {NULL_BODY, LOCK}]]
          /\ \A m \in Node, s \in Sub : child'[m][s] = NULL_BODY \/ \E r \in Sub : child'[m][s] = child[m][r]
      BY <1>4, MovedChild
    <2>2. Types'
      BY <1>1, <2>1 DEF Types
    <2>3. ASSUME NEW lv, LevelInv(lv)
          PROVE  LevelInv(lv)'
      <3>1. \A m \in Cells : m \in Node
        BY <2>3, NodeAssumption DEF LevelInv, Cells, Node
      <3>2. ~isCell(NULL_BODY)
        BY NodeAssumption DEF isCell, NULL_BODY
      <3>3. QED
        BY <1>1, <1>2, <2>1, <2>3, <3>1, <3>2 DEF LevelInv
    <2>4. QED
      BY <2>2, <2>3
  <1>5. QED
    BY <1>3, <1>4, ScanDoes

LEMMA SameLevels ==
    ASSUME UNCHANGED child, ts'.bottom = ts.bottom, ts'.maxDepth = ts.maxDepth, NEW lv, LevelInv(lv)
    PROVE  LevelInv(lv)'
  <1>1. Cells' = Cells
    BY DEF Cells
  <1>2. QED
    BY <1>1 DEF LevelInv

\* The levels of a tree that nobody is building any more.
LEMMA TreeLevels ==
    ASSUME IsTree, \A w \in Item : bt[w].pc = "exit"
    PROVE  \E lv : LevelInv(lv)
  <1>1. PICK up, lv, reg, own : TreeInv(up, lv, reg, own)
    BY DEF IsTree
  <1>2. \A w \in Item : ~Chains(w)
    BY DEF Chains, Chaining
  <1>3. \A c \in Cells : own[c] = NoItem
    BY <1>1, <1>2 DEF TreeInv, ItemInv
  <1>4. ts.bottom \in NBody + 1 .. NNode /\ lv \in [Node -> Nat] /\ lv[NNode] = 1
    BY <1>1 DEF TreeInv, MemoryInv, CellInv
  <1>5. \A c \in Cells : lv[c] <= ts.maxDepth
    BY <1>1, <1>3 DEF TreeInv, CoverInv
  <1>6. ASSUME NEW m \in Cells, NEW s \in Sub, isCell(child[m][s])
        PROVE  child[m][s] \in Cells /\ lv[child[m][s]] = lv[m] + 1
    <2> DEFINE c == child[m][s]
    <2>1. c \in Cells /\ c # NNode /\ up[c] = <<m, s>>
      BY <1>1, <1>6 DEF TreeInv, LinkInv
    <2> HIDE DEF c
    <2>2. lv[c] = lv[up[c][1]] + 1
      BY <1>1, <2>1 DEF TreeInv, CellInv
    <2>3. up[c][1] = m
      BY <2>1
    <2>4. QED
      BY <2>1, <2>2, <2>3 DEF c
  <1>7. LevelInv(lv)
    BY <1>4, <1>5, <1>6 DEF LevelInv
  <1>8. QED
    BY <1>7

-----------------------------------------------------------------------------
(* The invariant of a time step.  It speaks of trees that fit: when cells   *)
(* have run out the items go on with indices of bodies, and an error is     *)
(* reported.                                                                *)

After == {"sum", "sort", "quad", "tree", "force", "integrate"}
DeviceInv ==
  Fit => /\ Types
         /\ phase = "box" => BoxInv
         /\ phase # "box" => ts.blkCnt = 0
         /\ phase \in {"build", "sumclear"} => IsTree
         /\ phase = "sumclear" => \A w \in Item : bt[w].pc = "exit"
         /\ phase \in After => \E lv : LevelInv(lv) /\ (phase = "force" => WalkInv(lv))

Device == FaultInv /\ NumInv /\ pass \in Nat /\ SumInv /\ DeviceInv

LEMMA DeviceShape == Device => ShapeInv /\ FaultInv /\ NumInv /\ SumInv /\ DeviceInv /\ pass \in Nat
  BY DEF Device, FaultInv

\* What a step may rely on, and what is left to show of it.
LEMMA DeviceStep ==
    ASSUME Device, [Next]_vars
    PROVE  /\ ShapeInv /\ ShapeInv' /\ NumInv /\ NumInv' /\ pass \in Nat /\ SumInv /\ (Fit' => Fit)
           /\ DeviceInv' => Device'
  BY FaultNext, NextFit, PassNext, SumNext DEF Device, FaultInv

\* A step of buildTree.
LEMMA DeviceBuild ==
    ASSUME Device, Fit, Fit', ShapeInv, NumInv, NumInv', pass \in Nat,
           (\E w \in Item : BuildItem(w)) \/ (\E g \in Group : GroupStart(g) \/ Barrier(g) \/ Sync(g))
    PROVE  DeviceInv'
  <1>1. phase = "build" /\ phase' = "build" /\ ts'.blkCnt = ts.blkCnt
    <2>1. CASE \E w \in Item : BuildItem(w)
      <3>1. PICK w \in Item : BuildItem(w)
        BY <2>1
      <3>2. phase = "build" /\ UNCHANGED phase
        BY <3>1 DEF BuildItem, WhileDead, WhileMore, Read, TryLock, Insert, Alloc, Overflow, Fill, Link,
                    Publish, Skip, Leave, Loaded, keep, host, At
      <3>3. \/ UNCHANGED ts \/ ts' = [ts EXCEPT !.bottom = @ - 1]
            \/ ts' = [ts EXCEPT !.errorCode = "overflow", !.bottom = NNode]
            \/ ts' = [ts EXCEPT !.maxDepth = Larger(@, bt[w].maxd)]
        BY <3>1 DEF BuildItem, WhileDead, WhileMore, Read, TryLock, Insert, Alloc, Overflow, Fill, Link,
                    Publish, Skip, Leave, Loaded
      <3>4. ts'.blkCnt = ts.blkCnt
        BY <3>3 DEF ShapeInv, IsRecord, StatusFields
      <3>5. QED
        BY <3>2, <3>4
    <2>2. CASE \E g \in Group : GroupStart(g) \/ Barrier(g) \/ Sync(g)
      <3>1. PICK g \in Group : GroupStart(g) \/ Barrier(g) \/ Sync(g)
        BY <2>2
      <3>2. phase = "build" /\ TreeKept
        BY <3>1, GroupStartDoes, BarrierDoes, SyncDoes
      <3>3. UNCHANGED ts \/ ts' = [ts EXCEPT !.doneCnt = @ + loc[g].success]
        BY <3>1 DEF GroupStart, Barrier, Sync
      <3>4. ts'.blkCnt = ts.blkCnt
        BY <3>3 DEF ShapeInv, IsRecord, StatusFields
      <3>5. QED
        BY <3>2, <3>4 DEF TreeKept
    <2>3. QED
      BY <2>1, <2>2
  <1>2. IsTree /\ ts.blkCnt = 0
    BY <1>1 DEF Device, DeviceInv
  <1>3. IsTree'
    BY <1>2, BuildItemTree, BuildGroupTree
  <1>4. Types'
    BY <1>3 DEF IsTree, TreeInv, MemoryInv, CoverInv, Types
  <1>5. QED
    BY <1>1, <1>2, <1>3, <1>4 DEF DeviceInv, After

LEMMA DeviceBox ==
    ASSUME Device, Fit, ShapeInv, NEW g \in Group, BoxReduce(g) \/ BoxCount(g)
    PROVE  DeviceInv'
  <1>1. phase = "box" /\ phase' = "box"
    BY DEF BoxReduce, BoxCount, host
  <1>2. BoxInv /\ Types
    BY <1>1 DEF Device, DeviceInv
  <1>3. CASE BoxReduce(g)
    <2>1. UNCHANGED <<child, pos, ts>>
      BY <1>3 DEF BoxReduce, buffers
    <2>2. BoxInv' /\ Types'
      BY <1>2, <1>3, <2>1, BoxReduceBox DEF Types
    <2>3. QED
      BY <1>1, <2>2 DEF DeviceInv, After
  <1>4. CASE BoxCount(g)
    <2>1. BoxInv' /\ Types'
      BY <1>2, <1>4, BoxCountBox
    <2>2. QED
      BY <1>1, <2>1 DEF DeviceInv, After
  <1>5. QED
    BY <1>3, <1>4

\* The host around the launches of buildTree.
LEMMA DeviceBuildHost ==
    ASSUME Device, Fit, ShapeInv, NumInv, NumInv', pass \in Nat, BuildHost
    PROVE  DeviceInv'
  <1>1. CASE buildTreeClear
    <2>1. phase = "box" /\ phase' = "build" /\ UNCHANGED ts /\ \A g \in Group : box[g].pc = "exit"
      BY <1>1 DEF buildTreeClear
    <2>2. BoxInv /\ Types /\ BoxDone = Group
      BY <2>1 DEF Device, DeviceInv, BoxDone
    <2>3. ts.bottom = NNode /\ ts.blkCnt = 0 /\ \A s \in Sub : child[NNode][s] = NULL_BODY
      BY <2>2 DEF BoxInv
    <2>4. IsTree'
      BY <1>1, <2>2, <2>3, ClearTree
    <2>5. Types'
      BY <2>4 DEF IsTree, TreeInv, MemoryInv, CoverInv, Types
    <2>6. QED
      BY <2>1, <2>3, <2>4, <2>5 DEF DeviceInv, After
  <1>2. CASE NextChunk \/ Repeat
    <2>1. BuildEnded /\ UNCHANGED <<mode, child, pos, loaded, ts>>
      BY <1>2 DEF NextChunk, Repeat, buffers, past
    <2>2. IsTree /\ ts.blkCnt = 0 /\ Types
      BY <2>1 DEF Device, DeviceInv, BuildEnded
    <2>3. \/ phase' = "build" /\ \E k \in Nat : LaunchBuild(k)
          \/ phase' \in {"sumclear", "error", "stuck"} /\ UNCHANGED bt
      BY <1>2 DEF NextChunk, Repeat, BuildEnded
    <2>4. IsTree'
      BY <2>1, <2>2, <2>3, LaunchTree, SameTree
    <2>5. Types'
      BY <2>4 DEF IsTree, TreeInv, MemoryInv, CoverInv, Types
    <2>6. phase' # "build" => \A w \in Item' : bt'[w].pc = "exit"
      BY <2>1, <2>3, SameItems DEF BuildEnded
    <2>7. QED
      BY <2>1, <2>2, <2>3, <2>4, <2>5, <2>6 DEF DeviceInv, After
  <1>3. QED
    BY <1>1, <1>2 DEF BuildHost

LEMMA StatusStored ==
    ASSUME ShapeInv, NEW e, UNCHANGED ts \/ ts' = [ts EXCEPT !.errorCode = e]
    PROVE  ts'.blkCnt = ts.blkCnt /\ ts'.bottom = ts.bottom /\ ts'.maxDepth = ts.maxDepth
  BY DEF ShapeInv, IsRecord, StatusFields

\* The kernels that come after.
LEMMA DeviceSum ==
    ASSUME Device, Fit, ShapeInv, (\E w \in Item : SumItem(w) \/ SortCell(w)) \/ SumHost
    PROVE  DeviceInv'
  <1>1. Types /\ SumInv /\ DeviceInv
    BY DEF Device, DeviceInv
  <1>2. CASE \E w \in Item : SumItem(w) \/ SortCell(w)
    <2>1. PICK w \in Item : SumItem(w) \/ SortCell(w)
      BY <1>2
    <2>2. /\ phase \in {"sum", "quad", "sort"} /\ UNCHANGED <<mode, phase, pos>>
          /\ UNCHANGED ts \/ ts' = [ts EXCEPT !.errorCode = "structure"]
      BY <2>1 DEF SumItem, Scan, Poll, Store, SetReady, NextCell, SortCell, AtSum, host, buffers
    <2>3. Scan(w) \/ UNCHANGED child
      BY <2>1 DEF SumItem, Poll, Store, SetReady, NextCell, SortCell, buffers
    <2>4. ts'.blkCnt = ts.blkCnt /\ ts'.bottom = ts.bottom /\ ts'.maxDepth = ts.maxDepth
      BY <2>2, StatusStored
    <2>5. PICK lv : LevelInv(lv)
      BY <1>1, <2>2 DEF DeviceInv, After
    <2>6. Types' /\ LevelInv(lv)'
      <3>1. CASE Scan(w)
        BY <1>1, <2>5, <3>1, ScanLevels
      <3>2. CASE UNCHANGED child
        BY <1>1, <2>2, <2>4, <2>5, <3>2, SameLevels DEF Types
      <3>3. QED
        BY <2>3, <3>1, <3>2
    <2>7. ts.blkCnt = 0
      BY <1>1, <2>2 DEF DeviceInv
    <2>8. \E l : LevelInv(l)'
      BY <2>6
    <2>9. QED
      BY <2>2, <2>4, <2>6, <2>7, <2>8 DEF DeviceInv, After
  <1>3. CASE SumHost
    <2>1. /\ phase \in {"sumclear", "sum", "quad", "sort"} /\ phase' \in {"sum", "quad", "sort", "tree"}
          /\ UNCHANGED <<child, pos>>
          /\ UNCHANGED ts \/ ts' = [ts EXCEPT !.errorCode = "depth"]
      BY <1>3 DEF SumHost, summarizationClear, SumAgain, SortAgain, QuadAgain, buffers
    <2>2. ts'.blkCnt = ts.blkCnt /\ ts'.bottom = ts.bottom /\ ts'.maxDepth = ts.maxDepth
      BY <2>1, StatusStored
    <2>3. PICK lv : LevelInv(lv)
      BY <1>1, <2>1, TreeLevels DEF DeviceInv, After
    <2>4. LevelInv(lv)' /\ Types'
      BY <1>1, <2>1, <2>2, <2>3, SameLevels DEF Types
    <2>5. ts.blkCnt = 0
      BY <1>1, <2>1 DEF DeviceInv
    <2>6. \E l : LevelInv(l)'
      BY <2>4
    <2>7. QED
      BY <2>1, <2>2, <2>4, <2>5, <2>6 DEF DeviceInv, After
  <1>4. QED
    BY <1>2, <1>3

LEMMA DeviceForce ==
    ASSUME Device, Fit, ShapeInv, (\E u : Visit(u) \/ Save(u)) \/ ForceHost
    PROVE  DeviceInv'
  <1>1. /\ phase \in {"tree", "force"} /\ phase' \in {"force", "integrate"} /\ UNCHANGED <<mode, child, pos>>
        /\ \E e : UNCHANGED ts \/ ts' = [ts EXCEPT !.errorCode = e]
    BY DEF Visit, Save, AtForce, ForceHost, BeginForce, ForceAgain, host, buffers
  <1>2. ts'.blkCnt = ts.blkCnt /\ ts'.bottom = ts.bottom /\ ts'.maxDepth = ts.maxDepth
    BY <1>1, StatusStored
  <1>3. Types /\ ts.blkCnt = 0 /\ \E lv : LevelInv(lv) /\ (phase = "force" => WalkInv(lv))
    BY <1>1 DEF Device, DeviceInv, After
  <1>4. PICK lv : LevelInv(lv) /\ (phase = "force" => WalkInv(lv))
    BY <1>3
  <1>5. LevelInv(lv)' /\ Types'
    BY <1>1, <1>2, <1>3, <1>4, SameLevels DEF Types
  <1>6. NNode \in Cells /\ lv[NNode] = 1
    BY <1>4, NodeAssumption DEF LevelInv, Cells
  <1>7. phase' = "force" => WalkInv(lv)'
    <2>1. CASE \E u : Visit(u) \/ Save(u)
      <3>1. phase = "force"
        BY <2>1 DEF Visit, Save, AtForce
      <3>2. QED
        BY <1>2, <1>4, <2>1, <3>1, VisitWalk, SaveWalk
    <2>2. CASE ForceHost
      <3>1. phase' = "force" => \E c : LaunchForce(c)
        BY <2>2 DEF ForceHost, BeginForce, ForceAgain
      <3>2. QED
        BY <1>1, <1>2, <1>6, <3>1, WalkLaunched
    <2>3. QED
      BY <2>1, <2>2
  <1>8. \E l : LevelInv(l)' /\ (phase' = "force" => WalkInv(l)')
    BY <1>5, <1>7
  <1>9. QED
    BY <1>1, <1>2, <1>3, <1>5, <1>8 DEF DeviceInv, After

LEMMA DeviceIntegration ==
    ASSUME Device, Fit, ShapeInv', integration
    PROVE  DeviceInv'
  <1>1. phase = "integrate" /\ phase' \in {"done", "box", "error"} /\ UNCHANGED <<mode, child, ts>>
    BY DEF integration
  <1>2. Types /\ ts.blkCnt = 0
    BY <1>1 DEF Device, DeviceInv
  <1>3. pos' = [n \in Node |-> pos'[n]]
    BY DEF integration
  <1>4. Types'
    BY <1>1, <1>2, <1>3 DEF Types
  <1>5. box' = Idle[1]
    BY DEF integration
  <1>6. Idle[1]' = Idle[1]
    BY <1>1 DEF Idle, Group
  <1>7. BoxInv'
    <2>1. (box = Idle[1])' /\ (ts.blkCnt = 0)'
      BY <1>1, <1>2, <1>5, <1>6
    <2>2. QED
      BY <2>1, BoxIdle, PTL
  <1>8. QED
    BY <1>1, <1>2, <1>4, <1>7 DEF DeviceInv, After

LEMMA DeviceNext == Device /\ [Next]_vars => Device'
  <1> SUFFICES ASSUME Device, [Next]_vars
               PROVE  Device'
    OBVIOUS
  <1>1. ShapeInv /\ ShapeInv' /\ NumInv /\ NumInv' /\ pass \in Nat /\ SumInv /\ (Fit' => Fit)
    BY DeviceStep
  <1>2. SUFFICES ASSUME Fit', Fit
                 PROVE  DeviceInv'
    BY <1>1, DeviceStep DEF DeviceInv
  <1>3. ASSUME NEW w \in Item, ItemStep(w)
        PROVE  DeviceInv'
    <2>1. w[1] \in Group
      BY DEF Item
    <2>2. \/ BuildItem(w) \/ SumItem(w) \/ SortCell(w) \/ BuildGroup(w[1])
          \/ \E u : Visit(u) \/ Save(u)
      BY <1>3 DEF ItemStep
    <2>3. BuildGroup(w[1]) => \/ BoxReduce(w[1]) \/ BoxCount(w[1])
                              \/ GroupStart(w[1]) \/ Barrier(w[1]) \/ Sync(w[1])
      BY DEF BuildGroup
    <2>4. QED
      BY <1>1, <1>2, <2>1, <2>2, <2>3, DeviceBuild, DeviceBox, DeviceSum, DeviceForce
  <1>4. CASE HostStep
    BY <1>1, <1>2, <1>4, DeviceBuildHost, DeviceSum, DeviceForce, DeviceIntegration DEF HostStep
  <1>5. CASE UNCHANGED vars
    <2>1. /\ UNCHANGED <<mode, ts, bt, phase, box, child, pos, loaded, fw>>
      BY <1>5 DEF vars, host, work, past, buffers
    <2>2. Item' = Item /\ Group' = Group /\ Wave' = Wave /\ Cells' = Cells
      BY <2>1, SameItems DEF Group, Wave, Inc, Warp, Cells
    <2>3. Types => Types'
      BY <2>1 DEF Types
    <2>4. BoxInv => BoxInv'
      BY <2>1, <2>2 DEF BoxInv, BoxDone
    <2>5. IsTree => IsTree'
      BY <2>1, SameTree
    <2>6. \A lv : (LevelInv(lv) => LevelInv(lv)') /\ (WalkInv(lv) => WalkInv(lv)')
      BY <2>1, <2>2 DEF LevelInv, WalkInv, IsStack
    <2>7. DeviceInv
      BY DEF Device
    <2>8. QED
      BY <1>2, <2>1, <2>2, <2>3, <2>4, <2>5, <2>6, <2>7 DEF DeviceInv
  <1>6. QED
    BY <1>3, <1>4, <1>5 DEF Next

LEMMA DeviceFirst == Init => Device
  <1> SUFFICES ASSUME Init
               PROVE  Device
    OBVIOUS
  <1>1. FaultInv /\ ShapeInv /\ NumInv /\ SumInv
    BY FaultFirst, InitNum, InitSum DEF FaultInv
  <1>2. phase = "box" /\ pass = 0 /\ ts.blkCnt = 0 /\ ts.maxDepth = 1 /\ box = Idle[1]
    BY DEF Init
  <1>3. BoxInv
    BY <1>1, <1>2, BoxIdle
  <1>4. 0 \in Node /\ Types
    <2>1. 0 \in Node
      BY NodeAssumption DEF Node
    <2>2. child \in [Node -> [Sub -> Node \cup {NULL_BODY, LOCK}]]
      BY <2>1 DEF Init
    <2>3. pos = [n \in Node |-> pos[n]]
      BY DEF Init
    <2>4. QED
      BY <1>2, <2>1, <2>2, <2>3 DEF Types
  <1>5. DeviceInv
    BY <1>2, <1>3, <1>4 DEF DeviceInv, After
  <1>6. QED
    BY <1>1, <1>2, <1>5 DEF Device

(* The invariant of a time step on the device holds in every state.         *)
THEOREM DeviceInvariant == Spec => []Device
  <1>1. QED
    BY DeviceFirst, DeviceNext, PTL DEF Spec

(* The walk of forceCalculation never needs more than the MAXDEPTH entries  *)
(* of its stack: the entries are one below the other in the tree, and the   *)
(* depth the kernels have recorded bounds the level of every cell.          *)
THEOREM StackIsBounded == Spec => []StackBounded
  <1>1. Device => StackBounded
    <2> SUFFICES ASSUME Device, phase = "force", ~overflowed, NEW u \in Wave
                 PROVE  Len(fw[u].stack) <= MaxDepth
      BY DEF StackBounded
    <2>1. ts.maxDepth \in Nat /\ ts.maxDepth <= MaxDepth /\ MaxDepth \in Nat
      BY DepthAssumption DEF Device, FaultInv, DepthInv, NumInv
    <2>2. Fit
      BY <2>1 DEF Fit
    <2>3. PICK lv : LevelInv(lv) /\ WalkInv(lv)
      BY <2>2 DEF Device, DeviceInv, After
    <2> DEFINE s == fw[u].stack
               E == [node : Cells, pos : Nat]
    <2>4. s \in Seq(E) /\ \A k \in 1 .. Len(s) : lv[s[k].node] = k
      BY <2>3 DEF WalkInv, IsStack
    <2> HIDE DEF s, E
    <2>5. Len(s) \in Nat /\ \A k \in 1 .. Len(s) : s[k] \in E
      BY <2>4
    <2>6. CASE Len(s) >= 1
      <3>1. Len(s) \in 1 .. Len(s)
        BY <2>5, <2>6
      <3>2. s[Len(s)].node \in Cells /\ lv[s[Len(s)].node] = Len(s)
        BY <2>4, <2>5, <3>1 DEF E
      <3>3. lv[s[Len(s)].node] <= ts.maxDepth
        BY <2>3, <3>2 DEF LevelInv
      <3>4. QED
        BY <2>1, <2>5, <3>2, <3>3 DEF s
    <2>7. CASE ~(Len(s) >= 1)
      BY <2>1, <2>5, <2>7 DEF s
    <2>8. QED
      BY <2>6, <2>7
  <1>2. QED
    BY <1>1, DeviceInvariant, PTL

-----------------------------------------------------------------------------
(* Searches.                                                                *)

LEMMA Least ==
    ASSUME NEW T \in SUBSET Nat, T # {}
    PROVE  \E m \in T : \A k \in T : m <= k
  <1> DEFINE R == OpToRel(<, Nat)
  <1>1. IsWellFoundedOn(R, Nat)
    BY NatLessThanWellFounded
  <1>2. \A x, y \in Nat : <<x, y>> \in R <=> x < y
    BY DEF OpToRel
  <1> HIDE DEF R
  <1>3. PICK m \in T : \A k \in T : ~(<<k, m>> \in R)
    BY <1>1, WFMin
  <1>4. ASSUME NEW k \in T
        PROVE  m <= k
    <2>1. m \in Nat /\ k \in Nat
      OBVIOUS
    <2>2. ~(k < m)
      BY <1>2, <1>3, <2>1
    <2>3. QED
      BY <2>1, <2>2
  <1>5. QED
    BY <1>4

\* One step of a comparison of positions.
Go(n, b) == IF isCell(n) THEN Leads(n, b) ELSE n
IsRoute(f, b, n) == f = [k \in 0 .. n |-> IF k = 0 THEN NNode ELSE Go(f[k - 1], b)]

LEMMA RouteExists ==
    ASSUME NEW b
    PROVE  \A n \in Nat : \E f : IsRoute(f, b, n)
  <1> DEFINE T == {n \in Nat : ~ \E f : IsRoute(f, b, n)}
  <1>1. SUFFICES ASSUME T # {}
                 PROVE  FALSE
    OBVIOUS
  <1>2. PICK m \in T : \A k \in T : m <= k
    BY <1>1, Least
  <1>3. CASE m = 0
    <2> DEFINE f == [k \in 0 .. 0 |-> NNode]
    <2>1. f = [k \in 0 .. 0 |-> IF k = 0 THEN NNode ELSE Go(f[k - 1], b)]
      OBVIOUS
    <2> HIDE DEF f
    <2>2. IsRoute(f, b, m)
      BY <1>3, <2>1 DEF IsRoute
    <2>3. QED
      BY <1>2, <2>2
  <1>4. CASE m # 0
    <2>1. m \in Nat /\ m - 1 \in Nat /\ m - 1 \notin T
      BY <1>2, <1>4
    <2>2. PICK f : IsRoute(f, b, m - 1)
      BY <2>1
    <2> DEFINE g == [k \in 0 .. m |-> IF k = m THEN Go(f[m - 1], b) ELSE f[k]]
               h == [k \in 0 .. m |-> IF k = 0 THEN NNode ELSE Go(g[k - 1], b)]
    <2>3. f[0] = NNode /\ \A k \in 1 .. m - 1 : f[k] = Go(f[k - 1], b)
      BY <2>1, <2>2 DEF IsRoute
    <2>4. \A k \in 0 .. m - 1 : g[k] = f[k]
      BY <2>1
    <2>5. ASSUME NEW k \in 0 .. m
          PROVE  g[k] = h[k]
      <3>1. CASE k = 0
        BY <1>4, <2>1, <2>3, <3>1
      <3>2. CASE k # 0
        <4>1. h[k] = Go(g[k - 1], b)
          BY <3>2
        <4>2. k - 1 \in 0 .. m - 1 /\ g[k - 1] = f[k - 1]
          BY <2>1, <2>4, <3>2
        <4>3. g[k] = Go(f[k - 1], b)
          BY <2>1, <2>3, <3>2
        <4>4. QED
          BY <4>1, <4>2, <4>3
      <3>3. QED
        BY <3>1, <3>2
    <2>6. g = h
      BY <2>5
    <2>7. IsRoute(g, b, m)
      BY <2>6 DEF IsRoute
    <2> HIDE DEF g
    <2>8. QED
      BY <1>2, <2>7
  <1>5. QED
    BY <1>3, <1>4

LEMMA RouteSteps ==
    ASSUME NEW b
    PROVE  Route(b)[0] = NNode /\ \A k \in 1 .. NNode : Route(b)[k] = Go(Route(b)[k - 1], b)
  <1> DEFINE f == Route(b)
  <1>1. Route(b) = CHOOSE g : IsRoute(g, b, NNode)
    BY DEF Route, IsRoute, Go, Leads, Oct
  <1>2. NNode \in Nat
    BY NodeAssumption
  <1>3. IsRoute(f, b, NNode)
    BY <1>1, <1>2, RouteExists
  <1> HIDE DEF f
  <1>4. f = [k \in 0 .. NNode |-> IF k = 0 THEN NNode ELSE Go(f[k - 1], b)]
    BY <1>3 DEF IsRoute
  <1>5. f[0] = NNode /\ \A k \in 1 .. NNode : f[k] = Go(f[k - 1], b)
    BY <1>2, <1>4
  <1>6. QED
    BY <1>5 DEF f

\* Where the search for an inserted body has come after k steps.
OnWay(b, k, n, reg, own) ==
  n \in {b, LOCK} \/ (n \in Cells /\ own[n] = NoItem /\ b \in reg[n] /\ n <= NNode - k)

LEMMA RouteEnds ==
    ASSUME NEW up, NEW lv, NEW reg, NEW own, TreeInv(up, lv, reg, own), NEW b \in loaded
    PROVE  \A k \in 0 .. NNode : OnWay(b, k, Route(b)[k], reg, own)
  <1> DEFINE f == Route(b)
             T == {k \in Nat : k <= NNode /\ ~OnWay(b, k, f[k], reg, own)}
  <1>1. MemoryInv /\ b \in Body /\ NNode \in Nat /\ NBody \in Nat
    BY NodeAssumption DEF TreeInv, MemoryInv
  <1>2. SUFFICES ASSUME T # {}
                 PROVE  FALSE
    BY <1>1
  <1>3. PICK m \in T : \A k \in T : m <= k
    BY <1>2, Least
  <1>4. f[0] = NNode /\ \A k \in 1 .. NNode : f[k] = Go(f[k - 1], b)
    BY RouteSteps
  <1> HIDE DEF f
  <1>5. NNode \in Cells /\ own[NNode] = NoItem /\ reg[NNode] = Body
    BY <1>1, CellFacts DEF TreeInv, LinkInv, CellInv
  <1>6. m \in Nat /\ m <= NNode /\ ~OnWay(b, m, f[m], reg, own)
    BY <1>3
  <1>7. m # 0
    BY <1>1, <1>4, <1>5, <1>6 DEF OnWay
  <1>8. m - 1 \in Nat /\ OnWay(b, m - 1, f[m - 1], reg, own) /\ f[m] = Go(f[m - 1], b)
    BY <1>1, <1>3, <1>4, <1>6, <1>7
  <1> DEFINE n == f[m - 1]
  <1>9. CASE n \in {b, LOCK}
    <2>1. ~isCell(n)
      BY <1>1, <1>9 DEF isCell, Body, LOCK
    <2>2. f[m] = n
      BY <1>8, <2>1 DEF Go
    <2>3. QED
      BY <1>6, <1>9, <2>2 DEF OnWay
  <1>10. CASE n \in Cells /\ own[n] = NoItem /\ b \in reg[n] /\ n <= NNode - (m - 1)
    <2> HIDE DEF n
    <2>1. isCell(n) /\ n \in Nat
      BY <1>1, <1>10, CellFacts
    <2>2. f[m] = Leads(n, b)
      BY <1>8, <2>1 DEF Go, n
    <2> DEFINE c == Leads(n, b)
    <2>3. c # b /\ c # LOCK
      BY <1>6, <2>2 DEF OnWay
    <2>4. ASSUME NEW w \in Item, Chains(w), bt[w].locked = <<n, Oct(n, b)>>
          PROVE  c = LOCK
      <3>1. Holds(w)
        BY <2>4, ChainsHold
      <3>2. child[bt[w].locked[1]][bt[w].locked[2]] = LOCK
        BY <3>1 DEF TreeInv, ItemInv, Locks
      <3>3. QED
        BY <2>4, <3>2 DEF Leads
    <2>5. isCell(c)
      BY <1>10, <2>3, <2>4 DEF TreeInv, LoadedInv
    <2>6. Oct(n, b) \in Sub
      BY OctRange
    <2>7. c \in Cells /\ c # NNode /\ up[c] = <<n, Oct(n, b)>> /\ own[c] = own[n]
      BY <1>10, <2>5, <2>6 DEF TreeInv, LinkInv, Leads
    <2> HIDE DEF c
    <2>8. c < n /\ b \in reg[c] /\ c \in Nat
      <3>1. up[c][1] = n /\ up[c][2] = Oct(n, b)
        BY <2>7
      <3>2. c < up[c][1] /\ (b \in reg[c] <=> b \in reg[up[c][1]] /\ Oct(up[c][1], b) = up[c][2])
        BY <2>7 DEF TreeInv, CellInv
      <3>3. QED
        BY <1>1, <1>10, <2>7, <3>1, <3>2, CellFacts
    <2>9. c <= NNode - m
      BY <1>1, <1>6, <1>10, <2>1, <2>8
    <2>10. OnWay(b, m, c, reg, own)
      BY <1>10, <2>7, <2>8, <2>9 DEF OnWay
    <2>11. QED
      BY <1>6, <2>2, <2>10 DEF c
  <1>11. QED
    BY <1>8, <1>9, <1>10 DEF OnWay

\* No inserted body is lost.
LEMMA BodiesFound ==
    ASSUME IsTree, NEW b \in loaded
    PROVE  Route(b)[NNode] \in {b, LOCK}
  <1>1. PICK up, lv, reg, own : TreeInv(up, lv, reg, own)
    BY DEF IsTree
  <1>2. NNode \in Nat /\ NBody \in Nat /\ NNode \in 0 .. NNode /\ MemoryInv
    BY <1>1, NodeAssumption DEF TreeInv
  <1>3. OnWay(b, NNode, Route(b)[NNode], reg, own)
    BY <1>1, <1>2, RouteEnds
  <1>4. \A n \in Cells : n > 0 /\ n \in Nat
    BY <1>2 DEF MemoryInv, Cells
  <1>5. QED
    BY <1>2, <1>3, <1>4 DEF OnWay


-----------------------------------------------------------------------------
(* The counts the host waits for.                                           *)

Ended == {"leave", "exit"}
Busy  == {"read", "lock", "skip", "overflow"} \cup Holding

\* A step of item w that inserts no body.
Moves(w) ==
  /\ UNCHANGED <<mode, phase, pass, loc, loaded>> /\ ts'.doneCnt = ts.doneCnt
  /\ ~mode.consistent =>
       Only(w) /\ (bt[w].pc \in Ended <=> bt'[w].pc \in Ended) /\ bt[w].pc # "start" /\ bt'[w].pc # "start"
  /\ mode.consistent =>
       \A v \in Item : /\ bt'[v].i = bt[v].i
                       /\ bt'[v].pc \in Busy => bt[v].pc \in Busy \/ bt[v].i < Bound(pass)
                       /\ bt'[v].pc \in Ended => bt[v].pc \in Ended \/ loc[v[1]].dead = mode.lanes
                       /\ bt'[v].pc = "sync" => bt[v].pc = "sync"

LEMMA RelabelMoves ==
    ASSUME NEW w \in Item, NEW from, NEW to, Relabels({w}, from, to),
           UNCHANGED <<mode, phase, pass, loc, loaded>>, ts'.doneCnt = ts.doneCnt,
           "start" \notin from, "start" \notin to,
           \A x \in from, y \in to : /\ (x \in Ended <=> y \in Ended)
                                     /\ mode.consistent => (y \in Busy => x \in Busy) /\ y # "sync"
    PROVE  Moves(w)
  <1>1. Only(w) /\ Keeps(w) /\ bt[w].pc \in from /\ bt'[w].pc \in to
    BY DEF Relabels, Only
  <1>2. bt'[w].i = bt[w].i
    BY <1>1 DEF Keeps
  <1>3. QED
    BY <1>1, <1>2 DEF Moves, Only

LEMMA ItemMoves ==
    ASSUME ShapeInv, NEW w \in Item, BuildItem(w), ~(Insert(w) \/ Publish(w))
    PROVE  Moves(w) /\ phase = "build"
  <1> USE DEF Ended, Busy, Holding, Chaining
  <1>1. CASE WhileDead(w)
    <2> DEFINE U == Together(w)
    <2>1. /\ phase = "build" /\ TreeKept /\ ts' = ts /\ loc' = loc /\ mode.consistent
          /\ Relabels(U, {"while"}, {"leave", "read", "barrier"})
          /\ \A v \in U : /\ bt'[v].pc = "leave" => loc[v[1]].dead = mode.lanes
                          /\ bt'[v].pc = "read" => bt[v].i < Bound(pass)
      BY <1>1, WhileDeadDoes
    <2> HIDE DEF U
    <2>2. \A v \in Item \ U : bt'[v] = bt[v]
      BY <2>1 DEF Relabels
    <2>3. \A v \in U : bt'[v].i = bt[v].i /\ bt'[v].pc \in {"leave", "read", "barrier"}
      BY <2>1 DEF Relabels, Keeps
    <2>4. QED
      BY <2>1, <2>2, <2>3 DEF Moves, TreeKept
  <1>2. CASE WhileMore(w)
    <2>1. /\ phase = "build" /\ TreeKept /\ ts' = ts /\ loc' = loc /\ ~mode.consistent
          /\ Relabels({w}, {"while"}, {"read", "sync"})
      BY <1>2, WhileMoreDoes
    <2>2. QED
      BY <2>1, RelabelMoves DEF TreeKept
  <1>3. CASE Read(w)
    <2>1. phase = "build" /\ TreeKept /\ ts' = ts /\ loc' = loc /\ Only(w) /\ bt[w].pc = "read" /\ bt'[w].i = bt[w].i
          /\ bt'[w].pc \in {"read", "lock", "skip"}
      BY <1>3, ReadDoes
    <2>2. QED
      BY <2>1 DEF Moves, Only, TreeKept
  <1>4. CASE TryLock(w)
    <2>1. /\ phase = "build" /\ bt[w].pc = "lock" /\ ts' = ts /\ loc' = loc
          /\ UNCHANGED <<mode, loaded, phase, pass>>
      BY <1>4, TryLockDoes
    <2>2. \/ Relabels({w}, {"lock"}, {"skip"})
          \/ Only(w) /\ bt'[w].i = bt[w].i /\ bt'[w].pc \in {"insert", "alloc"}
      BY <1>4, TryLockDoes
    <2>3. CASE Relabels({w}, {"lock"}, {"skip"})
      BY <2>1, <2>3, RelabelMoves
    <2>4. CASE Only(w) /\ bt'[w].i = bt[w].i /\ bt'[w].pc \in {"insert", "alloc"}
      BY <2>1, <2>4 DEF Moves, Only
    <2>5. QED
      BY <2>1, <2>2, <2>3, <2>4
  <1>5. CASE Alloc(w)
    <2>1. /\ phase = "build" /\ UNCHANGED <<mode, loaded, phase, pass, loc>> /\ Only(w) /\ ts'.doneCnt = ts.doneCnt
          /\ bt[w].pc = "alloc" /\ bt'[w].i = bt[w].i /\ bt'[w].pc \in {"overflow", "fill"}
      BY <1>5, AllocDoes
    <2>2. QED
      BY <2>1 DEF Moves, Only
  <1>6. CASE Overflow(w)
    <2>1. /\ phase = "build" /\ UNCHANGED <<mode, phase, pass, loc, loaded>> /\ ts'.doneCnt = ts.doneCnt
          /\ Relabels({w}, {"overflow"}, {"fill"})
      BY <1>6, OverflowDoes
    <2>2. QED
      BY <2>1, RelabelMoves
  <1>7. CASE Fill(w)
    <2>1. /\ phase = "build" /\ UNCHANGED <<mode, phase, pass, loc, loaded, ts>> /\ Only(w)
          /\ bt[w].pc = "fill" /\ bt'[w].i = bt[w].i /\ bt'[w].pc \in {"alloc", "link"}
      BY <1>7, FillKeeps
    <2>2. QED
      BY <2>1 DEF Moves, Only
  <1>8. CASE Link(w)
    <2>1. /\ phase = "build" /\ UNCHANGED <<mode, loaded, phase, pass, loc, ts>>
          /\ Relabels({w}, {"link"}, {"publish"})
      BY <1>8, LinkDoes
    <2>2. QED
      BY <2>1, RelabelMoves
  <1>9. CASE Skip(w)
    <2>1. phase = "build" /\ TreeKept /\ ts' = ts /\ loc' = loc /\ Only(w) /\ bt[w].pc = "skip"
      BY <1>9, SkipDoes
    <2>2. \/ mode.consistent /\ Relabels({w}, {"skip"}, {"barrier"})
          \/ ~mode.consistent /\ bt'[w].pc = "while"
      BY <1>9, SkipDoes
    <2>3. CASE mode.consistent /\ Relabels({w}, {"skip"}, {"barrier"})
      BY <2>1, <2>3, RelabelMoves DEF TreeKept
    <2>4. CASE ~mode.consistent /\ bt'[w].pc = "while"
      BY <2>1, <2>4 DEF Moves, TreeKept
    <2>5. QED
      BY <2>1, <2>2, <2>3, <2>4
  <1>10. CASE Leave(w)
    <2>1. /\ phase = "build" /\ TreeKept /\ loc' = loc /\ ts'.doneCnt = ts.doneCnt
          /\ Relabels({w}, {"leave"}, {"exit"})
      BY <1>10, LeaveDoes
    <2>2. QED
      BY <2>1, RelabelMoves DEF TreeKept
  <1>11. QED
    BY <1>1, <1>2, <1>3, <1>4, <1>5, <1>6, <1>7, <1>8, <1>9, <1>10 DEF BuildItem

-----------------------------------------------------------------------------
(* Without consistent memory: what a group has inserted it adds to the      *)
(* count when all its items are through.                                    *)

Running == {g \in Group : bt[<<g, 0>>].pc \notin Ended}
Counted == {x \in Running \X Body : x[2] < loc[x[1]].success}
GroupInv(g) ==
  \/ loc[g].success = 0 /\ \A l \in Lane : bt[<<g, l>>].pc = "start"
  \/ \A l \in Lane : bt[<<g, l>>].pc \in Ended
  \/ \A l \in Lane : bt[<<g, l>>].pc \notin Ended \cup {"start"}
LocInv ==
  /\ loc = [g \in Group |-> loc[g]]
  /\ \A g \in Group : IsRecord(loc[g], {"success", "dead"}) /\ loc[g].success \in 0 .. NBody
CountInv ==
  /\ LocInv /\ ts.doneCnt \in Nat /\ \A g \in Group : GroupInv(g)
  /\ Cardinality(loaded) = ts.doneCnt + Cardinality(Counted)

LEMMA FiniteCounts ==
    ASSUME ShapeInv, loaded \subseteq Body
    PROVE  /\ IsFiniteSet(Body) /\ Cardinality(Body) = NBody
           /\ IsFiniteSet(loaded) /\ Cardinality(loaded) \in Nat /\ Cardinality(loaded) <= NBody
           /\ loaded # Body => Cardinality(loaded) < NBody
           /\ IsFiniteSet(Counted) /\ Cardinality(Counted) \in Nat
  <1>1. NBody \in Nat /\ NBody >= 1 /\ 0 \in Int /\ NBody - 1 \in Int
    BY NodeAssumption
  <1>2. IsFiniteSet(Body) /\ Cardinality(Body) = NBody
    <2>1. IsFiniteSet(0 .. NBody - 1) /\ Cardinality(0 .. NBody - 1) = NBody - 1 - 0 + 1
      BY <1>1, FS_Interval
    <2>2. QED
      BY <1>1, <2>1 DEF Body
  <1>3. /\ IsFiniteSet(loaded) /\ Cardinality(loaded) <= Cardinality(Body)
        /\ Cardinality(Body) = Cardinality(loaded) => Body = loaded
    BY <1>2, FS_Subset
  <1>4. Cardinality(loaded) \in Nat
    BY <1>3, FS_CardinalityType
  <1>5. Running \in SUBSET Group /\ IsFiniteSet(Group)
    BY GroupCount DEF Running
  <1>6. IsFiniteSet(Running)
    BY <1>5, FS_Subset
  <1>7. IsFiniteSet(Running \X Body)
    BY <1>2, <1>6, FS_Product
  <1>8. Counted \in SUBSET (Running \X Body)
    BY DEF Counted
  <1>9. IsFiniteSet(Counted)
    BY <1>7, <1>8, FS_Subset
  <1>10. Cardinality(Counted) \in Nat
    BY <1>9, FS_CardinalityType
  <1>11. QED
    BY <1>1, <1>2, <1>3, <1>4, <1>9, <1>10

\* The bodies of one group.
LEMMA Column ==
    ASSUME NEW g, NEW s \in Nat
    PROVE  IsFiniteSet({g} \X (0 .. s - 1)) /\ Cardinality({g} \X (0 .. s - 1)) = s
  <1> DEFINE I == 0 .. s - 1
  <1>1. 0 \in Int /\ s - 1 \in Int
    OBVIOUS
  <1>2. IsFiniteSet(I) /\ Cardinality(I) = IF 0 > s - 1 THEN 0 ELSE s - 1 - 0 + 1
    BY <1>1, FS_Interval
  <1>3. Cardinality(I) = s
    BY <1>2
  <1>4. IsFiniteSet({g}) /\ Cardinality({g}) = 1
    BY FS_Singleton
  <1> HIDE DEF I
  <1>5. IsFiniteSet({g} \X I) /\ Cardinality({g} \X I) = Cardinality({g}) * Cardinality(I)
    BY <1>2, <1>4, FS_Product
  <1>6. QED
    BY <1>3, <1>4, <1>5 DEF I

\* A step that changes neither the groups that are running nor what they count.
LEMMA CountKept ==
    ASSUME CountInv, UNCHANGED <<mode, loc, loaded>>, ts'.doneCnt = ts.doneCnt,
           \A g \in Group : bt[<<g, 0>>].pc \in Ended <=> bt'[<<g, 0>>].pc \in Ended,
           \A g \in Group : GroupInv(g)'
    PROVE  CountInv'
  <1>1. Group' = Group
    BY DEF Group
  <1>2. Running' = Running
    BY <1>1 DEF Running
  <1>3. Counted' = Counted
    BY <1>2 DEF Counted
  <1>4. LocInv'
    BY <1>1 DEF CountInv, LocInv
  <1>5. QED
    BY <1>1, <1>3, <1>4 DEF CountInv

LEMMA FirstLane == ShapeInv => 0 \in Lane
  BY ModeAssumption DEF ShapeInv, Lane

LEMMA CountMoves ==
    ASSUME ShapeInv, CountInv, ~mode.consistent, NEW w \in Item, Moves(w)
    PROVE  CountInv'
  <1>1. /\ UNCHANGED <<mode, loc, loaded>> /\ ts'.doneCnt = ts.doneCnt /\ Only(w)
        /\ (bt[w].pc \in Ended <=> bt'[w].pc \in Ended) /\ bt[w].pc # "start" /\ bt'[w].pc # "start"
    BY DEF Moves
  <1>2. \A g \in Group, l \in Lane : /\ <<g, l>> \in Item
                                     /\ bt[<<g, l>>].pc \in Ended <=> bt'[<<g, l>>].pc \in Ended
                                     /\ bt[<<g, l>>].pc = "start" <=> bt'[<<g, l>>].pc = "start"
    BY <1>1 DEF Item, Only
  <1>3. Lane' = Lane
    BY <1>1 DEF Lane
  <1>4. ASSUME NEW g \in Group
        PROVE  GroupInv(g)'
    <2>1. GroupInv(g)
      BY DEF CountInv
    <2>2. QED
      BY <1>1, <1>2, <1>3, <2>1 DEF GroupInv
  <1>5. QED
    BY <1>1, <1>2, <1>4, CountKept, FirstLane

\* An insertion is counted once: the body was not in the tree.
LEMMA CountLoads ==
    ASSUME ShapeInv, CountInv, ~mode.consistent, loaded \subseteq Body, NEW w \in Item, NEW value, Loaded(w, value),
           bt[w].pc \in Holding, bt[w].i \in Body, bt[w].i \notin loaded
    PROVE  CountInv'
  <1> DEFINE g == w[1]
             s == loc[g].success
  <1>1. /\ ts' = ts /\ UNCHANGED mode /\ Only(w) /\ loaded' = loaded \cup {bt[w].i} /\ bt'[w].pc = "while"
        /\ loc' = [loc EXCEPT ![g].success = @ + 1]
    BY LoadedDoes
  <1>2. Group' = Group /\ Lane' = Lane /\ g \in Group /\ w[2] \in Lane /\ w = <<g, w[2]>>
    BY <1>1 DEF Group, Lane, Item
  <1>3. bt[w].pc \notin Ended \cup {"start"} /\ bt'[w].pc \notin Ended \cup {"start"}
    BY <1>1 DEF Ended, Holding, Chaining
  <1>4. \A h \in Group, l \in Lane : <<h, l>> \in Item /\ (<<h, l>> # w => bt'[<<h, l>>] = bt[<<h, l>>])
    BY <1>1 DEF Item, Only
  <1>5. \A l \in Lane : bt[<<g, l>>].pc \notin Ended \cup {"start"}
    <2>1. GroupInv(g)
      BY <1>2 DEF CountInv
    <2>2. QED
      BY <1>2, <1>3, <2>1 DEF GroupInv
  <1>6. \A l \in Lane : bt'[<<g, l>>].pc \notin Ended \cup {"start"}
    BY <1>2, <1>3, <1>4, <1>5
  <1>7. \A h \in Group : h # g => \A l \in Lane : bt'[<<h, l>>] = bt[<<h, l>>]
    BY <1>2, <1>4
  <1>8. g \in Running /\ Running' = Running
    BY <1>2, <1>5, <1>6, <1>7, FirstLane DEF Running
  <1>9. IsRecord(loc[g], {"success", "dead"}) /\ loc = [h \in Group |-> loc[h]] /\ s \in 0 .. NBody
    BY <1>2 DEF CountInv, LocInv
  <1>10. /\ loc' = [h \in Group |-> loc'[h]] /\ \A h \in Group \ {g} : loc'[h] = loc[h]
         /\ loc'[g] = [loc[g] EXCEPT !.success = @ + 1]
    BY <1>1, <1>2, <1>9
  <1>11. IsRecord(loc'[g], {"success", "dead"}) /\ loc'[g].success = s + 1
    BY <1>9, <1>10 DEF IsRecord
  <1>12. /\ IsFiniteSet(loaded) /\ Cardinality(loaded) < NBody /\ IsFiniteSet(Counted) /\ Cardinality(Counted) \in Nat
         /\ Cardinality(loaded) \in Nat
    BY FiniteCounts
  <1>13. s < NBody
    <2>1. SUFFICES ASSUME s = NBody
                   PROVE  FALSE
      BY <1>9, NodeAssumption
    <2>2. ({g} \X (0 .. NBody - 1)) \in SUBSET Counted
      BY <1>8, <2>1, NodeAssumption DEF Counted, Body
    <2>3. Cardinality({g} \X (0 .. NBody - 1)) = NBody
      BY Column, NodeAssumption
    <2>4. NBody <= Cardinality(Counted)
      BY <1>12, <2>2, <2>3, FS_Subset
    <2>5. QED
      BY <1>12, <2>4, NodeAssumption DEF CountInv
  <1> HIDE DEF s, g
  <1>14. Counted' = Counted \cup {<<g, s>>} /\ <<g, s>> \notin Counted
    <2>1. s \in Body /\ s \in Nat
      BY <1>9, <1>13, NodeAssumption DEF Body
    <2>2. \A h \in Running, b \in Body : h # g => loc'[h] = loc[h]
      BY <1>10 DEF Running
    <2>3. \A b \in Body : b < s + 1 <=> b < s \/ b = s
      BY <2>1, NodeAssumption DEF Body
    <2>4. loc[g].success = s /\ ~(s < s)
      BY <2>1 DEF s
    <2>5. ASSUME NEW h \in Running, NEW b \in Body
          PROVE  b < loc'[h].success <=> b < loc[h].success \/ <<h, b>> = <<g, s>>
      <3>1. CASE h = g
        BY <1>11, <2>3, <2>4, <3>1
      <3>2. CASE h # g
        BY <2>2, <3>2
      <3>3. QED
        BY <3>1, <3>2
    <2>6. \A x : x \in Counted' <=> x \in Running \X Body /\ x[2] < loc'[x[1]].success
      BY <1>8 DEF Counted
    <2>7. \A x : x \in Counted <=> x \in Running \X Body /\ x[2] < loc[x[1]].success
      BY DEF Counted
    <2>8. <<g, s>> \in Running \X Body /\ <<g, s>> \notin Counted
      BY <1>8, <2>1, <2>4, <2>7
    <2>9. \A x \in Running \X Body : x[1] \in Running /\ x[2] \in Body /\ x = <<x[1], x[2]>>
      OBVIOUS
    <2>10. \A x \in Running \X Body : x[2] < loc'[x[1]].success <=> x[2] < loc[x[1]].success \/ x = <<g, s>>
      BY <2>5, <2>9
    <2>11. \A x : x \in Counted' <=> x \in Counted \/ x = <<g, s>>
      BY <2>6, <2>7, <2>8, <2>10
    <2>12. QED
      BY <2>8, <2>11
  <1>15. Cardinality(Counted') = Cardinality(Counted) + 1
    BY <1>12, <1>14, FS_AddElement
  <1>16. Cardinality(loaded') = Cardinality(loaded) + 1
    BY <1>1, <1>12, FS_AddElement
  <1>17. LocInv'
    <2>1. s + 1 \in 0 .. NBody
      BY <1>9, <1>13, NodeAssumption DEF s
    <2>2. QED
      BY <1>2, <1>10, <1>11, <2>1 DEF CountInv, LocInv
  <1>18. ASSUME NEW h \in Group
         PROVE  GroupInv(h)'
    <2>1. CASE h = g
      BY <1>2, <1>6, <2>1 DEF GroupInv
    <2>2. CASE h # g
      <3>1. GroupInv(h) /\ loc'[h] = loc[h]
        BY <1>10, <2>2 DEF CountInv
      <3>2. QED
        BY <1>2, <1>7, <2>2, <3>1 DEF GroupInv
    <2>3. QED
      BY <2>1, <2>2
  <1>19. ts.doneCnt \in Nat /\ Cardinality(loaded) = ts.doneCnt + Cardinality(Counted)
    BY DEF CountInv
  <1>20. Cardinality(loaded') = ts'.doneCnt + Cardinality(Counted')
    BY <1>1, <1>12, <1>15, <1>16, <1>19
  <1>21. QED
    BY <1>1, <1>2, <1>17, <1>18, <1>19, <1>20 DEF CountInv

\* The items of a group go on together.
LEMMA CountGroup ==
    ASSUME ShapeInv, CountInv, NEW g \in Group, NEW x, NEW y, Relabels({w \in Item : w[1] = g}, {x}, {y}),
           UNCHANGED <<mode, loc, loaded>>, y # "start"
    PROVE  /\ LocInv' /\ \A h \in Group : GroupInv(h)'
           /\ Running' = IF y \in Ended THEN Running \ {g} ELSE Running \cup {g}
           /\ bt[<<g, 0>>].pc = x
  <1>1. Group' = Group /\ Lane' = Lane /\ 0 \in Lane
    BY FirstLane DEF Group, Lane
  <1>2. /\ \A l \in Lane : bt[<<g, l>>].pc = x /\ bt'[<<g, l>>].pc = y
        /\ \A h \in Group \ {g}, l \in Lane : bt'[<<h, l>>] = bt[<<h, l>>]
    BY DEF Relabels, Item
  <1>3. LocInv'
    BY <1>1 DEF CountInv, LocInv
  <1>4. ASSUME NEW h \in Group
        PROVE  GroupInv(h)'
    <2>1. CASE h = g
      BY <1>1, <1>2, <2>1 DEF GroupInv
    <2>2. CASE h # g
      <3>1. GroupInv(h)
        BY DEF CountInv
      <3>2. QED
        BY <1>1, <1>2, <2>2, <3>1 DEF GroupInv
    <2>3. QED
      BY <2>1, <2>2
  <1>5. Running' = IF y \in Ended THEN Running \ {g} ELSE Running \cup {g}
    BY <1>1, <1>2 DEF Running
  <1>6. QED
    BY <1>1, <1>2, <1>3, <1>4, <1>5

LEMMA CountStart ==
    ASSUME ShapeInv, CountInv, NEW g \in Group, GroupStart(g)
    PROVE  CountInv'
  <1>1. TreeKept /\ ts' = ts /\ loc' = loc /\ UNCHANGED <<mode, loaded>>
    BY GroupStartDoes DEF TreeKept
  <1>2. PICK y \in {"while", "exit"} : Relabels({w \in Item : w[1] = g}, {"start"}, {y})
    BY GroupStartDoes
  <1>3. /\ LocInv' /\ \A h \in Group : GroupInv(h)'
        /\ Running' = IF y \in Ended THEN Running \ {g} ELSE Running \cup {g}
        /\ bt[<<g, 0>>].pc = "start"
    BY <1>1, <1>2, CountGroup
  <1>4. g \in Running /\ loc[g].success = 0
    <2>1. GroupInv(g) /\ 0 \in Lane
      BY FirstLane DEF CountInv
    <2>2. QED
      BY <1>3, <2>1 DEF GroupInv, Ended, Running
  <1>5. \A b \in Body : ~(b < loc[g].success)
    BY <1>4, NodeAssumption DEF Body
  <1>6. Counted' = Counted
    BY <1>1, <1>3, <1>4, <1>5 DEF Counted
  <1>7. Group' = Group
    BY <1>1 DEF Group
  <1>8. QED
    BY <1>1, <1>3, <1>6, <1>7 DEF CountInv

LEMMA CountBarrier ==
    ASSUME ShapeInv, CountInv, NEW g \in Group, Barrier(g)
    PROVE  CountInv'
  <1>1. TreeKept /\ ts' = ts /\ loc' = loc /\ UNCHANGED <<mode, loaded>>
        /\ Relabels({w \in Item : w[1] = g}, {"barrier"}, {"while"})
    BY BarrierDoes DEF TreeKept
  <1>2. /\ LocInv' /\ \A h \in Group : GroupInv(h)' /\ Running' = Running \cup {g} /\ bt[<<g, 0>>].pc = "barrier"
    BY <1>1, CountGroup DEF Ended
  <1>3. Running' = Running
    BY <1>2 DEF Running, Ended
  <1>4. Counted' = Counted /\ Group' = Group
    BY <1>1, <1>3 DEF Counted, Group
  <1>5. QED
    BY <1>1, <1>2, <1>4 DEF CountInv

LEMMA CountSync ==
    ASSUME ShapeInv, CountInv, loaded \subseteq Body, NEW g \in Group, Sync(g)
    PROVE  CountInv'
  <1> DEFINE s == loc[g].success
             T == {g} \X (0 .. s - 1)
  <1>1. /\ loc' = loc /\ UNCHANGED <<mode, loaded>> /\ ts'.doneCnt = ts.doneCnt + s
        /\ Relabels({w \in Item : w[1] = g}, {"sync"}, {"leave"})
    BY SyncDoes DEF TreeKept
  <1>2. /\ LocInv' /\ \A h \in Group : GroupInv(h)' /\ Running' = Running \ {g} /\ bt[<<g, 0>>].pc = "sync"
    BY <1>1, CountGroup DEF Ended
  <1>3. s \in 0 .. NBody /\ NBody \in Nat
    BY NodeAssumption DEF CountInv, LocInv
  <1>4. g \in Running /\ s \in Nat
    BY <1>2, <1>3 DEF Running, Ended
  <1>5. T \in SUBSET Counted
    BY <1>3, <1>4 DEF Counted, Body
  <1>6. Counted' = Counted \ T
    <2>1. \A b \in Body : b < s <=> b \in 0 .. s - 1
      BY <1>3 DEF Body
    <2>2. \A x : x \in Counted' <=> x \in Running' \X Body /\ x[2] < loc[x[1]].success
      BY <1>1 DEF Counted
    <2>3. \A x : x \in Counted <=> x \in Running \X Body /\ x[2] < loc[x[1]].success
      BY DEF Counted
    <2>4. \A x \in Running \X Body : x \in T <=> x[1] = g /\ x[2] < loc[x[1]].success
      <3> SUFFICES ASSUME NEW x \in Running \X Body
                   PROVE  x \in T <=> x[1] = g /\ x[2] < loc[x[1]].success
        OBVIOUS
      <3>1. x[2] \in Body /\ x = <<x[1], x[2]>>
        OBVIOUS
      <3>2. x \in T <=> x[1] = g /\ x[2] \in 0 .. s - 1
        BY <3>1
      <3>3. QED
        BY <2>1, <3>1, <3>2
    <2>5. \A x : x \in Running' \X Body <=> x \in Running \X Body /\ x[1] # g
      BY <1>2
    <2> HIDE DEF T
    <2>6. \A x : x \in Counted' <=> x \in Counted /\ x \notin T
      BY <2>2, <2>3, <2>4, <2>5
    <2>7. QED
      BY <2>6
  <1>7. IsFiniteSet(T) /\ Cardinality(T) = s
    BY <1>4, Column
  <1>8. IsFiniteSet(Counted) /\ Cardinality(Counted) \in Nat
    BY FiniteCounts
  <1> HIDE DEF T, s
  <1>9. Cardinality(Counted') = Cardinality(Counted) - s
    <2>1. Counted \cap T = T
      BY <1>5
    <2>2. Cardinality(Counted \ T) = Cardinality(Counted) - Cardinality(Counted \cap T)
      BY <1>8, FS_Difference
    <2>3. QED
      BY <1>6, <1>7, <2>1, <2>2
  <1>10. ts.doneCnt \in Nat /\ Cardinality(loaded) = ts.doneCnt + Cardinality(Counted)
    BY DEF CountInv
  <1>11. ts'.doneCnt \in Nat /\ Cardinality(loaded') = ts'.doneCnt + Cardinality(Counted')
    BY <1>1, <1>4, <1>8, <1>9, <1>10
  <1>12. Group' = Group
    BY <1>1 DEF Group
  <1>13. QED
    BY <1>2, <1>11, <1>12 DEF CountInv

\* A launch starts from what has been counted.
LEMMA CountLaunch ==
    ASSUME ShapeInv, NEW k, LaunchBuild(k), UNCHANGED mode, ts'.doneCnt = ts.doneCnt,
           ts.doneCnt \in Nat, Cardinality(loaded') = ts.doneCnt
    PROVE  CountInv'
  <1>1. Group' = Group /\ Lane' = Lane
    BY DEF Group, Lane
  <1>2. \A g \in Group, l \in Lane : bt'[<<g, l>>].pc = "start"
    BY LaunchDoes DEF Item
  <1>3. loc' = [g \in Group |-> loc'[g]] /\ \A g \in Group : \E d : loc'[g] = [success |-> 0, dead |-> d]
    BY DEF LaunchBuild
  <1>4. \A g \in Group : IsRecord(loc'[g], {"success", "dead"}) /\ loc'[g].success = 0
    BY <1>3 DEF IsRecord
  <1>5. LocInv'
    BY <1>1, <1>3, <1>4, NodeAssumption DEF LocInv
  <1>6. \A g \in Group : GroupInv(g)'
    BY <1>1, <1>2, <1>4 DEF GroupInv
  <1>7. Counted' = {}
    <2>1. \A b \in Body : ~(b < 0)
      BY NodeAssumption DEF Body
    <2>2. Running' \subseteq Group
      BY <1>1 DEF Running
    <2>3. QED
      BY <1>4, <2>1, <2>2 DEF Counted
  <1>8. Cardinality(Counted') = 0
    BY <1>7, FS_EmptySet
  <1>9. QED
    BY <1>1, <1>5, <1>6, <1>8 DEF CountInv

\* When every item has left, everything is counted.
LEMMA CountEnded ==
    ASSUME ShapeInv, CountInv, BuildEnded
    PROVE  Cardinality(loaded) = ts.doneCnt /\ ts.doneCnt \in Nat
  <1>1. Running = {}
    BY FirstLane DEF BuildEnded, Running, Ended, Item
  <1>2. Counted = {}
    BY <1>1 DEF Counted
  <1>3. Cardinality(Counted) = 0
    BY <1>2, FS_EmptySet
  <1>4. QED
    BY <1>3 DEF CountInv

-----------------------------------------------------------------------------
(* With consistent memory: the items divide the bodies among them.          *)

LEMMA Product ==
    ASSUME NEW a \in Nat, NEW b \in Nat, NEW d \in Nat, a <= b
    PROVE  a * d \in Nat /\ b * d \in Nat /\ a * d <= b * d
  <1>1. b - a \in Nat /\ b * d = a * d + (b - a) * d
    OBVIOUS
  <1>2. (b - a) * d \in Nat /\ a * d \in Nat
    BY <1>1
  <1>3. QED
    BY <1>1, <1>2

LEMMA Division ==
    ASSUME NEW b \in Nat, NEW d \in Nat, d >= 1
    PROVE  \E q, r \in Nat : r < d /\ b = r + q * d
  <1> DEFINE T == {n \in Nat : \E k \in Nat : b = n + k * d}
  <1>1. b \in T
    <2>1. b = b + 0 * d
      OBVIOUS
    <2>2. QED
      BY <2>1
  <1>2. PICK r \in T : \A k \in T : r <= k
    BY <1>1, Least
  <1>3. PICK q \in Nat : b = r + q * d
    BY <1>2
  <1>4. r < d
    <2>1. SUFFICES ASSUME r >= d
                   PROVE  FALSE
      BY <1>2
    <2>2. r - d \in Nat
      BY <1>2, <2>1
    <2>3. (q + 1) * d = q * d + d /\ q + 1 \in Nat /\ q * d \in Nat
      OBVIOUS
    <2>4. b = (r - d) + (q + 1) * d
      BY <1>2, <1>3, <2>2, <2>3
    <2>5. r - d \in T
      BY <2>2, <2>3, <2>4
    <2>6. r <= r - d
      BY <1>2, <2>5
    <2>7. r \in Nat
      BY <1>2
    <2> HIDE DEF T
    <2>8. QED
      BY <2>6, <2>7
  <1>5. QED
    BY <1>2, <1>3, <1>4

\* The bodies that item w inserts.
Mine(w, b) == \E k \in Nat : b = Gid(w) + k * Inc

LEMMA GidRange ==
    ASSUME ShapeInv, NEW w \in Item
    PROVE  Gid(w) \in Nat /\ Gid(w) < Inc
  <1>1. /\ w[1] \in Nat /\ w[2] \in Nat /\ w[1] <= mode.groups - 1 /\ w[2] <= mode.lanes - 1
        /\ mode.groups \in Nat /\ mode.groups >= 1 /\ mode.lanes \in Nat /\ mode.lanes >= 1
    BY IncNat DEF Item, Group, Lane
  <1>2. w[1] * mode.lanes \in Nat /\ w[1] * mode.lanes <= (mode.groups - 1) * mode.lanes
    BY <1>1, Product
  <1>3. (mode.groups - 1) * mode.lanes = mode.groups * mode.lanes - mode.lanes /\ mode.groups * mode.lanes \in Nat
    BY <1>1
  <1>4. QED
    BY <1>1, <1>2, <1>3 DEF Gid, Inc

LEMMA Owner ==
    ASSUME ShapeInv, NEW b \in Nat
    PROVE  \E w \in Item : Mine(w, b)
  <1>1. /\ Inc \in Nat /\ Inc >= 1 /\ mode.groups \in Nat /\ mode.groups >= 1
        /\ mode.lanes \in Nat /\ mode.lanes >= 1 /\ Inc = mode.groups * mode.lanes
    BY IncNat DEF Inc
  <1>2. PICK k, r \in Nat : r < Inc /\ b = r + k * Inc
    BY <1>1, Division
  <1>3. PICK g, l \in Nat : l < mode.lanes /\ r = l + g * mode.lanes
    BY <1>1, Division
  <1>4. g < mode.groups
    <2>1. SUFFICES ASSUME mode.groups <= g
                   PROVE  FALSE
      BY <1>1
    <2>2. mode.groups * mode.lanes <= g * mode.lanes /\ g * mode.lanes \in Nat
      BY <1>1, <2>1, Product
    <2>3. QED
      BY <1>1, <1>2, <1>3, <2>2
  <1> DEFINE w == <<g, l>>
  <1>5. w \in Item /\ w[1] = g /\ w[2] = l
    BY <1>1, <1>3, <1>4 DEF Item, Group, Lane
  <1>6. Gid(w) = r
    BY <1>1, <1>3, <1>5 DEF Gid
  <1>7. QED
    BY <1>2, <1>5, <1>6 DEF Mine

\* Between two bodies of an item in a row it has no other.
LEMMA MineOrder ==
    ASSUME ShapeInv, NEW w \in Item, NEW b, NEW i, Mine(w, b), Mine(w, i), b < i + Inc
    PROVE  b <= i /\ b \in Nat /\ i \in Nat
  <1>1. Gid(w) \in Nat /\ Inc \in Nat /\ Inc >= 1
    BY GidRange, IncNat
  <1>2. PICK k \in Nat : b = Gid(w) + k * Inc
    BY DEF Mine
  <1>3. PICK m \in Nat : i = Gid(w) + m * Inc
    BY DEF Mine
  <1>4. k * Inc \in Nat /\ m * Inc \in Nat /\ (m + 1) * Inc = m * Inc + Inc
    BY <1>1
  <1>5. k <= m
    <2>1. SUFFICES ASSUME m + 1 <= k
                   PROVE  FALSE
      OBVIOUS
    <2>2. (m + 1) * Inc <= k * Inc
      BY <1>1, <2>1, Product
    <2>3. QED
      BY <1>1, <1>2, <1>3, <1>4, <2>2
  <1>6. k * Inc <= m * Inc
    BY <1>1, <1>5, Product
  <1>7. QED
    BY <1>1, <1>2, <1>3, <1>4, <1>6

LEMMA MineNext ==
    ASSUME ShapeInv, NEW w \in Item, NEW i, Mine(w, i)
    PROVE  Mine(w, i + Inc) /\ i \in Nat /\ Inc \in Nat /\ Inc >= 1
  <1>1. Gid(w) \in Nat /\ Inc \in Nat /\ Inc >= 1
    BY GidRange, IncNat
  <1>2. PICK k \in Nat : i = Gid(w) + k * Inc
    BY DEF Mine
  <1>3. (k + 1) * Inc = k * Inc + Inc /\ k * Inc \in Nat /\ k + 1 \in Nat
    BY <1>1
  <1>4. i + Inc = Gid(w) + (k + 1) * Inc
    BY <1>1, <1>2, <1>3
  <1>5. i \in Nat
    BY <1>1, <1>2, <1>3
  <1>6. Mine(w, i + Inc)
    BY <1>3, <1>4 DEF Mine
  <1>7. QED
    BY <1>1, <1>5, <1>6

\* What an item has before its first body of launch k.
LEMMA MineBefore ==
    ASSUME ShapeInv, NEW w \in Item, NEW k \in Nat
    PROVE  /\ Mine(w, Gid(w) + Offset(k))
           /\ \A b : Mine(w, b) /\ b < Gid(w) + Offset(k) => k > 0 /\ b < Offset(k)
  <1>1. Gid(w) \in Nat /\ Gid(w) < Inc /\ Inc \in Nat /\ Inc >= 1 /\ k * Inc \in Nat /\ Offset(k) = k * Inc
    BY GidRange, IncNat DEF Offset
  <1>2. ASSUME NEW b, Mine(w, b), b < Gid(w) + Offset(k)
        PROVE  k > 0 /\ b < Offset(k)
    <2>1. PICK m \in Nat : b = Gid(w) + m * Inc
      BY <1>2 DEF Mine
    <2>2. m < k
      <3>1. SUFFICES ASSUME k <= m
                     PROVE  FALSE
        OBVIOUS
      <3>2. k * Inc <= m * Inc /\ m * Inc \in Nat
        BY <1>1, <3>1, Product
      <3>3. QED
        BY <1>1, <1>2, <2>1, <3>2
    <2>3. (m + 1) * Inc <= k * Inc /\ (m + 1) * Inc = m * Inc + Inc /\ m * Inc \in Nat
      <3>1. m + 1 \in Nat /\ m + 1 <= k
        BY <2>2
      <3>2. (m + 1) * Inc <= k * Inc
        BY <1>1, <3>1, Product
      <3>3. (m + 1) * Inc = m * Inc + Inc /\ m * Inc \in Nat
        BY <1>1
      <3>4. QED
        BY <3>2, <3>3
    <2>4. QED
      BY <1>1, <2>1, <2>2, <2>3
  <1>3. Mine(w, Gid(w) + Offset(k))
    BY <1>1 DEF Mine
  <1>4. QED
    BY <1>2, <1>3

\* The chunks are one behind the other, and the last one ends with the bodies.
LEMMA ChunkBounds ==
    ASSUME ShapeInv, NEW k \in Nat
    PROVE  /\ \A b \in Body : b < Offset(k + 1) => b < Bound(k)
           /\ ~(k + 1 < Chunks) => Bound(k) = NBody
  <1>1. Inc \in Nat /\ Inc >= 1 /\ NBody \in Nat /\ NBody >= 1 /\ (k + 1) * Inc \in Nat
    BY IncNat, NodeAssumption
  <1>2. \A b \in Body : b < Offset(k + 1) => b < Bound(k)
    BY <1>1 DEF Body, Offset, Bound
  <1>3. ASSUME ~(k + 1 < Chunks)
        PROVE  Bound(k) = NBody
    <2>1. CASE ~mode.responsive
      BY <2>1 DEF Bound
    <2>2. CASE mode.responsive
      <3> DEFINE q == (NBody + Inc - 1) \div Inc
      <3>1. NBody + Inc - 1 \in Nat
        BY <1>1
      <3>2. q \in Nat /\ NBody + Inc - 1 < q * Inc + Inc
        BY <1>1, <3>1
      <3>3. Chunks = q
        BY <2>2 DEF Chunks
      <3> HIDE DEF q
      <3>4. q <= k + 1
        BY <1>3, <3>2, <3>3
      <3>5. q * Inc <= (k + 1) * Inc /\ q * Inc \in Nat
        BY <1>1, <3>2, <3>4, Product
      <3>6. (k + 1) * Inc >= NBody
        BY <1>1, <3>2, <3>5
      <3>7. QED
        BY <1>1, <3>6 DEF Bound
    <2>3. QED
      BY <2>1, <2>2
  <1>4. QED
    BY <1>2, <1>3

Members(g) == {w \in Item : w[1] = g}
Dead(g)    == {w \in Item : w[1] = g /\ bt[w].i >= Bound(pass)}

\* deadCount is the number of the items that are past the chunk; an item
\* leaves only then, and has inserted all of its bodies before the one it is at.
DeadInv ==
  /\ loc = [g \in Group |-> loc[g]]
  /\ \A g \in Group : IsRecord(loc[g], {"success", "dead"}) /\ loc[g].dead = Cardinality(Dead(g))
Served(w) ==
  /\ bt[w].pc \in Ended => bt[w].i >= Bound(pass)
  /\ bt[w].pc \in Busy => bt[w].i < Bound(pass)
  /\ bt[w].pc # "sync" /\ Mine(w, bt[w].i)
  /\ \A b \in Body : Mine(w, b) /\ b < bt[w].i => b \in loaded
ChunkInv == DeadInv /\ \A w \in Item : Served(w)

LEMMA DeadCount ==
    ASSUME ShapeInv, NEW g \in Group
    PROVE  /\ IsFiniteSet(Dead(g)) /\ Cardinality(Dead(g)) \in Nat
           /\ Cardinality(Dead(g)) = mode.lanes => Dead(g) = Members(g)
  <1>1. mode.lanes \in Nat
    BY IncNat
  <1>2. Members(g) = {g} \X (0 .. mode.lanes - 1)
    BY DEF Members, Item, Lane
  <1>a. IsFiniteSet({g} \X (0 .. mode.lanes - 1)) /\ Cardinality({g} \X (0 .. mode.lanes - 1)) = mode.lanes
    BY <1>1, Column, Zenon
  <1>3. IsFiniteSet(Members(g)) /\ Cardinality(Members(g)) = mode.lanes
    BY <1>2, <1>a
  <1>4. Dead(g) \in SUBSET Members(g)
    BY DEF Dead, Members
  <1>5. QED
    BY <1>3, <1>4, FS_Subset, FS_CardinalityType

LEMMA ChunkSame ==
    ASSUME UNCHANGED mode
    PROVE  /\ Item' = Item /\ Group' = Group /\ \A k : Bound(k)' = Bound(k)
           /\ \A w, b : Mine(w, b)' <=> Mine(w, b)
  BY SameItems DEF Group, Bound, Inc, Mine, Gid

\* A step that inserts no body and moves no item on to another one.
LEMMA ChunkKept ==
    ASSUME ChunkInv, UNCHANGED <<mode, pass, loc, loaded>>,
           \A v \in Item : /\ bt'[v].i = bt[v].i
                           /\ bt'[v].pc \in Ended => bt[v].i >= Bound(pass)
                           /\ bt'[v].pc \in Busy => bt[v].i < Bound(pass)
                           /\ bt'[v].pc # "sync"
    PROVE  ChunkInv'
  <1>1. Item' = Item /\ Group' = Group /\ Bound(pass)' = Bound(pass) /\ \A w, b : Mine(w, b)' <=> Mine(w, b)
    BY ChunkSame DEF Bound, Inc
  <1>2. \A g \in Group : Dead(g)' = Dead(g)
    BY <1>1 DEF Dead
  <1>3. DeadInv'
    BY <1>1, <1>2 DEF ChunkInv, DeadInv
  <1>4. ASSUME NEW v \in Item
        PROVE  Served(v)'
    <2>1. Served(v)
      BY DEF ChunkInv
    <2>2. QED
      BY <1>1, <2>1 DEF Served
  <1>5. QED
    BY <1>1, <1>3, <1>4 DEF ChunkInv

LEMMA ChunkMoves ==
    ASSUME ShapeInv, ChunkInv, mode.consistent, NEW w \in Item, Moves(w)
    PROVE  ChunkInv'
  <1>1. UNCHANGED <<mode, pass, loc, loaded>>
    BY DEF Moves
  <1>2. ASSUME NEW v \in Item
        PROVE  /\ bt'[v].i = bt[v].i
               /\ bt'[v].pc \in Ended => bt[v].i >= Bound(pass)
               /\ bt'[v].pc \in Busy => bt[v].i < Bound(pass)
               /\ bt'[v].pc # "sync"
    <2>1. Served(v)
      BY DEF ChunkInv
    <2>2. v[1] \in Group /\ v \in Members(v[1])
      BY DEF Item, Members
    <2>3. loc[v[1]].dead = mode.lanes => v \in Dead(v[1])
      BY <2>2, DeadCount DEF ChunkInv, DeadInv
    <2>4. v \in Dead(v[1]) => bt[v].i >= Bound(pass)
      BY DEF Dead
    <2>5. QED
      BY <2>1, <2>3, <2>4 DEF Moves, Served
  <1>3. QED
    BY <1>1, <1>2, ChunkKept

\* The groups move on together.
LEMMA ChunkGroup ==
    ASSUME ShapeInv, ChunkInv, mode.consistent, NEW g \in Group, GroupStart(g) \/ Barrier(g) \/ Sync(g)
    PROVE  ChunkInv'
  <1>1. \A v \in Item : Served(v)
    BY DEF ChunkInv
  <1>2. <<g, 0>> \in Item /\ <<g, 0>>[1] = g
    BY FirstLane DEF Item
  <1>3. ~Sync(g)
    <2>1. Sync(g) => Relabels({w \in Item : w[1] = g}, {"sync"}, {"leave"})
      BY SyncDoes
    <2>2. Sync(g) => bt[<<g, 0>>].pc = "sync"
      BY <1>2, <2>1 DEF Relabels
    <2>3. QED
      BY <1>1, <1>2, <2>2 DEF Served
  <1>4. PICK x : UNCHANGED <<mode, pass, loc, loaded>> /\ Relabels({w \in Item : w[1] = g}, {x}, {"while"})
    <2>1. CASE GroupStart(g)
      BY <2>1, GroupStartDoes DEF TreeKept
    <2>2. CASE Barrier(g)
      BY <2>2, BarrierDoes DEF TreeKept
    <2>3. QED
      BY <1>3, <2>1, <2>2
  <1>5. ASSUME NEW v \in Item
        PROVE  /\ bt'[v].i = bt[v].i
               /\ bt'[v].pc \in Ended => bt[v].i >= Bound(pass)
               /\ bt'[v].pc \in Busy => bt[v].i < Bound(pass)
               /\ bt'[v].pc # "sync"
    <2>1. CASE v[1] = g
      <3>1. Keeps(v) /\ bt'[v].pc = "while"
        BY <1>4, <2>1 DEF Relabels
      <3>2. QED
        BY <3>1 DEF Keeps, Ended, Busy, Holding, Chaining
    <2>2. CASE v[1] # g
      <3>1. bt'[v] = bt[v]
        BY <1>4, <2>2 DEF Relabels
      <3>2. QED
        BY <1>1, <3>1 DEF Served
    <2>3. QED
      BY <2>1, <2>2
  <1>6. QED
    BY <1>4, <1>5, ChunkKept

\* An insertion moves its item on to its next body.
LEMMA ChunkLoads ==
    ASSUME ShapeInv, ChunkInv, mode.consistent, pass \in Nat, NEW w \in Item, NEW value, Loaded(w, value),
           bt[w].pc \in Holding
    PROVE  ChunkInv'
  <1> DEFINE g == w[1]
             next == bt[w].i + Inc
             d == IF next >= Bound(pass) THEN 1 ELSE 0
  <1>1. /\ UNCHANGED <<mode, pass>> /\ Only(w) /\ loaded' = loaded \cup {bt[w].i} /\ bt'[w].pc = "barrier"
        /\ loc' = [loc EXCEPT ![g].dead = @ + d] /\ bt'[w].i = next
    BY LoadedDoes DEF Begins
  <1>2. Item' = Item /\ Group' = Group /\ Bound(pass)' = Bound(pass) /\ \A v, b : Mine(v, b)' <=> Mine(v, b)
    BY <1>1, ChunkSame DEF Bound, Inc
  <1>3. Served(w) /\ g \in Group
    BY DEF ChunkInv, Item
  <1>4. bt[w].i < Bound(pass) /\ Mine(w, bt[w].i) /\ Bound(pass) \in Nat
    BY <1>3, BoundRange DEF Served, Busy
  <1>5. Mine(w, next) /\ bt[w].i \in Nat /\ Inc \in Nat /\ Inc >= 1
    BY <1>4, MineNext
  <1>6. w \notin Dead(g)
    BY <1>4, <1>5 DEF Dead
  <1>7. \A v \in Item : v # w => bt'[v] = bt[v]
    BY <1>1 DEF Only
  <1>8. \A h \in Group \ {g} : Dead(h)' = Dead(h)
    BY <1>2, <1>7 DEF Dead
  <1>9. Dead(g)' = IF next >= Bound(pass) THEN Dead(g) \cup {w} ELSE Dead(g)
    <2>1. \A v : v \in Dead(g)' <=> v \in Item /\ v[1] = g /\ bt'[v].i >= Bound(pass)
      BY <1>2 DEF Dead
    <2>2. \A v : v \in Dead(g) <=> v \in Item /\ v[1] = g /\ bt[v].i >= Bound(pass)
      BY DEF Dead
    <2>3. \A v : v # w => (v \in Dead(g)' <=> v \in Dead(g))
      BY <1>7, <2>1, <2>2
    <2>4. w \in Dead(g)' <=> next >= Bound(pass)
      BY <1>1, <2>1
    <2> HIDE DEF next, g
    <2>5. QED
      BY <1>6, <2>3, <2>4
  <1>10. IsFiniteSet(Dead(g)) /\ Cardinality(Dead(g)) \in Nat
    BY <1>3, DeadCount
  <1>11. Cardinality(Dead(g)') = Cardinality(Dead(g)) + d
    <2>1. CASE next >= Bound(pass)
      <3>1. Cardinality(Dead(g) \cup {w}) = Cardinality(Dead(g)) + 1
        BY <1>6, <1>10, FS_AddElement
      <3>2. QED
        BY <1>9, <2>1, <3>1
    <2>2. CASE ~(next >= Bound(pass))
      BY <1>9, <1>10, <2>2
    <2>3. QED
      BY <2>1, <2>2
  <1>12. DeadInv'
    <2> HIDE DEF d, g
    <2>1. /\ loc = [h \in Group |-> loc[h]] /\ IsRecord(loc[g], {"success", "dead"})
          /\ loc[g].dead = Cardinality(Dead(g))
      BY <1>3 DEF ChunkInv, DeadInv
    <2>2. /\ loc' = [h \in Group |-> loc'[h]] /\ \A h \in Group \ {g} : loc'[h] = loc[h]
          /\ loc'[g] = [loc[g] EXCEPT !.dead = @ + d]
      BY <1>1, <1>3, <2>1
    <2>3. IsRecord(loc'[g], {"success", "dead"}) /\ loc'[g].dead = Cardinality(Dead(g)')
      BY <1>11, <2>1, <2>2 DEF IsRecord
    <2>4. ASSUME NEW h \in Group
          PROVE  IsRecord(loc'[h], {"success", "dead"}) /\ loc'[h].dead = Cardinality(Dead(h)')
      <3>1. CASE h = g
        BY <2>3, <3>1
      <3>2. CASE h # g
        BY <1>8, <2>2, <3>2 DEF ChunkInv, DeadInv
      <3>3. QED
        BY <3>1, <3>2
    <2>5. QED
      BY <1>2, <2>2, <2>4 DEF DeadInv
  <1>13. ASSUME NEW v \in Item
         PROVE  Served(v)'
    <2>1. CASE v = w
      <3>1. bt'[w].pc \notin Ended /\ bt'[w].pc \notin Busy /\ bt'[w].pc # "sync"
        BY <1>1 DEF Ended, Busy, Holding, Chaining
      <3>2. ASSUME NEW b \in Body, Mine(w, b), b < next
            PROVE  b \in loaded'
        <4>1. b <= bt[w].i /\ b \in Nat
          BY <1>4, <3>2, MineOrder
        <4>2. CASE b = bt[w].i
          BY <1>1, <4>2
        <4>3. CASE b # bt[w].i
          <5>1. b < bt[w].i
            BY <1>5, <4>1, <4>3
          <5>2. QED
            BY <1>1, <1>3, <3>2, <5>1 DEF Served
        <4>4. QED
          BY <4>2, <4>3
      <3>3. QED
        BY <1>1, <1>2, <1>5, <2>1, <3>1, <3>2 DEF Served
    <2>2. CASE v # w
      <3>1. Served(v) /\ bt'[v] = bt[v]
        BY <1>7, <2>2 DEF ChunkInv
      <3>2. QED
        BY <1>1, <1>2, <3>1 DEF Served
    <2>3. QED
      BY <2>1, <2>2
  <1>14. QED
    BY <1>2, <1>12, <1>13 DEF ChunkInv

\* Launch k, when all chunks before it are in the tree.
LEMMA ChunkLaunch ==
    ASSUME ShapeInv, mode.consistent, UNCHANGED mode, NEW k \in Nat, LaunchBuild(k), pass' = k,
           \A b \in Body : k > 0 /\ b < Offset(k) => b \in loaded'
    PROVE  ChunkInv'
  <1>1. Item' = Item /\ Group' = Group /\ Bound(pass)' = Bound(k) /\ \A v, b : Mine(v, b)' <=> Mine(v, b)
    BY ChunkSame DEF Bound, Inc
  <1>2. \A w \in Item : bt'[w].i = Gid(w) + Offset(k) /\ bt'[w].pc = "start"
    BY LaunchDoes DEF Begins
  <1>3. loc' = [g \in Group |-> [success |-> 0,
                  dead |-> Cardinality({w \in Item : w[1] = g /\ Gid(w) + Offset(k) >= Bound(k)})]]
    BY DEF LaunchBuild
  <1>4. \A g \in Group : Dead(g)' = {w \in Item : w[1] = g /\ Gid(w) + Offset(k) >= Bound(k)}
    BY <1>1, <1>2 DEF Dead
  <1>5. loc' = [g \in Group |-> loc'[g]] /\ \A g \in Group : loc'[g] = [success |-> 0, dead |-> Cardinality(Dead(g)')]
    BY <1>3, <1>4
  <1>6. \A g \in Group : IsRecord(loc'[g], {"success", "dead"}) /\ loc'[g].dead = Cardinality(Dead(g)')
    BY <1>5 DEF IsRecord
  <1>7. DeadInv'
    BY <1>1, <1>5, <1>6 DEF DeadInv
  <1>8. ASSUME NEW w \in Item
        PROVE  Served(w)'
    <2>1. /\ Mine(w, Gid(w) + Offset(k))
          /\ \A b : Mine(w, b) /\ b < Gid(w) + Offset(k) => k > 0 /\ b < Offset(k)
      BY MineBefore
    <2>2. bt'[w].pc \notin Ended /\ bt'[w].pc \notin Busy /\ bt'[w].pc # "sync"
      BY <1>2 DEF Ended, Busy, Holding, Chaining
    <2>3. QED
      BY <1>1, <1>2, <2>1, <2>2 DEF Served
  <1>9. QED
    BY <1>1, <1>7, <1>8 DEF ChunkInv

\* When every item has left, the chunk is in the tree.
LEMMA ChunkEnded ==
    ASSUME ShapeInv, ChunkInv, BuildEnded, pass \in Nat
    PROVE  \A b \in Body : b < Bound(pass) => b \in loaded
  <1> SUFFICES ASSUME NEW b \in Body, b < Bound(pass)
               PROVE  b \in loaded
    OBVIOUS
  <1>1. b \in Nat
    BY NodeAssumption DEF Body
  <1>2. PICK w \in Item : Mine(w, b)
    BY <1>1, Owner
  <1>3. Served(w) /\ bt[w].pc = "exit"
    BY DEF ChunkInv, BuildEnded
  <1>4. bt[w].i >= Bound(pass) /\ bt[w].i \in Nat /\ Bound(pass) \in Nat
    BY <1>3, MineNext, BoundRange DEF Served, Ended
  <1>5. b < bt[w].i
    BY <1>1, <1>4
  <1>6. QED
    BY <1>2, <1>3, <1>5 DEF Served

LoadInv ==
  Fit => /\ phase = "build" /\ ~mode.consistent => CountInv
         /\ phase = "build" /\ mode.consistent => ChunkInv
         /\ phase = "sumclear" => loaded = Body
Loads == Device /\ LoadInv

LEMMA LoadBuild ==
    ASSUME Loads, Fit, ShapeInv, pass \in Nat,
           (\E w \in Item : BuildItem(w)) \/ (\E g \in Group : GroupStart(g) \/ Barrier(g) \/ Sync(g))
    PROVE  LoadInv'
  <1>1. ASSUME NEW w \in Item, BuildItem(w), ~(Insert(w) \/ Publish(w))
        PROVE  LoadInv'
    <2>1. Moves(w) /\ phase = "build"
      BY <1>1, ItemMoves
    <2>2. UNCHANGED <<mode, phase>>
      BY <2>1 DEF Moves
    <2>3. ~mode.consistent => CountInv'
      BY <2>1, CountMoves DEF Loads, LoadInv
    <2>4. mode.consistent => ChunkInv'
      BY <2>1, ChunkMoves DEF Loads, LoadInv
    <2>5. QED
      BY <2>1, <2>2, <2>3, <2>4 DEF LoadInv
  <1>2. ASSUME NEW w \in Item, Insert(w) \/ Publish(w)
        PROVE  LoadInv'
    <2>1. phase = "build" /\ bt[w].pc \in Holding /\ \E value : Loaded(w, value)
      BY <1>2 DEF Insert, Publish, At, Holding, Chaining
    <2>2. PICK value : Loaded(w, value)
      BY <2>1
    <2>3. UNCHANGED <<mode, phase>>
      BY <2>2, LoadedDoes
    <2>4. IsTree
      BY <2>1 DEF Loads, Device, DeviceInv
    <2>5. loaded \subseteq Body /\ bt[w].i \in Body /\ bt[w].i \notin loaded
      BY <2>1, <2>4 DEF IsTree, TreeInv, MemoryInv, ItemInv, Locks, Holds
    <2>6. ~mode.consistent => CountInv'
      BY <2>1, <2>2, <2>5, CountLoads DEF Loads, LoadInv
    <2>7. mode.consistent => ChunkInv'
      BY <2>1, <2>2, ChunkLoads DEF Loads, LoadInv
    <2>8. QED
      BY <2>1, <2>3, <2>6, <2>7 DEF LoadInv
  <1>3. ASSUME NEW g \in Group, GroupStart(g) \/ Barrier(g) \/ Sync(g)
        PROVE  LoadInv'
    <2>1. phase = "build" /\ UNCHANGED <<mode, phase>>
      BY <1>3, GroupStartDoes, BarrierDoes, SyncDoes DEF TreeKept
    <2>2. IsTree
      BY <2>1 DEF Loads, Device, DeviceInv
    <2>3. loaded \subseteq Body
      BY <2>2 DEF IsTree, TreeInv, MemoryInv
    <2>4. ~mode.consistent => CountInv'
      BY <1>3, <2>1, <2>3, CountStart, CountBarrier, CountSync DEF Loads, LoadInv
    <2>5. mode.consistent => ChunkInv'
      BY <1>3, <2>1, ChunkGroup DEF Loads, LoadInv
    <2>6. QED
      BY <2>1, <2>4, <2>5 DEF LoadInv
  <1>4. QED
    BY <1>1, <1>2, <1>3

LEMMA LoadClear ==
    ASSUME Loads, Fit, ShapeInv, buildTreeClear
    PROVE  LoadInv'
  <1>1. /\ phase = "box" /\ phase' = "build" /\ UNCHANGED <<mode, ts>> /\ \A g \in Group : box[g].pc = "exit"
        /\ LaunchBuild(0) /\ pass' = 0 /\ loaded' = {}
    BY DEF buildTreeClear
  <1>2. BoxInv /\ BoxDone = Group
    BY <1>1 DEF Loads, Device, DeviceInv, BoxDone
  <1>3. ts.doneCnt = 0 /\ ts'.doneCnt = ts.doneCnt /\ 0 \in Nat
    BY <1>1, <1>2 DEF BoxInv
  <1>4. Cardinality(loaded') = 0
    BY <1>1, FS_EmptySet
  <1>5. CountInv'
    BY <1>1, <1>3, <1>4, CountLaunch
  <1>6. mode.consistent => ChunkInv'
    <2>1. ~(0 > 0)
      OBVIOUS
    <2>2. QED
      BY <1>1, <1>3, <2>1, ChunkLaunch
  <1>7. QED
    BY <1>1, <1>5, <1>6 DEF LoadInv

LEMMA LoadHost ==
    ASSUME Loads, Fit, ShapeInv, pass \in Nat, NextChunk \/ Repeat
    PROVE  LoadInv'
  <1>1. BuildEnded /\ phase = "build" /\ UNCHANGED <<mode, ts, loaded>>
    BY DEF NextChunk, Repeat, BuildEnded, past
  <1>2. IsTree
    BY <1>1 DEF Loads, Device, DeviceInv
  <1>3. loaded \subseteq Body /\ NBody \in Nat
    BY <1>2, NodeAssumption DEF IsTree, TreeInv, MemoryInv
  <1>4. CASE NextChunk
    <2>1. mode.consistent /\ ChunkInv
      BY <1>1, <1>4 DEF NextChunk, Loads, LoadInv
    <2>2. \A b \in Body : b < Bound(pass) => b \in loaded
      BY <1>1, <2>1, ChunkEnded
    <2>3. CASE pass + 1 < Chunks
      <3>1. LaunchBuild(pass + 1) /\ pass' = pass + 1 /\ UNCHANGED phase /\ pass + 1 \in Nat
        BY <1>4, <2>3 DEF NextChunk
      <3>2. \A b \in Body : b < Offset(pass + 1) => b \in loaded'
        BY <1>1, <2>2, ChunkBounds
      <3> DEFINE k == pass + 1
      <3>3. LaunchBuild(k) /\ pass' = k /\ k \in Nat /\ \A b \in Body : b < Offset(k) => b \in loaded'
        BY <3>1, <3>2
      <3> HIDE DEF k
      <3>4. ChunkInv'
        BY <1>1, <2>1, <3>3, ChunkLaunch
      <3>5. QED
        BY <1>1, <2>1, <3>1, <3>4 DEF LoadInv
    <2>4. CASE ~(pass + 1 < Chunks)
      <3>1. phase' = "sumclear" /\ Bound(pass) = NBody
        BY <1>4, <2>4, ChunkBounds DEF NextChunk
      <3>2. \A b \in Body : b < NBody
        BY <1>3 DEF Body
      <3>3. loaded' = Body
        BY <1>1, <1>3, <2>2, <3>1, <3>2
      <3>4. QED
        BY <3>1, <3>3 DEF LoadInv
    <2>5. QED
      BY <2>3, <2>4
  <1>5. CASE Repeat
    <2>1. ~mode.consistent /\ CountInv
      BY <1>1, <1>5 DEF Repeat, Loads, LoadInv
    <2>2. Cardinality(loaded) = ts.doneCnt /\ ts.doneCnt \in Nat
      BY <1>1, <2>1, CountEnded
    <2>3. \/ phase' = "build" /\ LaunchBuild(0)
          \/ phase' \in {"error", "stuck"}
          \/ phase' = "sumclear" /\ ~(ts.doneCnt < NBody)
      BY <1>1, <1>5 DEF Repeat
    <2>4. CASE phase' = "build" /\ LaunchBuild(0)
      <3>1. CountInv'
        BY <1>1, <2>2, <2>4, CountLaunch
      <3>2. QED
        BY <1>1, <2>1, <2>4, <3>1 DEF LoadInv
    <2>5. CASE phase' = "sumclear" /\ ~(ts.doneCnt < NBody)
      <3>1. loaded = Body
        BY <1>3, <2>2, <2>5, FiniteCounts
      <3>2. QED
        BY <1>1, <2>5, <3>1 DEF LoadInv
    <2>6. QED
      BY <2>3, <2>4, <2>5 DEF LoadInv
  <1>6. QED
    BY <1>4, <1>5

LEMMA LoadStutter ==
    ASSUME Loads, Fit, ShapeInv, UNCHANGED vars
    PROVE  LoadInv'
  <1>1. UNCHANGED <<mode, ts, bt, loc, phase, pass, loaded>>
    BY DEF vars, host, work, past
  <1>2. CountInv => CountInv'
    <2> SUFFICES ASSUME CountInv
                 PROVE  CountInv'
      OBVIOUS
    <2>1. Lane' = Lane /\ Group' = Group
      BY <1>1 DEF Lane, Group
    <2>2. ASSUME NEW g \in Group
          PROVE  GroupInv(g)'
      <3>1. GroupInv(g)
        BY DEF CountInv
      <3>2. QED
        BY <1>1, <2>1, <3>1 DEF GroupInv
    <2>3. QED
      BY <1>1, <2>2, CountKept
  <1>3. ChunkInv => ChunkInv'
    BY <1>1, ChunkKept DEF ChunkInv, Served
  <1>4. QED
    BY <1>1, <1>2, <1>3 DEF Loads, LoadInv

LEMMA LoadNext == Loads /\ [Next]_vars => Loads'
  <1> SUFFICES ASSUME Loads, [Next]_vars
               PROVE  Loads'
    OBVIOUS
  <1>1. Device /\ Device'
    BY DeviceNext DEF Loads
  <1>2. ShapeInv /\ pass \in Nat /\ (Fit' => Fit)
    BY <1>1, DeviceStep
  <1>3. SUFFICES ASSUME Fit', Fit
                 PROVE  LoadInv'
    BY <1>1, <1>2 DEF Loads, LoadInv
  <1>4. phase' \notin {"build", "sumclear"} => LoadInv'
    BY DEF LoadInv
  <1>5. ASSUME NEW w \in Item, ItemStep(w)
        PROVE  LoadInv'
    <2>1. w[1] \in Group
      BY DEF Item
    <2>2. CASE BuildItem(w) \/ GroupStart(w[1]) \/ Barrier(w[1]) \/ Sync(w[1])
      BY <1>2, <1>3, <2>1, <2>2, LoadBuild
    <2>3. CASE SumItem(w) \/ SortCell(w)
      <3>1. phase' \notin {"build", "sumclear"}
        BY <2>3 DEF SumItem, Scan, Poll, Store, SetReady, NextCell, SortCell, AtSum, host
      <3>2. QED
        BY <1>4, <3>1
    <2>4. CASE BoxReduce(w[1]) \/ BoxCount(w[1])
      <3>1. phase' \notin {"build", "sumclear"}
        BY <2>4 DEF BoxReduce, BoxCount, host
      <3>2. QED
        BY <1>4, <3>1
    <2>5. CASE \E u : Visit(u) \/ Save(u)
      <3>1. phase' \notin {"build", "sumclear"}
        BY <2>5 DEF Visit, Save, AtForce, host
      <3>2. QED
        BY <1>4, <3>1
    <2>6. QED
      BY <1>5, <2>2, <2>3, <2>4, <2>5 DEF ItemStep, BuildGroup
  <1>6. CASE HostStep
    <2>1. CASE BuildHost
      BY <1>2, <1>3, <2>1, LoadClear, LoadHost DEF BuildHost
    <2>2. CASE SumHost \/ ForceHost \/ integration
      <3>1. phase' \notin {"build", "sumclear"}
        BY <2>2 DEF SumHost, summarizationClear, SumAgain, SortAgain, QuadAgain, ForceHost, BeginForce,
                    ForceAgain, integration
      <3>2. QED
        BY <1>4, <3>1
    <2>3. QED
      BY <1>6, <2>1, <2>2 DEF HostStep
  <1>7. CASE UNCHANGED vars
    BY <1>2, <1>3, <1>7, LoadStutter
  <1>8. QED
    BY <1>5, <1>6, <1>7 DEF Next

(* Invariant: what has been inserted is what the groups and the host have   *)
(* counted (doneCnt, successCount), or what the chunks of the launches say; *)
(* when the host leaves buildTree every body has been inserted.             *)
THEOREM LoadsInvariant == Spec => []Loads
  <1>1. Init => Loads
    BY DeviceFirst DEF Init, Loads, LoadInv
  <1>2. QED
    BY <1>1, LoadNext, PTL DEF Spec

\* What the run calls sound the invariant speaks of.
LEMMA SoundFits == Device /\ Sound => Fit
  <1> SUFFICES ASSUME Device, Sound
               PROVE  Fit
    OBVIOUS
  <1>1. ~overflowed /\ ts.maxDepth <= MaxDepth
    BY DEF Sound
  <1>2. ASSUME phase = "build", NEW w \in Item
        PROVE  bt[w].maxd <= MaxDepth /\ bt[w].depth <= MaxDepth
    <2>1. Larger(bt[w].depth, bt[w].maxd) <= MaxDepth
      BY <1>2 DEF Sound
    <2>2. bt[w].depth \in Nat /\ bt[w].maxd \in Nat /\ MaxDepth \in Nat
      BY <1>2, DepthAssumption DEF Device, NumInv
    <2>3. QED
      BY <2>1, <2>2 DEF Larger
  <1>3. QED
    BY <1>1, <1>2 DEF Fit

(* No interleaving of the insertions of buildTree loses a body: the search  *)
(* for an inserted body ends at it, or at a slot that another item holds    *)
(* locked, and without consistent memory the counts the host waits for      *)
(* count every inserted body once.                                          *)
THEOREM LoadedBodiesStay == Spec => []LoadedStay
  <1>1. Loads => LoadedStay
    <2> SUFFICES ASSUME Loads, phase = "build", Sound
                 PROVE  /\ \A b \in loaded : Route(b)[NNode] \in {b, LOCK}
                        /\ ~mode.consistent =>
                             LET running == {g \in Group : bt[<<g, 0>>].pc \notin {"leave", "exit"}}
                             IN  Cardinality(loaded) =
                                   ts.doneCnt + Cardinality({x \in running \X Body : x[2] < loc[x[1]].success})
      BY DEF LoadedStay
    <2>1. Fit /\ IsTree
      BY SoundFits DEF Loads, Device, DeviceInv
    <2>2. \A b \in loaded : Route(b)[NNode] \in {b, LOCK}
      BY <2>1, BodiesFound
    <2>3. ~mode.consistent => CountInv
      BY <2>1 DEF Loads, LoadInv
    <2>4. QED
      BY <2>2, <2>3 DEF CountInv, Counted, Running, Ended
  <1>2. QED
    BY <1>1, LoadsInvariant, PTL

-----------------------------------------------------------------------------
(* The tree that buildTree leaves.                                          *)

UnderOf(f, k) == IF isBody(k) THEN {k} ELSE UNION {f[child[k][j]] : j \in {i \in Sub : child[k][i] >= 0}}
IsUnder(f, n) == f = [k \in 0 .. n |-> UnderOf(f, k)]

\* The children of a cell have smaller indices.
Down == \A k \in Node, j \in Sub : isCell(k) /\ child[k][j] >= 0 => child[k][j] \in Nat /\ child[k][j] < k

LEMMA UnderSame ==
    ASSUME Down, NEW k \in Node, NEW f, NEW g, \A x \in Nat : x < k => f[x] = g[x]
    PROVE  UnderOf(f, k) = UnderOf(g, k)
  <1>1. CASE isBody(k)
    BY <1>1 DEF UnderOf
  <1>2. CASE ~isBody(k)
    <2>1. isCell(k)
      BY <1>2, NodeAssumption DEF isBody, isCell, Node
    <2> DEFINE J == {i \in Sub : child[k][i] >= 0}
    <2>2. \A j \in J : f[child[k][j]] = g[child[k][j]]
      BY <2>1 DEF Down
    <2>3. UnderOf(f, k) = UNION {f[child[k][j]] : j \in J} /\ UnderOf(g, k) = UNION {g[child[k][j]] : j \in J}
      BY <1>2 DEF UnderOf
    <2> HIDE DEF J
    <2>4. {f[child[k][j]] : j \in J} = {g[child[k][j]] : j \in J}
      BY <2>2
    <2>5. QED
      BY <2>3, <2>4
  <1>3. QED
    BY <1>1, <1>2

LEMMA UnderExists ==
    ASSUME Down
    PROVE  \E f : IsUnder(f, NNode)
  <1> DEFINE T == {n \in Nat : n <= NNode /\ ~ \E f : IsUnder(f, n)}
  <1>1. NNode \in Nat /\ NBody \in Nat /\ NBody >= 1
    BY NodeAssumption
  <1>2. SUFFICES ASSUME T # {}
                 PROVE  FALSE
    BY <1>1
  <1>3. PICK m \in T : \A k \in T : m <= k
    BY <1>2, Least
  <1>4. CASE m = 0
    <2> DEFINE f == [k \in 0 .. 0 |-> {k}]
               h == [k \in 0 .. 0 |-> UnderOf(f, k)]
    <2>1. \A k \in 0 .. 0 : UnderOf(f, k) = {k}
      BY <1>1 DEF UnderOf, isBody
    <2>2. f = h
      BY <2>1
    <2>3. IsUnder(f, m)
      BY <1>4, <2>2 DEF IsUnder
    <2> HIDE DEF f
    <2>4. QED
      BY <1>3, <2>3
  <1>5. CASE m # 0
    <2>1. m \in Nat /\ m - 1 \in Nat /\ m - 1 \notin T /\ m <= NNode
      BY <1>3, <1>5
    <2>2. PICK f : IsUnder(f, m - 1)
      BY <1>1, <2>1
    <2> DEFINE g == [k \in 0 .. m |-> IF k = m THEN UnderOf(f, m) ELSE f[k]]
               h == [k \in 0 .. m |-> UnderOf(g, k)]
    <2>3. \A k \in 0 .. m - 1 : f[k] = UnderOf(f, k)
      BY <2>2 DEF IsUnder
    <2>4. \A x \in Nat : x < m => x \in 0 .. m - 1 /\ g[x] = f[x]
      BY <2>1
    <2>5. ASSUME NEW k \in 0 .. m
          PROVE  g[k] = h[k]
      <3>1. k \in Node /\ \A x \in Nat : x < k => f[x] = g[x]
        BY <1>1, <2>1, <2>4 DEF Node
      <3> HIDE DEF g
      <3>2. UnderOf(f, k) = UnderOf(g, k)
        BY <3>1, UnderSame
      <3> USE DEF g
      <3>3. g[k] = UnderOf(f, k)
        BY <2>1, <2>3
      <3>4. h[k] = UnderOf(g, k)
        OBVIOUS
      <3>5. QED
        BY <3>2, <3>3, <3>4
    <2>6. g = h
      BY <2>5
    <2>7. IsUnder(g, m)
      BY <2>6 DEF IsUnder
    <2> HIDE DEF g
    <2>8. QED
      BY <1>3, <2>7
  <1>6. QED
    BY <1>4, <1>5

LEMMA UnderIs ==
    ASSUME Down
    PROVE  \A n \in Node : Under[n] = UnderOf(Under, n)
  <1>1. Under = CHOOSE f : IsUnder(f, NNode)
    BY DEF Under, IsUnder, UnderOf, Node
  <1>2. IsUnder(Under, NNode)
    BY <1>1, UnderExists
  <1>3. QED
    BY <1>2 DEF IsUnder, Node

\* All items have left, and every body has been inserted.
Finished(up, lv, reg, own) ==
  /\ TreeInv(up, lv, reg, own) /\ loaded = Body
  /\ \A w \in Item : bt[w].pc = "exit"

LEMMA FinishedFacts ==
    ASSUME NEW up, NEW lv, NEW reg, NEW own, Finished(up, lv, reg, own)
    PROVE  /\ \A w : w \in Item => ~Chains(w) /\ ~Holds(w) /\ \A c : ~Filling(w, c)
           /\ \A c \in Cells : own[c] = NoItem /\ c \in Node /\ c \in Nat /\ isCell(c) /\ ~isBody(c) /\ c >= NBody + 1
           /\ \A m \in NBody .. NNode, s \in Sub : m \in Cells \/ child[m][s] = NULL_BODY
           /\ \A m \in Cells, s \in Sub : /\ m \in NBody .. NNode
                                          /\ child[m][s] \in Node \cup {NULL_BODY}
                                          /\ isCell(child[m][s]) => /\ child[m][s] \in Cells \ {NNode}
                                                                    /\ child[m][s] < m /\ up[child[m][s]] = <<m, s>>
           /\ NNode \in Nat /\ NBody \in Nat /\ NBody >= 1
  <1>1. TreeInv(up, lv, reg, own) /\ MemoryInv
    BY DEF Finished, TreeInv
  <1>2. NNode \in Nat /\ NBody \in Nat /\ NBody >= 1 /\ ts.bottom \in NBody + 1 .. NNode
    BY <1>1, NodeAssumption DEF MemoryInv
  <1>3. \A w : w \in Item => ~Chains(w) /\ ~Holds(w) /\ \A c : ~Filling(w, c)
    BY DEF Finished, Chains, Holds, Filling, Holding, Chaining
  <1>4. \A c \in Cells : own[c] = NoItem
    BY <1>1, <1>3 DEF TreeInv, ItemInv
  <1>5. \A c \in Cells : c \in Node /\ c \in Nat /\ isCell(c) /\ ~isBody(c) /\ c >= NBody + 1
    BY <1>2 DEF Cells, Node, isCell, isBody
  <1>6. ASSUME NEW m \in NBody .. NNode, NEW s \in Sub, m \notin Cells
        PROVE  child[m][s] = NULL_BODY
    <2>1. m \in Node /\ isCell(m) /\ m < ts.bottom
      BY <1>2, <1>6 DEF Cells, Node, isCell
    <2>2. QED
      BY <1>1, <2>1 DEF TreeInv, LinkInv
  <1>7. ASSUME NEW m \in Cells, NEW s \in Sub
        PROVE  /\ m \in NBody .. NNode /\ child[m][s] \in Node \cup {NULL_BODY}
               /\ isCell(child[m][s]) => /\ child[m][s] \in Cells \ {NNode}
                                         /\ child[m][s] < m /\ up[child[m][s]] = <<m, s>>
    <2>1. m \in NBody .. NNode
      BY <1>2 DEF Cells
    <2>2. child[m][s] # LOCK
      BY <1>1, <1>3 DEF TreeInv, LockInv
    <2>3. child[m][s] \in Node \cup {NULL_BODY, LOCK}
      BY <1>1, CellFacts
    <2>4. ASSUME isCell(child[m][s])
          PROVE  child[m][s] \in Cells \ {NNode} /\ child[m][s] < m /\ up[child[m][s]] = <<m, s>>
      <3> DEFINE c == child[m][s]
      <3>1. c \in Cells /\ c # NNode /\ up[c] = <<m, s>>
        BY <1>1, <2>4 DEF TreeInv, LinkInv
      <3> HIDE DEF c
      <3>2. c < up[c][1]
        BY <1>1, <3>1 DEF TreeInv, CellInv
      <3>3. QED
        BY <3>1, <3>2 DEF c
    <2>5. QED
      BY <2>1, <2>2, <2>3, <2>4
  <1>8. QED
    BY <1>2, <1>3, <1>4, <1>5, <1>6, <1>7

\* The search for a body ends at it.
LEMMA FinishedRoute ==
    ASSUME NEW up, NEW lv, NEW reg, NEW own, Finished(up, lv, reg, own), NEW b \in Body
    PROVE  Route(b)[NNode] = b /\ \E m \in Cells, s \in Sub : child[m][s] = b
  <1> DEFINE f == Route(b)
             T == {k \in Nat : k <= NNode /\ f[k] \notin Cells}
  <1>1. TreeInv(up, lv, reg, own) /\ b \in loaded /\ IsTree
    BY DEF Finished, IsTree
  <1>2. NNode \in Nat /\ NBody \in Nat /\ NBody >= 1 /\ NNode \in 0 .. NNode /\ MemoryInv /\ NNode \in Cells
    BY <1>1, FinishedFacts, CellFacts DEF TreeInv
  <1>3. f[0] = NNode /\ \A k \in 1 .. NNode : f[k] = Go(f[k - 1], b)
    BY RouteSteps
  <1>4. \A k \in 0 .. NNode : f[k] \in {b, LOCK} \/ f[k] \in Cells
    BY <1>1, RouteEnds DEF OnWay
  <1>5. f[NNode] \in {b, LOCK}
    BY <1>1, BodiesFound
  <1> HIDE DEF f
  <1>6. ~isCell(b) /\ ~isCell(LOCK) /\ b # LOCK /\ b # NULL_BODY /\ LOCK # NULL_BODY
    BY <1>2 DEF isCell, LOCK, NULL_BODY, Body
  <1>7. f[NNode] \notin Cells
    BY <1>5, <1>6, FinishedFacts
  <1>8. NNode \in T
    BY <1>2, <1>7
  <1>9. PICK m \in T : \A k \in T : m <= k
    BY <1>8, Least
  <1>10. m \in Nat /\ m <= NNode /\ f[m] \notin Cells /\ m # 0
    BY <1>2, <1>3, <1>9
  <1>11. m - 1 \in Nat /\ m - 1 \notin T /\ m - 1 <= NNode
    BY <1>2, <1>9, <1>10
  <1>12. f[m - 1] \in Cells /\ f[m] = Go(f[m - 1], b)
    BY <1>2, <1>3, <1>10, <1>11
  <1> DEFINE n == f[m - 1]
             s == Oct(n, b)
  <1>13. f[m] = child[n][s] /\ s \in Sub /\ n \in Cells
    BY <1>12, OctRange, FinishedFacts DEF Go, Leads
  <1>14. f[m] # LOCK
    <2>1. child[n][s] \in Node \cup {NULL_BODY}
      BY <1>13, FinishedFacts
    <2>2. LOCK \notin Node
      BY <1>2 DEF LOCK, Node
    <2>3. QED
      BY <1>6, <1>13, <2>1, <2>2
  <1>15. f[m] = b
    BY <1>2, <1>4, <1>10, <1>14
  <1> HIDE DEF n, s
  <1>16. \E x \in Cells, y \in Sub : child[x][y] = b
    BY <1>13, <1>15
  <1>17. f[NNode] = b
    <2> DEFINE S == {k \in Nat : m <= k /\ k <= NNode /\ f[k] # b}
    <2>1. SUFFICES ASSUME S # {}
                   PROVE  FALSE
      BY <1>2, <1>10
    <2>2. PICK k \in S : \A x \in S : k <= x
      BY <2>1, Least
    <2>3. k \in Nat /\ m <= k /\ k <= NNode /\ f[k] # b /\ k # m
      BY <1>15, <2>2
    <2>4. k - 1 \in Nat /\ k - 1 \notin S /\ m <= k - 1
      BY <1>10, <2>2, <2>3
    <2>5. f[k - 1] = b
      BY <1>2, <2>3, <2>4
    <2>6. f[k] = Go(f[k - 1], b)
      BY <1>2, <1>3, <1>10, <2>3
    <2>7. QED
      BY <1>6, <2>3, <2>5, <2>6 DEF Go
  <1>18. QED
    BY <1>16, <1>17 DEF f

LEMMA FinishedSlots ==
    ASSUME NEW up, NEW lv, NEW reg, NEW own, Finished(up, lv, reg, own)
    PROVE  /\ \A b \in Body : Cardinality(Slots(b)) = 1
           /\ Slots(LOCK) = {}
           /\ \A c \in Cells \ {NNode} : Cardinality(Slots(c)) = 1
  <1>1. TreeInv(up, lv, reg, own)
    BY DEF Finished
  <1>2. NNode \in Nat /\ NBody \in Nat /\ NBody >= 1
    BY FinishedFacts
  <1>3. \A n, x : x \in Slots(n) <=> x \in (NBody .. NNode) \X Sub /\ child[x[1]][x[2]] = n
    BY DEF Slots
  <1>4. \A n, x : n # NULL_BODY /\ x \in Slots(n) => x[1] \in Cells /\ x[2] \in Sub /\ x = <<x[1], x[2]>> /\ child[x[1]][x[2]] = n
    BY <1>3, FinishedFacts
  <1>5. Slots(LOCK) = {}
    <2>1. LOCK \notin Node /\ LOCK # NULL_BODY
      BY <1>2 DEF LOCK, NULL_BODY, Node
    <2>2. QED
      BY <1>4, <2>1, FinishedFacts
  <1>6. ASSUME NEW n, NEW x, Slots(n) = {x}
        PROVE  Cardinality(Slots(n)) = 1
    BY <1>6, FS_Singleton
  <1>7. ASSUME NEW b \in Body
        PROVE  Cardinality(Slots(b)) = 1
    <2>1. b # NULL_BODY /\ ~isCell(b)
      BY <1>2 DEF NULL_BODY, Body, isCell
    <2>2. PICK m \in Cells, s \in Sub : child[m][s] = b
      BY FinishedRoute
    <2>3. \A k \in Cells, t \in Sub : child[k][t] = b => t = Oct(k, b) /\ b \in reg[k] /\ Leads(k, b) = b
      BY <1>1 DEF TreeInv, BodyInv, Leads
    <2>4. \A k, l \in Cells, t, r \in Sub : child[k][t] = b /\ child[l][r] = b => ~(l < k)
      <3> SUFFICES ASSUME NEW k \in Cells, NEW l \in Cells, NEW t \in Sub, NEW r \in Sub,
                          child[k][t] = b, child[l][r] = b, l < k
                   PROVE  FALSE
        OBVIOUS
      <3>1. own[l] = own[k] /\ b \in reg[k] /\ b \in reg[l] /\ Leads(k, b) = b
        BY <2>3, FinishedFacts
      <3>2. isCell(Leads(k, b)) \/ \E w \in Item : Filling(w, l)
        BY <1>1, <3>1 DEF TreeInv, UniqueInv
      <3>3. QED
        BY <2>1, <3>1, <3>2, FinishedFacts
    <2>5. ASSUME NEW x \in Slots(b)
          PROVE  x = <<m, s>>
      <3>1. x[1] \in Cells /\ x[2] \in Sub /\ x = <<x[1], x[2]>> /\ child[x[1]][x[2]] = b
        BY <1>4, <2>1, <2>5
      <3>2. ~(x[1] < m) /\ ~(m < x[1]) /\ m \in Nat /\ x[1] \in Nat
        BY <2>2, <2>4, <3>1, FinishedFacts
      <3>3. x[1] = m
        BY <3>2
      <3>4. x[2] = s
        BY <2>2, <2>3, <3>1, <3>3
      <3>5. QED
        BY <3>1, <3>3, <3>4
    <2>6. <<m, s>> \in Slots(b)
      BY <1>3, <2>2, FinishedFacts
    <2>7. Slots(b) = {<<m, s>>}
      BY <2>5, <2>6
    <2>8. QED
      BY <1>6, <2>7
  <1>8. ASSUME NEW c \in Cells \ {NNode}
        PROVE  Cardinality(Slots(c)) = 1
    <2>a. c \in Cells /\ c # NNode /\ own[c] = NoItem
      BY FinishedFacts
    <2>b. up[c] \in Cells \X Sub
      BY <1>1, <2>a DEF TreeInv, CellInv
    <2>c. child[up[c][1]][up[c][2]] = c
      BY <1>1, <2>a DEF TreeInv, LinkInv
    <2>1. up[c] \in Cells \X Sub /\ child[up[c][1]][up[c][2]] = c
      BY <2>b, <2>c
    <2>2. up[c] \in Slots(c)
      BY <1>3, <2>1, FinishedFacts
    <2>3. c # NULL_BODY /\ isCell(c)
      BY <1>2, FinishedFacts DEF NULL_BODY
    <2>4. ASSUME NEW x \in Slots(c)
          PROVE  x = up[c]
      <3>1. x[1] \in Cells /\ x[2] \in Sub /\ x = <<x[1], x[2]>> /\ child[x[1]][x[2]] = c
        BY <1>4, <2>3, <2>4
      <3>2. QED
        BY <2>3, <3>1, FinishedFacts
    <2>5. Slots(c) = {up[c]}
      BY <2>2, <2>4
    <2>6. QED
      BY <1>6, <2>5
  <1>9. QED
    BY <1>5, <1>7, <1>8

LEMMA FinishedDown ==
    ASSUME NEW up, NEW lv, NEW reg, NEW own, Finished(up, lv, reg, own)
    PROVE  Down
  <1> SUFFICES ASSUME NEW k \in Node, NEW j \in Sub, isCell(k), child[k][j] >= 0
               PROVE  child[k][j] \in Nat /\ child[k][j] < k
    BY DEF Down
  <1>1. NNode \in Nat /\ NBody \in Nat /\ NBody >= 1
    BY FinishedFacts
  <1>2. k \in NBody .. NNode
    BY <1>1 DEF Node, isCell
  <1>3. k \in Cells
    BY <1>2, FinishedFacts DEF NULL_BODY
  <1>4. child[k][j] \in Node
    BY <1>3, FinishedFacts DEF NULL_BODY
  <1>5. CASE isCell(child[k][j])
    BY <1>1, <1>3, <1>4, <1>5, FinishedFacts DEF Node
  <1>6. CASE ~isCell(child[k][j])
    BY <1>1, <1>2, <1>4, <1>6 DEF Node, isCell
  <1>7. QED
    BY <1>5, <1>6

LEMMA FinishedUnder ==
    ASSUME NEW up, NEW lv, NEW reg, NEW own, Finished(up, lv, reg, own)
    PROVE  /\ \A n \in Node : Under[n] \in SUBSET Body
           /\ \A c \in Cells \ {NNode} : Cardinality(Under[c]) >= 2
  <1>1. Down /\ NNode \in Nat /\ NBody \in Nat /\ NBody >= 1
    BY FinishedDown, FinishedFacts
  <1>2. \A n \in Node : Under[n] = UnderOf(Under, n)
    BY <1>1, UnderIs
  <1>a. PICK U : U = Under
    OBVIOUS
  <1>b. \A n \in Node : U[n] = UnderOf(U, n)
    BY <1>2, <1>a
  <1>c. \A n \in Node : isBody(n) => U[n] = {n}
    BY <1>b DEF UnderOf
  <1>d. \A n \in Node : isBody(n) => n \in Body
    BY <1>1 DEF isBody, Node, Body
  <1>3. \A n \in Node : isBody(n) => Under[n] = {n} /\ n \in Body
    BY <1>a, <1>c, <1>d
  <1>e. ASSUME NEW n \in Node, NEW x, ~isBody(n)
        PROVE  x \in U[n] <=> \E j \in Sub : child[n][j] >= 0 /\ x \in U[child[n][j]]
    <2>1. U[n] = UNION {U[child[n][j]] : j \in {i \in Sub : child[n][i] >= 0}}
      BY <1>b, <1>e DEF UnderOf
    <2>2. QED
      BY <2>1
  <1>4. \A n \in Node : \A x : ~isBody(n) => (x \in Under[n] <=> \E j \in Sub : child[n][j] >= 0 /\ x \in Under[child[n][j]])
    BY <1>a, <1>e
  <1>5. ASSUME NEW n \in Node
        PROVE  Under[n] \in SUBSET Body
    <2> DEFINE T == {k \in Nat : k <= NNode /\ ~(Under[k] \in SUBSET Body)}
    <2>1. SUFFICES ASSUME T # {}
                   PROVE  FALSE
      BY <1>1 DEF Node
    <2>2. PICK m \in T : \A k \in T : m <= k
      BY <2>1, Least
    <2>3. m \in Node /\ m \in Nat /\ m <= NNode /\ ~(Under[m] \in SUBSET Body)
      BY <1>1, <2>2 DEF Node
    <2>4. ~isBody(m)
      BY <1>3, <2>3
    <2>5. isCell(m)
      BY <1>1, <2>3, <2>4 DEF isBody, isCell
    <2>6. ASSUME NEW j \in Sub, child[m][j] >= 0
          PROVE  Under[child[m][j]] \in SUBSET Body
      <3>1. child[m][j] \in Nat /\ child[m][j] < m
        BY <1>1, <2>3, <2>5, <2>6 DEF Down
      <3> DEFINE c == child[m][j]
      <3> HIDE DEF c
      <3>2. c \in Nat /\ c < m
        BY <3>1 DEF c
      <3>3. c \notin T /\ c <= NNode
        BY <1>1, <2>2, <2>3, <3>2
      <3>4. QED
        BY <3>2, <3>3 DEF c
    <2>7. QED
      BY <1>4, <2>3, <2>4, <2>6
  <1>6. \A c \in Cells \ {NNode} : \E x, y \in Under[c] : x # y
    <2> DEFINE T == {k \in Nat : k \in Cells \ {NNode} /\ ~ \E x, y \in Under[k] : x # y}
    <2>1. SUFFICES ASSUME T # {}
                   PROVE  FALSE
      BY FinishedFacts
    <2>2. PICK m \in T : \A k \in T : m <= k
      BY <2>1, Least
    <2>3. m \in Nat /\ m \in Cells /\ m # NNode /\ (~ \E x, y \in Under[m] : x # y) /\ m \in Node /\ ~isBody(m)
      BY <2>2, FinishedFacts
    <2>4. CASE \E s \in Sub : isCell(child[m][s])
      <3>1. PICK s \in Sub : isCell(child[m][s])
        BY <2>4
      <3> DEFINE c == child[m][s]
      <3>2. c \in Cells \ {NNode} /\ c < m
        BY <2>3, <3>1, FinishedFacts
      <3>3. c \in Nat /\ c >= 0
        BY <1>1, <3>2, FinishedFacts
      <3>4. \A x : x \in Under[c] => x \in Under[m]
        BY <1>4, <2>3, <3>3
      <3> HIDE DEF c
      <3>5. c \notin T
        BY <2>2, <2>3, <3>2, <3>3
      <3>6. \E x, y \in Under[c] : x # y
        BY <3>2, <3>3, <3>5
      <3>7. QED
        BY <2>3, <3>4, <3>6
    <2>5. CASE \A s \in Sub : ~isCell(child[m][s])
      <3>a. FullInv(own) /\ own[m] = NoItem /\ \A w \in Item : ~Chains(w)
        BY <2>3, FinishedFacts DEF Finished, TreeInv
      <3>1. \A s \in Sub : child[m][s] # NULL_BODY
        BY <2>3, <2>5, <3>a DEF FullInv
      <3>2. \A s \in Sub : child[m][s] \in Node
        BY <2>3, <3>1, FinishedFacts
      <3>3. 0 \in Sub /\ 1 \in Sub
        BY DEF Sub
      <3>4. \A s \in Sub : child[m][s] \in Body /\ isBody(child[m][s]) /\ child[m][s] >= 0
        BY <1>1, <2>5, <3>2 DEF Node, Body, isCell, isBody
      <3>5. \A s \in Sub : Oct(m, child[m][s]) = s
        BY <2>3, <3>4 DEF Finished, TreeInv, BodyInv
      <3>6. child[m][0] # child[m][1]
        BY <3>3, <3>5
      <3>7. \A s \in Sub : child[m][s] \in Under[m]
        <4>1. \A s \in Sub : child[m][s] \in Under[child[m][s]]
          BY <1>3, <3>2, <3>4
        <4>2. QED
          BY <1>4, <2>3, <3>4, <4>1
      <3>8. QED
        BY <2>3, <3>3, <3>6, <3>7
    <2>6. QED
      BY <2>4, <2>5
  <1>7. ASSUME NEW c \in Cells \ {NNode}
        PROVE  Cardinality(Under[c]) >= 2
    <2>1. PICK x, y \in Under[c] : x # y
      BY <1>6
    <2>2. IsFiniteSet({x}) /\ Cardinality({x}) = 1
      BY FS_Singleton
    <2>3. IsFiniteSet({x} \cup {y}) /\ Cardinality({x} \cup {y}) = 2
      BY <2>1, <2>2, FS_AddElement
    <2>4. IsFiniteSet(0 .. NBody - 1)
      BY <1>1, FS_Interval
    <2>5. Under[c] \in SUBSET Body
      BY <1>5, FinishedFacts
    <2>6. IsFiniteSet(Under[c])
      BY <2>4, <2>5, FS_Subset DEF Body
    <2>7. ({x} \cup {y}) \in SUBSET Under[c]
      BY <2>1
    <2>8. Cardinality({x} \cup {y}) <= Cardinality(Under[c])
      BY <2>6, <2>7, FS_Subset
    <2>9. Cardinality(Under[c]) \in Nat
      BY <2>6, FS_CardinalityType
    <2>10. QED
      BY <2>3, <2>8, <2>9
  <1>8. QED
    BY <1>5, <1>7

(* When the host goes on from buildTree every body is in exactly one slot,  *)
(* the one its position leads to; no slot is left locked; every cell taken  *)
(* from the pool is in exactly one slot and has two bodies or more under it.*)
THEOREM TreeIsBuilt == Spec => []BuiltTree
  <1>1. Loads => BuiltTree
    <2> SUFFICES ASSUME Loads, phase = "sumclear", Sound
                 PROVE  /\ \A b \in Body : Route(b)[NNode] = b /\ Cardinality(Slots(b)) = 1
                        /\ Slots(LOCK) = {}
                        /\ \A c \in Cells \ {NNode} : Cardinality(Slots(c)) = 1 /\ Cardinality(Under[c]) >= 2
      BY DEF BuiltTree
    <2>1. Fit
      BY SoundFits DEF Loads
    <2>2. IsTree /\ loaded = Body /\ \A w \in Item : bt[w].pc = "exit"
      BY <2>1 DEF Loads, Device, DeviceInv, LoadInv
    <2>3. PICK up, lv, reg, own : Finished(up, lv, reg, own)
      BY <2>2 DEF IsTree, Finished
    <2>4. QED
      BY <2>3, FinishedRoute, FinishedSlots, FinishedUnder
  <1>2. QED
    BY <1>1, LoadsInvariant, PTL
=============================================================================
