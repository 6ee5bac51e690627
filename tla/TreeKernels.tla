----------------------------- MODULE TreeKernels -----------------------------
(***************************************************************************)
(* The time steps of N-body on an OpenCL device: the tree is built         *)
(* (BuildTree), summed up and sorted (SumTree), walked for the forces      *)
(* (ForceWalk), and the bodies are moved.                                  *)
(***************************************************************************)
EXTENDS BuildTree, SumTree, ForceWalk

(* Registers and local memory before a step's first launch.                 *)
Idle ==
  <<[g \in Group |-> [pc |-> "scan", ext |-> <<0, 0>>]],
    [w \in Item |-> Fresh(0, 1, 0, [n \in Node |-> 0])],
    [g \in Group |-> [success |-> 0, dead |-> 0]],
    [w \in Item |-> FromCell(NNode + 1, Unfinished)],
    [u \in Wave |-> FromSlot(0, 0)]>>

(* nbCreateBuffers has zeroed the buffers, nbSetInitialTreeStatus the       *)
(* status, and nbMarshalBodies has written the bodies.                      *)
Init ==
  /\ mode \in Modes
  /\ \E p \in Placements : pos = [n \in Node |-> IF isBody(n) THEN p[n] ELSE 0]
  /\ child = [n \in Node |-> [j \in Sub |-> 0]]
  /\ mass = [n \in Node |-> IF isBody(n) THEN Unit(n) ELSE NoMass]
  /\ quad = [n \in Node |-> NoMass]
  /\ count = [n \in Node |-> 0] /\ start = [n \in Node |-> 0]
  /\ written = [sum |-> {}, quad |-> {}]
  /\ sort = [s \in Body |-> 0] /\ acc = [b \in Body |-> NoMass]
  /\ ts = [radius |-> 0, bottom |-> 0, maxDepth |-> 1, errorCode |-> "none",
           blkCnt |-> 0, doneCnt |-> 0]
  /\ phase = "box" /\ pass = 0 /\ step = 0 /\ hostDepth = 0 /\ last = <<0, 0, 0>>
  /\ box = Idle[1] /\ bt = Idle[2] /\ loc = Idle[3] /\ sm = Idle[4] /\ fw = Idle[5]
  /\ loaded = {} /\ overflowed = FALSE

(* integration, then the next turn of nbMainLoopCL: the error code of the   *)
(* kernels is looked at before the next step only.                          *)
integration ==
  /\ phase = "integrate"
  /\ step' = step + 1
  /\ \E p \in Placements : pos' = [n \in Node |-> IF isBody(n) THEN p[n] ELSE pos[n]]
  /\ phase' \in IF step' = MaxSteps THEN {"done"}
                ELSE CASE ts.errorCode = "none"   -> {"box"}
                       [] ts.errorCode = "incest" -> {"box", "error"}  \* allowIncest
                       [] OTHER                   -> {"error"}
  /\ UNCHANGED <<mode, child, mass, quad, count, written, start, sort, acc, ts, pass,
                 hostDepth, last, past>>
  /\ box' = Idle[1] /\ bt' = Idle[2] /\ loc' = Idle[3] /\ sm' = Idle[4] /\ fw' = Idle[5]

HostStep == BuildHost \/ SumHost \/ ForceHost \/ integration

(* What work item w does; the first lane stands for its group, and for its  *)
(* wavefront.                                                               *)
ItemStep(w) ==
  \/ BuildItem(w) \/ SumItem(w) \/ SortCell(w)
  \/ w[2] = 0 /\ BuildGroup(w[1])
  \/ Gid(w) % Warp = 0 /\ (Visit(Gid(w) \div Warp) \/ Save(Gid(w) \div Warp))

Next == (\E w \in Item : ItemStep(w)) \/ HostStep

Spec == Init /\ [][Next]_vars

(* The device runs every work item until it leaves its kernel (the sizes    *)
(* are chosen so that all are resident), and the host goes on.              *)
MaxItem == UNION {(0 .. m.groups - 1) \X (0 .. m.lanes - 1) : m \in Modes}
FairSpec ==
  /\ Spec
  /\ \A w \in MaxItem : WF_vars(w \in Item /\ ItemStep(w))
  /\ WF_vars(HostStep)

-----------------------------------------------------------------------------
(* What the tree holds.                                                     *)

(* Where a comparison of positions from the root leads for body b.          *)
Route(b) ==
  LET f[k \in 0 .. NNode] ==
        IF k = 0 THEN NNode
        ELSE LET n == f[k - 1]
             IN  IF isCell(n) THEN child[n][Octant(pos[n], pos[b])] ELSE n
  IN  f

Cells == ts.bottom .. NNode
Slots(n) == {s \in (NBody .. NNode) \X Sub : child[s[1]][s[2]] = n}

(* The bodies under a node.  A cell is allocated after the cell above it,   *)
(* so its index is smaller.                                                 *)
Under[n \in Node] ==
  IF isBody(n) THEN {n}
  ELSE UNION {Under[child[n][j]] : j \in {i \in Sub : child[n][i] >= 0}}

(* No cell was missing and the tree is not deeper than MAXDEPTH: otherwise  *)
(* an error is reported and the tree is not used.                           *)
Sound ==
  /\ ~overflowed /\ ts.maxDepth <= MaxDepth
  /\ phase = "build" => \A w \in Item : Larger(bt[w].depth, bt[w].maxd) <= MaxDepth

-----------------------------------------------------------------------------
(* Properties.                                                              *)

Phases == {"box", "build", "sumclear", "sum", "sort", "quad", "tree", "force", "integrate",
           "done", "error", "stuck"}
Masses == [Body -> Nat] \cup {NotReady}

(* Every word of the device's buffers and of the host's copies has its type.*)
TypeOK ==
  /\ mode \in Modes /\ phase \in Phases
  /\ pos \in [Node -> Int]
  /\ child \in [Node -> [Sub -> Node \cup {NULL_BODY, LOCK}]]
  /\ mass \in [Node -> Masses] /\ quad \in [Node -> Masses]
  /\ count \in [Node -> Int] /\ start \in [Node -> Int] /\ sort \in [Body -> Body]
  /\ ts.bottom \in 0 .. NNode /\ ts.blkCnt \in 0 .. mode.groups - 1
  /\ ts.maxDepth \in 1 .. MaxDepth + 2
  /\ ts.errorCode \in {"none", "overflow", "structure", "depth", "incest"}
  /\ acc \in [Body -> [Body -> Nat]]
  /\ DOMAIN bt = Item /\ DOMAIN sm = Item /\ DOMAIN fw = Wave

(* A body that has been inserted is found again, or the search for it ends  *)
(* at a slot that another work item has locked: no interleaving of the      *)
(* insertions of buildTree loses a body, and the counts the host waits for  *)
(* count every body once.                                                   *)
LoadedStay ==
  phase = "build" /\ Sound =>
    /\ \A b \in loaded : Route(b)[NNode] \in {b, LOCK}
    /\ ~mode.consistent =>
         LET running == {g \in Group : bt[<<g, 0>>].pc \notin {"leave", "exit"}}
         IN  Cardinality(loaded) =
               ts.doneCnt + Cardinality({x \in running \X Body : x[2] < loc[x[1]].success})

(* When the host goes on to summarization every body is in exactly one      *)
(* slot, the one its position leads to; no slot is locked; every cell taken *)
(* from the pool is in exactly one slot and has two bodies or more under it.*)
BuiltTree ==
  phase = "sumclear" /\ Sound =>
    /\ \A b \in Body : Route(b)[NNode] = b /\ Cardinality(Slots(b)) = 1
    /\ Slots(LOCK) = {}
    /\ \A c \in Cells \ {NNode} : Cardinality(Slots(c)) = 1 /\ Cardinality(Under[c]) >= 2

(* A cell that summarization calls ready holds the mass and the number of   *)
(* the bodies under it, each once; after the passes the host launches every *)
(* cell is ready, also without consistent memory; the same for quadMoments. *)
SummedExactly ==
  Sound /\ phase \in {"sum", "sort", "quad", "tree", "force", "integrate"} =>
    \A c \in Cells :
      /\ mass[c] # NotReady => /\ mass[c] = AllOnce(Under[c])
                               /\ count[c] = Cardinality(Under[c])
      /\ phase # "sum" => mass[c] # NotReady
      /\ mode.quad /\ phase \in {"tree", "force", "integrate"} => quad[c] = AllOnce(Under[c])

(* Whatever cells the walk of forceCalculation accepts, every body is acted *)
(* on by the mass of every body exactly once.                               *)
EachMassOnce ==
  Sound /\ phase = "integrate" => \A b \in Body : acc[b] = AllOnce(Body)

(* The walk never needs more of its stack than the MAXDEPTH entries there   *)
(* are for a wavefront.                                                     *)
StackBounded == phase = "force" /\ ~overflowed => \A u \in Wave : Len(fw[u].stack) <= MaxDepth

(* A tree that is too deep, or for which there were not enough cells, is    *)
(* reported in the error code before the step ends.                         *)
FaultReported ==
  phase = "integrate" /\ (overflowed \/ ts.maxDepth > MaxDepth) => ts.errorCode # "none"

(* Why it holds, as an inductive invariant.  The error code is stored after *)
(* the cell was taken, by then other kernels' errors may have replaced it;  *)
(* it is never cleared.                                                     *)
IsRecord(r, fields) == r = [f \in fields |-> r[f]]
StatusFields == {"radius", "bottom", "maxDepth", "errorCode", "blkCnt", "doneCnt"}
Registers == {"pc", "i", "n", "depth", "r", "maxd", "j", "ch", "locked", "cell", "patch"}

ShapeInv ==
  /\ mode \in Modes /\ IsRecord(ts, StatusFields)
  /\ bt = [w \in Item |-> bt[w]] /\ \A w \in Item : IsRecord(bt[w], Registers)

(* An item that found no cell has stored the error, or is about to.         *)
OverflowInv ==
  overflowed => \/ ts.errorCode # "none"
                \/ phase = "build" /\ \E w \in Item : bt[w].pc = "overflow"

(* Only a tree that fits the stack is walked.                               *)
DepthInv ==
  /\ phase = "force" => ~(ts.maxDepth > MaxDepth)
  /\ phase = "integrate" /\ ts.maxDepth > MaxDepth => ts.errorCode # "none"

FaultInv == ShapeInv /\ OverflowInv /\ DepthInv

(* Every step ends, with the bodies moved or an error, unless cells ran     *)
(* out: no work item waits for ever, and the host, which gives up when      *)
(* three counts in a row are the same, never gives up on a tree that could  *)
(* be built.                                                                *)
StepsEnd == <>(phase \in {"done", "error"} \/ overflowed)

=============================================================================
