----------------------------- MODULE DeviceTree -----------------------------
(***************************************************************************)
(* The buffers the OpenCL kernels of N-body share (nbody_kernels.cl) and   *)
(* what the host keeps between two launches (nbody_cl.c).                  *)
(*                                                                         *)
(* One of the three space dimensions is kept, so a cell has two octants.   *)
(* A mass is the bag of the bodies added up in it: a sum that holds a      *)
(* body twice, or not at all, is then visible.  Work items are numbered as *)
(* on the device, all kernels are launched with the same work size, and a  *)
(* launch ends before the next one starts (the queue is in order).         *)
(***************************************************************************)
EXTENDS Integers, Sequences, FiniteSets

CONSTANTS
  NBody,       \* NBODY: effNBody
  NNode,       \* NNODE: the index of the root cell
  MaxDepth,    \* MAXDEPTH
  Placements,  \* the positions the bodies may have in a step
  Modes,       \* the devices and options: see the fields below
  MaxSteps,    \* bound on the time steps
  NotReady     \* a mass of -1, a NaN quadrupole moment

ASSUME NodeAssumption == NBody \in Nat \ {0} /\ NNode \in Nat /\ NNode > NBody + 1
ASSUME DepthAssumption == MaxDepth \in Nat \ {0} /\ MaxSteps \in Nat \ {0}
ASSUME ModeAssumption ==
  Modes \subseteq [consistent : BOOLEAN,  \* usesConsistentMemory
                   responsive : BOOLEAN,  \* ~ignoreResponsive
                   quad : BOOLEAN,        \* usesQuad
                   checks : BOOLEAN,      \* criterion SW93 or TreeCode
                   lockstep : BOOLEAN,    \* a work group is one wavefront
                   groups : Nat \ {0}, lanes : Nat \ {0}]

NULL_BODY == -1
LOCK      == -2

Body == 0 .. NBody - 1
Node == 0 .. NNode
Sub  == 0 .. 1           \* NSUB octants, in one dimension

isBody(n) == n < NBody
isCell(n) == n >= NBody

ASSUME PlacementAssumption == Placements \subseteq [Body -> Int] /\ Placements # {}
ASSUME ReadyAssumption == NotReady \notin [Body -> Nat]   \* it is no sum of masses

VARIABLES
  mode,      \* what the device and the command line are: one of Modes
  pos,       \* _posX: of the bodies, and the centres of the cells
  child,     \* _child
  mass,      \* _mass
  quad,      \* _quadXX .. _quadZZ
  count,     \* _count
  written,   \* the cells whose other words hold the result of this step, by kernel
  start,     \* _start
  sort,      \* _sort
  acc,       \* _accX: the masses that act on the body
  ts,        \* TreeStatus
  phase,     \* the kernel that is running, or how the run has ended
  pass,      \* launches of it that have ended, in this step
  step,      \* st->step
  hostDepth, \* treeStatus.maxDepth as the host has last read it
  last,      \* lastCounts, with the newest last
  box,       \* box[g]: the block result of group g, or where it is
  bt,        \* bt[w]: registers of work item w in buildTree
  loc,       \* loc[g]: __local variables of group g in buildTree
  sm,        \* sm[w]: registers of item w in summarization, sort, quadMoments
  fw,        \* fw[u]: registers and stack of wavefront u in forceCalculation
  loaded,    \* the bodies inserted in this step (history)
  overflowed \* there was no cell left for a body (history)

buffers == <<pos, child, mass, quad, count, written, start, sort, acc>>
host    == <<phase, pass, step, hostDepth, last>>
work    == <<box, bt, loc, sm, fw>>
past    == <<loaded, overflowed>>
vars    == <<mode, buffers, ts, host, work, past>>

Group == 0 .. mode.groups - 1
Lane  == 0 .. mode.lanes - 1
Item  == Group \X Lane
Inc   == mode.groups * mode.lanes            \* the global size
Gid(w) == w[1] * mode.lanes + w[2]           \* less the global offset

(* Wavefronts: the items that run in lockstep.                              *)
Warp  == IF mode.lockstep THEN mode.lanes ELSE 1
Wave  == 0 .. (Inc \div Warp) - 1

(* The octant of position x around a centre.                                *)
Octant(centre, x) == IF centre <= x THEN 1 ELSE 0

Larger(a, b) == IF a < b THEN b ELSE a

(* Bags of bodies.                                                          *)
NoMass == [b \in Body |-> 0]
Unit(i) == [b \in Body |-> IF b = i THEN 1 ELSE 0]
Plus(x, y) == [b \in Body |-> x[b] + y[b]]
AllOnce(B) == [b \in Body |-> IF b \in B THEN 1 ELSE 0]

(* Whether launch number k of a kernel that is chunked for responsiveness   *)
(* is the last, and the bounds of its chunk of the bodies.                  *)
Chunks == IF mode.responsive THEN (NBody + Inc - 1) \div Inc ELSE 1
Offset(k) == k * Inc
Bound(k) == IF ~mode.responsive \/ (k + 1) * Inc > NBody THEN NBody ELSE (k + 1) * Inc

(* The first cell of an item in the kernels that climb from bottom to the   *)
(* root: the start is aligned to the wavefront.                             *)
FirstCell(w) ==
  LET k == ts.bottom - (ts.bottom % Warp) + Gid(w)
  IN  IF k < ts.bottom THEN k + Inc ELSE k

=============================================================================
