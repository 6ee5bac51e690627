------------------------------ MODULE ForceWalk ------------------------------
(***************************************************************************)
(* The forceCalculation and integration kernels and nbExecuteForceKernels. *)
(*                                                                         *)
(* A wavefront walks the tree once for the bodies of all its lanes, with   *)
(* one stack.  Whether a cell is far enough from all of them is decided by *)
(* the vote of warpAcceptsCell, a comparison of distances, so the walk may *)
(* take a cell as a whole or open it.  The tree is only read here and a    *)
(* body is written by one wavefront, so the loads of one turn of the inner *)
(* loop are one step and the wavefronts take their turns one by one.       *)
(***************************************************************************)
EXTENDS DeviceTree

Push(n) == [node |-> n, pos |-> 0]

(* The wavefront that has come to slot k of the sorted bodies.              *)
FromSlot(k, bound) ==
  [pc |-> IF k < bound THEN "walk" ELSE "exit", k |-> k,
   stack |-> <<Push(NNode)>>, got |-> NoMass, self |-> {}]

LaunchForce(c) == fw' = [u \in Wave |-> FromSlot(u * Warp + Offset(c), Bound(c))]

(* Mutants: the depth of the tree is not tested; it is tested, and the      *)
(* error is not stored.                                                     *)
BeginForceUnchecked ==
  /\ phase = "tree" /\ phase' = "force" /\ pass' = 0 /\ LaunchForce(0)
  /\ UNCHANGED <<mode, buffers, ts, step, hostDepth, last, box, bt, loc, sm, past>>
BeginForceSilent ==
  /\ phase = "tree" /\ pass' = 0
  /\ IF ts.maxDepth > MaxDepth THEN phase' = "integrate" /\ UNCHANGED fw
                               ELSE phase' = "force" /\ LaunchForce(0)
  /\ UNCHANGED <<mode, buffers, ts, step, hostDepth, last, box, bt, loc, sm, past>>

(* The first launch; no item walks a tree that is deeper than the stack.    *)
BeginForce ==
  /\ phase = "tree"
  /\ IF ts.maxDepth > MaxDepth
       THEN ts' = [ts EXCEPT !.errorCode = "depth"] /\ phase' = "integrate" /\ UNCHANGED fw
       ELSE UNCHANGED ts /\ phase' = "force" /\ LaunchForce(0)
  /\ pass' = 0
  /\ UNCHANGED <<mode, buffers, step, hostDepth, last, box, bt, loc, sm, past>>

(* The bodies of the lanes that are not past the bound.                     *)
Lanes(u) == {sort[k] : k \in {x \in fw[u].k .. fw[u].k + Warp - 1 : x < Bound(pass)}}

AtForce(u, label) == /\ phase = "force" /\ fw[u].pc = label
                     /\ \A v \in Wave : v < u => fw[v].pc = "exit"

(* One turn of the inner loop.                                              *)
Visit(u) ==
  /\ AtForce(u, "walk")
  /\ LET R == fw[u]
         d == Len(R.stack)
         top == R.stack[d]
         n == child[top.node][top.pos]
         turned == [R.stack EXCEPT ![d].pos = @ + 1]
     IN  \/ /\ top.pos \notin Sub              \* all children processed
            /\ fw' = [fw EXCEPT ![u].stack = SubSeq(@, 1, d - 1),
                                ![u].pc = IF d = 1 THEN "save" ELSE "walk"]
         \/ /\ top.pos \in Sub /\ n < 0        \* the remaining children are null, too
            /\ fw' = [fw EXCEPT ![u].stack = IF d = 1 THEN turned ELSE SubSeq(turned, 1, d - 1)]
         \/ /\ top.pos \in Sub /\ n >= 0       \* a body, or a cell that is accepted
            /\ fw' = [fw EXCEPT ![u].stack = turned, ![u].got = Plus(@, mass[n]),
                                ![u].self = @ \cup {n}]
         \/ /\ top.pos \in Sub /\ isCell(n)    \* open the cell
            /\ fw' = [fw EXCEPT ![u].stack = Append(turned, Push(n))]
  /\ UNCHANGED <<mode, buffers, ts, host, box, bt, loc, sm, past>>

(* The accelerations are stored; a body that never met itself was inside a  *)
(* cell that was accepted.                                                  *)
Save(u) ==
  /\ AtForce(u, "save")
  /\ acc' = [b \in Body |-> IF b \in Lanes(u) THEN fw[u].got ELSE acc[b]]
  /\ ts' = IF Lanes(u) \subseteq fw[u].self THEN ts ELSE [ts EXCEPT !.errorCode = "incest"]
  /\ fw' = [fw EXCEPT ![u] = FromSlot(@.k + Inc, Bound(pass))]
  /\ UNCHANGED <<mode, pos, child, mass, quad, count, written, start, sort, host,
                 box, bt, loc, sm, past>>

ForceAgain ==
  /\ phase = "force" /\ \A u \in Wave : fw[u].pc = "exit"
  /\ IF pass + 1 < Chunks THEN pass' = pass + 1 /\ LaunchForce(pass + 1) /\ UNCHANGED phase
                          ELSE pass' = 0 /\ phase' = "integrate" /\ UNCHANGED fw
  /\ UNCHANGED <<mode, buffers, ts, step, hostDepth, last, box, bt, loc, sm, past>>

ForceHost == BeginForce \/ ForceAgain

============================================================================
