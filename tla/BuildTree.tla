------------------------------ MODULE BuildTree ------------------------------
(***************************************************************************)
(* The boundingBox, buildTreeClear and buildTree kernels and the part of   *)
(* nbExecuteTreeConstruction that launches them.                           *)
(*                                                                         *)
(* Work items insert bodies into one tree concurrently.  The slot a body   *)
(* belongs in is locked with a compare-and-swap on the child pointer; a    *)
(* slot that holds a body is replaced by a chain of new cells, published   *)
(* only when complete.  A load, a store or an atomic on memory that others *)
(* can see is a step; the cells of a chain are private until published, so *)
(* one cell is filled in one step.                                         *)
(*                                                                         *)
(* The walk's registers are declared inside the loop of the kernel and     *)
(* read again, uninitialised, when an item tries again: they are taken to  *)
(* have kept their values, which is what compilers make of it.             *)
(***************************************************************************)
EXTENDS DeviceTree

----------------------------------------------------------------------------
(* boundingBox.                                                             *)

(* The least and the greatest of a set of positions.                        *)
Extent(X) == <<CHOOSE x \in X : \A y \in X : x <= y, CHOOSE x \in X : \A y \in X : x >= y>>

(* The bodies group g scans; every lane starts from body 0.  The bound of   *)
(* the loop is NBODY - 1, so the last body is not scanned by anyone.        *)
Scanned(g) == {0} \cup {b \in 0 .. NBody - 2 : (b % Inc) \div mode.lanes = g}

(* The reduction of a group and the store of its block result.              *)
BoxReduce(g) ==
  /\ phase = "box" /\ box[g].pc = "scan"
  /\ box' = [box EXCEPT ![g] = [pc |-> "count", ext |-> Extent({pos[b] : b \in Scanned(g)})]]
  /\ UNCHANGED <<mode, buffers, ts, host, bt, loc, sm, fw, past>>

(* The atom_inc of blkCnt; the last group combines the results of all,      *)
(* creates the root and resets the tree status.                             *)
BoxCount(g) ==
  /\ phase = "box" /\ box[g].pc = "count"
  /\ box' = [box EXCEPT ![g].pc = "exit"]
  /\ IF ts.blkCnt = mode.groups - 1
       THEN LET all == Extent(UNION {{box[h].ext[1], box[h].ext[2]} : h \in Group})
            IN  /\ ts' = [ts EXCEPT !.radius = (all[2] - all[1]) \div 2, !.bottom = NNode,
                                    !.blkCnt = 0, !.doneCnt = 0]
                /\ pos' = [pos EXCEPT ![NNode] = (all[1] + all[2]) \div 2]
                /\ written' = [written EXCEPT !.sum = @ \ {NNode}]
                /\ mass' = [mass EXCEPT ![NNode] = NotReady]
                /\ start' = [start EXCEPT ![NNode] = 0]
                /\ child' = [child EXCEPT ![NNode] = [j \in Sub |-> NULL_BODY]]
       ELSE /\ ts' = [ts EXCEPT !.blkCnt = @ + 1]
            /\ UNCHANGED <<pos, mass, start, child, written>>
  /\ UNCHANGED <<mode, quad, count, sort, acc, host, bt, loc, sm, fw, past>>

(* The registers of an item that starts on body i at the root.              *)
Fresh(i, maxd, radius, p) ==
  [pc |-> "start", i |-> i, n |-> NNode, depth |-> 1, r |-> radius, maxd |-> maxd,
   j |-> IF i \in Body THEN Octant(p[NNode], p[i]) ELSE 0,
   ch |-> NULL_BODY, locked |-> <<NNode, 0>>, cell |-> NNode, patch |-> -1]

(* Launch number k of buildTree, up to the second barrier of its prologue.  *)
LaunchBuild(k) ==
  LET first(w) == Gid(w) + (IF mode.consistent THEN Offset(k) ELSE 0)
      maxN == IF mode.consistent THEN Bound(k) ELSE NBody
  IN  /\ bt' = [w \in Item |-> Fresh(first(w), 1, ts.radius, pos)]
      /\ loc' = [g \in Group |-> [success |-> 0,
                   dead |-> Cardinality({w \in Item : w[1] = g /\ first(w) >= maxN})]]

(* buildTreeClear, enqueued behind boundingBox.  No two items write to the  *)
(* same word, so the kernel is one step.                                    *)
buildTreeClear ==
  /\ phase = "box" /\ \A g \in Group : box[g].pc = "exit"
  /\ child' = [n \in Node |-> IF isCell(n) /\ n < NNode THEN [j \in Sub |-> NULL_BODY]
                                                        ELSE child[n]]
  /\ phase' = "build" /\ pass' = 0 /\ last' = <<0, 0, 0>>
  /\ LaunchBuild(0) /\ loaded' = {}
  /\ UNCHANGED <<mode, pos, mass, quad, count, written, start, sort, acc, ts, step,
                 hostDepth, box, sm, fw, overflowed>>

-----------------------------------------------------------------------------
(* buildTree, one work item.                                                *)

At(w, label) == phase = "build" /\ bt[w].pc = label
keep == <<mode, mass, quad, count, start, sort, acc, host, box, sm, fw>>

(* The group reads doneCnt and, with inconsistent memory, has nothing to do *)
(* when every body is loaded.                                               *)
GroupStart(g) ==
  /\ \A l \in Lane : At(<<g, l>>, "start")
  /\ LET leave == ~mode.consistent /\ ts.doneCnt = NBody
     IN  bt' = [w \in Item |-> IF w[1] = g THEN [bt[w] EXCEPT !.pc = IF leave THEN "exit" ELSE "while"]
                                           ELSE bt[w]]
  /\ UNCHANGED <<keep, pos, child, written, ts, loc, past>>

(* The condition of the loop.  With consistent memory it is shared by the   *)
(* group: the lanes of a wavefront evaluate it at the same time, those of   *)
(* different wavefronts whenever they get there.                            *)
WhileDead(w) ==
  /\ At(w, "while") /\ mode.consistent
  /\ LET U == IF mode.lockstep THEN {v \in Item : v[1] = w[1]} ELSE {w}
         go(v) == IF loc[v[1]].dead = mode.lanes THEN "leave"
                  ELSE IF bt[v].i < Bound(pass) THEN "read" ELSE "barrier"
     IN  /\ \A v \in U : At(v, "while")
         /\ bt' = [v \in Item |-> IF v \in U THEN [bt[v] EXCEPT !.pc = go(v)] ELSE bt[v]]
  /\ UNCHANGED <<keep, pos, child, written, ts, loc, past>>

WhileMore(w) ==
  /\ At(w, "while") /\ ~mode.consistent
  /\ bt' = [bt EXCEPT ![w].pc = IF bt[w].i < NBody THEN "read" ELSE "sync"]
  /\ UNCHANGED <<keep, pos, child, written, ts, loc, past>>

(* One load of a child pointer: follow it when it leads to a cell.  Memory  *)
(* is sequentially consistent, so the position of a cell that is linked is  *)
(* written, and posNotReady is never true.                                  *)
Read(w) ==
  /\ At(w, "read")
  /\ LET R == bt[w]
         c == child[R.n][R.j]
     IN  bt' = [bt EXCEPT ![w] =
           IF isCell(c) /\ R.depth <= MaxDepth
             THEN [R EXCEPT !.n = c, !.depth = @ + 1, !.r = @ \div 2,
                            !.j = Octant(pos[c], pos[R.i])]
             ELSE [R EXCEPT !.ch = c, !.pc = IF c # LOCK /\ c # R.i THEN "lock" ELSE "skip"]]
  /\ UNCHANGED <<keep, pos, child, written, ts, loc, past>>

(* Mutant: the slot is locked by a store, whatever it holds by now.         *)
LockWithoutCompare(w) ==
  /\ At(w, "lock")
  /\ child' = [child EXCEPT ![bt[w].n][bt[w].j] = LOCK]
  /\ bt' = [bt EXCEPT ![w].locked = <<bt[w].n, bt[w].j>>, ![w].patch = -1,
                      ![w].pc = IF bt[w].ch = NULL_BODY THEN "insert" ELSE "alloc"]
  /\ UNCHANGED <<keep, pos, written, ts, loc, past>>

(* The atom_cmpxchg that locks the slot.                                    *)
TryLock(w) ==
  /\ At(w, "lock")
  /\ LET R == bt[w]
     IN  IF child[R.n][R.j] = R.ch
           THEN /\ child' = [child EXCEPT ![R.n][R.j] = LOCK]
                /\ bt' = [bt EXCEPT ![w].locked = <<R.n, R.j>>, ![w].patch = -1,
                                    ![w].pc = IF R.ch = NULL_BODY THEN "insert" ELSE "alloc"]
           ELSE /\ bt' = [bt EXCEPT ![w].pc = "skip"]
                /\ UNCHANGED child
  /\ UNCHANGED <<keep, pos, written, ts, loc, past>>

(* The end of the loop's body after a store to the locked slot: the deepest *)
(* level so far, the counters of the group and the next body.               *)
Loaded(w, value) ==
  LET R == bt[w]
      next == R.i + Inc
      dead == IF next >= Bound(pass) THEN 1 ELSE 0
  IN  /\ child' = [child EXCEPT ![R.locked[1]][R.locked[2]] = value]
      /\ bt' = [bt EXCEPT ![w] = [Fresh(next, Larger(R.depth, R.maxd), ts.radius, pos) EXCEPT
                                    !.pc = IF mode.consistent THEN "barrier" ELSE "while"]]
      /\ loc' = IF mode.consistent THEN [loc EXCEPT ![w[1]].dead = @ + dead]
                                   ELSE [loc EXCEPT ![w[1]].success = @ + 1]
      /\ loaded' = loaded \cup {R.i}
      /\ UNCHANGED <<keep, pos, written, ts, overflowed>>

Insert(w) == At(w, "insert") /\ Loaded(w, bt[w].i)

(* Take a cell; the counter is reset when there is none left, and the chain *)
(* goes on with the index that was taken.                                   *)
Alloc(w) ==
  /\ At(w, "alloc")
  /\ bt' = [bt EXCEPT ![w].depth = @ + 1, ![w].cell = ts.bottom - 1,
                      ![w].pc = IF ts.bottom - 1 <= NBody THEN "overflow" ELSE "fill"]
  /\ ts' = [ts EXCEPT !.bottom = @ - 1]
  /\ overflowed' = (overflowed \/ ts.bottom - 1 <= NBody)
  /\ UNCHANGED <<keep, pos, child, written, loc, loaded>>

(* The stores of errorCode and bottom, as one step: an item that allocates  *)
(* between the two overflows too and stores the same.                       *)
Overflow(w) ==
  /\ At(w, "overflow")
  /\ bt' = [bt EXCEPT ![w].pc = "fill"]
  /\ ts' = [ts EXCEPT !.errorCode = "overflow", !.bottom = NNode]
  /\ UNCHANGED <<keep, pos, child, written, loc, past>>

(* Mutant: the last cell of a chain is published instead of the first.      *)
FillPublishesLast(w) ==
  /\ At(w, "fill")
  /\ LET R     == bt[w]
         r     == R.r \div 2
         x     == pos[R.n] + (IF pos[R.i] < pos[R.n] THEN -r ELSE r)
         linked == IF R.patch # -1 THEN [child EXCEPT ![R.n][R.j] = R.cell] ELSE child
         moved == [pos EXCEPT ![R.cell] = x]
         j     == Octant(x, moved[R.i])
     IN  /\ pos' = moved
         /\ written' = [written EXCEPT !.sum = @ \ {R.cell}]
         /\ child' = [linked EXCEPT ![R.cell][Octant(x, moved[R.ch])] = R.ch]
         /\ LET ch == child'[R.cell][j]
            IN  bt' = [bt EXCEPT ![w] = [R EXCEPT
                  !.patch = R.cell, !.r = r, !.n = R.cell, !.j = j, !.ch = ch,
                  !.pc = IF ch >= 0 /\ R.depth <= MaxDepth THEN "alloc" ELSE "link"]]
  /\ UNCHANGED <<keep, ts, loc, past>>

(* Place the cell, append it to the chain, put what was in the slot into    *)
(* it, and go on while both bodies belong in the same octant.               *)
Fill(w) ==
  /\ At(w, "fill")
  /\ LET R     == bt[w]
         patch == Larger(R.patch, R.cell)
         r     == R.r \div 2
         x     == pos[R.n] + (IF pos[R.i] < pos[R.n] THEN -r ELSE r)
         linked == IF patch # R.cell THEN [child EXCEPT ![R.n][R.j] = R.cell] ELSE child
         moved == [pos EXCEPT ![R.cell] = x]
         j     == Octant(x, moved[R.i])
     IN  /\ pos' = moved
         /\ written' = [written EXCEPT !.sum = @ \ {R.cell}]
         /\ child' = [linked EXCEPT ![R.cell][Octant(x, moved[R.ch])] = R.ch]
         /\ LET ch == child'[R.cell][j]
            IN  bt' = [bt EXCEPT ![w] = [R EXCEPT
                  !.patch = patch, !.r = r, !.n = R.cell, !.j = j, !.ch = ch,
                  !.pc = IF ch >= 0 /\ R.depth <= MaxDepth THEN "alloc" ELSE "link"]]
  /\ UNCHANGED <<keep, ts, loc, past>>

Link(w) ==
  /\ At(w, "link")
  /\ child' = [child EXCEPT ![bt[w].n][bt[w].j] = bt[w].i]
  /\ bt' = [bt EXCEPT ![w].pc = "publish"]
  /\ UNCHANGED <<keep, pos, written, ts, loc, past>>

Publish(w) == At(w, "publish") /\ Loaded(w, bt[w].patch)

(* The slot was locked, held this body, or changed under the walk: with     *)
(* consistent memory try again after the barrier, else give the body up.    *)
Skip(w) ==
  /\ At(w, "skip")
  /\ bt' = [bt EXCEPT ![w] = IF mode.consistent THEN [@ EXCEPT !.pc = "barrier"]
                             ELSE [Fresh(@.i + Inc, @.maxd, ts.radius, pos) EXCEPT !.pc = "while"]]
  /\ UNCHANGED <<keep, pos, child, written, ts, loc, past>>

(* The barrier at the end of the loop's body: all items of the group.       *)
Barrier(g) ==
  /\ \A l \in Lane : At(<<g, l>>, "barrier")
  /\ bt' = [w \in Item |-> IF w[1] = g THEN [bt[w] EXCEPT !.pc = "while"] ELSE bt[w]]
  /\ UNCHANGED <<keep, pos, child, written, ts, loc, past>>

Leave(w) ==
  /\ At(w, "leave")
  /\ bt' = [bt EXCEPT ![w].pc = "exit"]
  /\ ts' = [ts EXCEPT !.maxDepth = Larger(@, bt[w].maxd)]
  /\ UNCHANGED <<keep, pos, child, written, loc, past>>

(* Mutant: the successes of the group are not added.                        *)
SyncUncounted(g) ==
  /\ \A l \in Lane : At(<<g, l>>, "sync")
  /\ bt' = [w \in Item |-> IF w[1] = g THEN [bt[w] EXCEPT !.pc = "leave"] ELSE bt[w]]
  /\ UNCHANGED <<keep, pos, child, written, ts, loc, past>>

(* The barrier behind the loop without consistent memory: the first lane    *)
(* adds the group's successes, then everybody leaves.                       *)
Sync(g) ==
  /\ \A l \in Lane : At(<<g, l>>, "sync")
  /\ ts' = [ts EXCEPT !.doneCnt = @ + loc[g].success]
  /\ bt' = [w \in Item |-> IF w[1] = g THEN [bt[w] EXCEPT !.pc = "leave"] ELSE bt[w]]
  /\ UNCHANGED <<keep, pos, child, written, loc, past>>

-----------------------------------------------------------------------------
(* The host after a launch.                                                 *)

BuildEnded == phase = "build" /\ \A w \in Item : bt[w].pc = "exit"

(* With consistent memory one launch loads a whole chunk of the bodies.     *)
NextChunk ==
  /\ BuildEnded /\ mode.consistent
  /\ hostDepth' = ts.maxDepth
  /\ IF pass + 1 < Chunks
       THEN pass' = pass + 1 /\ LaunchBuild(pass + 1) /\ UNCHANGED phase
       ELSE pass' = 0 /\ phase' = "sumclear" /\ UNCHANGED <<bt, loc>>
  /\ UNCHANGED <<mode, buffers, ts, step, last, box, sm, fw, past>>

(* Otherwise the launch is repeated until all bodies have been inserted, or *)
(* the tree is too deep, or three counts in a row were the same.            *)
Repeat ==
  /\ BuildEnded /\ ~mode.consistent
  /\ hostDepth' = ts.maxDepth
  /\ last' = Append(Tail(last), ts.doneCnt)
  /\ IF ts.maxDepth > MaxDepth THEN phase' = "error" /\ UNCHANGED <<bt, loc>>
     ELSE IF last'[1] = last'[2] /\ last'[2] = last'[3]
       THEN phase' = "stuck" /\ UNCHANGED <<bt, loc>>
     ELSE IF ts.doneCnt < NBody
       THEN LaunchBuild(0) /\ UNCHANGED phase
       ELSE phase' = "sumclear" /\ UNCHANGED <<bt, loc>>
  /\ UNCHANGED <<mode, buffers, ts, pass, step, box, sm, fw, past>>

BuildItem(w) ==
  \/ WhileDead(w) \/ WhileMore(w) \/ Read(w) \/ TryLock(w) \/ Insert(w) \/ Alloc(w) \/ Overflow(w)
  \/ Fill(w) \/ Link(w) \/ Publish(w) \/ Skip(w) \/ Leave(w)

BuildGroup(g) == BoxReduce(g) \/ BoxCount(g) \/ GroupStart(g) \/ Barrier(g) \/ Sync(g)

BuildHost == buildTreeClear \/ NextChunk \/ Repeat

============================================================================
