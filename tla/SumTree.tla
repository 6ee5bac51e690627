------------------------------- MODULE SumTree -------------------------------
(***************************************************************************)
(* The summarizationClear, summarization, sort and quadMoments kernels and *)
(* the part of nbExecuteTreeConstruction that launches them.               *)
(*                                                                         *)
(* summarization and quadMoments climb from the last cell allocated to the *)
(* root.  Each has a word that says a cell is ready (the mass, quadXX) and *)
(* is stored behind the others; an item reads the others only once it has  *)
(* seen that word.  Variable written keeps for which cells the others are  *)
(* those of this step: the position that is the centre of mass, or the     *)
(* other five moments.  A child whose words are not yet written adds       *)
(* nothing to a sum, so a sum that used stale words is a wrong bag.        *)
(***************************************************************************)
EXTENDS DeviceTree

(* Mutant: a launch less than the tree is deep.                             *)
PassesOneLess == IF mode.consistent THEN 1 ELSE hostDepth - 1

Passes == IF mode.consistent THEN 1 ELSE hostDepth

AtSum(w, label) == phase \in {"sum", "quad"} /\ sm[w].pc = label

(* An item that comes to cell k: without consistent memory it skips those   *)
(* an earlier launch has finished.                                          *)
FromCell(k, ready) ==
  [pc |-> IF k > NNode THEN "exit" ELSE IF ready[k] # NotReady THEN "next" ELSE "scan",
   k |-> k, i |-> 0, j |-> 0, cnt |-> 0, missing |-> <<>>, total |-> NoMass]

Unfinished == [n \in Node |-> NotReady]
ReadyWords(kernel) == IF mode.consistent THEN Unfinished
                      ELSE IF kernel = "sum" THEN mass ELSE quad

LaunchSum(kernel) == sm' = [w \in Item |-> FromCell(FirstCell(w), ReadyWords(kernel))]

(* summarizationClear: the cells of this tree, the root excepted.           *)
summarizationClear ==
  /\ phase = "sumclear"
  /\ LET C == ts.bottom .. NNode - 1
     IN  /\ mass' = [n \in Node |-> IF n \in C THEN NotReady ELSE mass[n]]
         /\ start' = [n \in Node |-> IF n \in C THEN NULL_BODY ELSE start[n]]
         /\ IF mode.quad
              THEN /\ quad' = [n \in Node |-> IF n \in C THEN NotReady ELSE quad[n]]
                   /\ written' = [written EXCEPT !.quad = @ \ C]
              ELSE UNCHANGED <<quad, written>>
         /\ sm' = [w \in Item |-> FromCell(FirstCell(w), Unfinished)]
  /\ phase' = "sum"
  /\ UNCHANGED <<mode, pos, child, count, sort, acc, ts, pass, step, hostDepth, last,
                 box, bt, loc, fw, past>>

-----------------------------------------------------------------------------
(* summarization and quadMoments, one work item.                            *)

IsReady(c) == IF phase = "sum" THEN mass[c] # NotReady ELSE isBody(c) \/ quad[c] # NotReady

(* What child c adds, and how many bodies beyond itself.                    *)
Contribution(c) ==
  IF isBody(c) THEN mass[c]
  ELSE IF c \notin written[phase] THEN NoMass
  ELSE IF phase = "sum" THEN mass[c] ELSE quad[c]
Extra(c) == IF phase = "sum" /\ isCell(c) THEN count[c] - 1 ELSE 0

(* Where an item goes when all children have been looked at, or polled.     *)
Polls == mode.consistent \/ mode.groups = 1
AfterScan(missing) == IF missing = <<>> THEN "store" ELSE IF Polls THEN "poll" ELSE "next"

(* Mutant: children stay in their octants.                                  *)
ScanInPlace(w) ==
  /\ AtSum(w, "scan")
  /\ LET R == sm[w]
         c == child[R.k][R.i]
         left == IF c >= 0 /\ ~IsReady(c) THEN Append(R.missing, c) ELSE R.missing
         seen == IF c >= 0 THEN R.j + 1 ELSE R.j
         add  == c >= 0 /\ IsReady(c)
     IN  sm' = [sm EXCEPT ![w] = [R EXCEPT
              !.i = @ + 1, !.j = seen, !.missing = left,
              !.total = IF add THEN Plus(@, Contribution(c)) ELSE @,
              !.cnt = @ + (IF add THEN Extra(c) ELSE 0) + (IF R.i = 1 THEN seen ELSE 0),
              !.pc = IF R.i = 1 THEN AfterScan(left) ELSE "scan"]]
  /\ UNCHANGED <<mode, buffers, ts, host, box, bt, loc, fw, past>>

(* One turn of the loop over the octants of the cell: children are moved to *)
(* the front, those that are ready are added, the others remembered.        *)
Scan(w) ==
  /\ AtSum(w, "scan")
  /\ LET R == sm[w]
         c == child[R.k][R.i]
         left == IF c >= 0 /\ ~IsReady(c) THEN Append(R.missing, c) ELSE R.missing
         seen == IF c >= 0 THEN R.j + 1 ELSE R.j
         add  == c >= 0 /\ IsReady(c)
     IN  /\ child' = IF phase = "sum" /\ c >= 0 /\ R.i # R.j
                     THEN [child EXCEPT ![R.k][R.i] = NULL_BODY, ![R.k][R.j] = c]
                     ELSE child
         /\ sm' = [sm EXCEPT ![w] = [R EXCEPT
              !.i = @ + 1, !.j = seen, !.missing = left,
              !.total = IF add THEN Plus(@, Contribution(c)) ELSE @,
              !.cnt = @ + (IF add THEN Extra(c) ELSE 0) + (IF R.i = 1 THEN seen ELSE 0),
              !.pc = IF R.i = 1 THEN AfterScan(left) ELSE "scan"]]
  /\ UNCHANGED <<mode, pos, mass, quad, count, written, start, sort, acc, ts, host,
                 box, bt, loc, fw, past>>

(* One look at the last missing child.  Without consistent memory the cell  *)
(* is left to the next launch; with it the item looks again.                *)
Poll(w) ==
  /\ AtSum(w, "poll")
  /\ LET R == sm[w]
         c == R.missing[Len(R.missing)]
         left == SubSeq(R.missing, 1, Len(R.missing) - 1)
     IN  \/ /\ IsReady(c)
            /\ sm' = [sm EXCEPT ![w] = [R EXCEPT
                 !.missing = left, !.total = Plus(@, Contribution(c)), !.cnt = @ + Extra(c),
                 !.pc = IF left = <<>> THEN "store" ELSE "poll"]]
         \/ /\ ~IsReady(c) /\ ~mode.consistent
            /\ sm' = [sm EXCEPT ![w].pc = "next"]
  /\ UNCHANGED <<mode, buffers, ts, host, box, bt, loc, fw, past>>

(* The words that others read once the cell is ready.  checkTreeDim may     *)
(* find the centre of mass outside the cell, by rounding or because a body  *)
(* was outside the box.                                                     *)
Store(w) ==
  /\ AtSum(w, "store")
  /\ \/ UNCHANGED ts
     \/ phase = "sum" /\ mode.checks /\ ts' = [ts EXCEPT !.errorCode = "structure"]
  /\ written' = [written EXCEPT ![phase] = @ \cup {sm[w].k}]
  /\ sm' = [sm EXCEPT ![w].pc = "ready"]
  /\ IF phase = "sum"
       THEN /\ count' = [count EXCEPT ![sm[w].k] = sm[w].cnt]
            /\ quad' = IF mode.quad THEN [quad EXCEPT ![sm[w].k] = NotReady] ELSE quad
       ELSE UNCHANGED <<count, quad>>
  /\ UNCHANGED <<mode, pos, child, mass, start, sort, acc, host, box, bt, loc, fw, past>>

(* The word that says so, stored last.                                      *)
SetReady(w) ==
  /\ AtSum(w, "ready")
  /\ IF phase = "sum" THEN mass' = [mass EXCEPT ![sm[w].k] = sm[w].total] /\ UNCHANGED quad
                      ELSE quad' = [quad EXCEPT ![sm[w].k] = sm[w].total] /\ UNCHANGED mass
  /\ sm' = [sm EXCEPT ![w].pc = "next"]
  /\ UNCHANGED <<mode, pos, child, count, written, start, sort, acc, ts, host,
                 box, bt, loc, fw, past>>

NextCell(w) ==
  /\ AtSum(w, "next")
  /\ sm' = [sm EXCEPT ![w] = FromCell(@.k + Inc, ReadyWords(phase))]
  /\ UNCHANGED <<mode, buffers, ts, host, box, bt, loc, fw, past>>

SumItem(w) == Scan(w) \/ Poll(w) \/ Store(w) \/ SetReady(w) \/ NextCell(w)

-----------------------------------------------------------------------------
(* sort, one work item: from the root down, the part of the sorted array    *)
(* that belongs to a cell is divided among its children.                    *)

LaunchSort == sm' = [w \in Item |-> [FromCell(NNode + 1 - Inc + Gid(w), Unfinished) EXCEPT !.pc = "sort"]]

SortCell(w) ==
  /\ phase = "sort" /\ sm[w].pc = "sort" /\ sm[w].k >= ts.bottom
  /\ LET k == sm[w].k
         size(c) == IF c < 0 THEN 0 ELSE IF isCell(c) THEN count[c] ELSE 1
         at(i) == start[k] + (IF i = 0 THEN 0 ELSE size(child[k][0]))
         gives(n) == {i \in Sub : child[k][i] = n}
     IN  IF start[k] >= 0
           THEN /\ start' = [n \in Node |-> IF isCell(n) /\ gives(n) # {}
                                            THEN at(CHOOSE i \in gives(n) : TRUE) ELSE start[n]]
                /\ sort' = [s \in Body |->
                     LET B == {i \in Sub : child[k][i] \in Body /\ at(i) = s}
                     IN  IF B # {} THEN child[k][CHOOSE i \in B : TRUE] ELSE sort[s]]
           ELSE UNCHANGED <<start, sort>>
  /\ sm' = [sm EXCEPT ![w].k = @ - Inc]
  /\ UNCHANGED <<mode, pos, child, mass, quad, count, written, acc, ts, host, box, bt, loc, fw, past>>

-----------------------------------------------------------------------------
(* The host.                                                                *)

SumEnded == \A w \in Item : sm[w].pc = "exit"
SortEnded == \A w \in Item : sm[w].k < ts.bottom

(* The launches of summarization, then of sort.                             *)
SumAgain ==
  /\ phase = "sum" /\ SumEnded
  /\ IF pass + 1 < Passes THEN pass' = pass + 1 /\ LaunchSum("sum") /\ UNCHANGED phase
                          ELSE pass' = 0 /\ phase' = "sort" /\ LaunchSort
  /\ UNCHANGED <<mode, buffers, ts, step, hostDepth, last, box, bt, loc, fw, past>>

(* sort is launched as often as the tree is deep; then quadMoments, which   *)
(* refuses a tree that is too deep.                                         *)
SortAgain ==
  /\ phase = "sort" /\ SortEnded
  /\ IF pass + 1 < hostDepth
       THEN pass' = pass + 1 /\ LaunchSort /\ UNCHANGED <<phase, ts>>
       ELSE /\ pass' = 0
            /\ IF mode.quad /\ ts.maxDepth <= MaxDepth
                 THEN phase' = "quad" /\ LaunchSum("quad") /\ UNCHANGED ts
                 ELSE /\ phase' = "tree" /\ UNCHANGED sm
                      /\ ts' = IF mode.quad THEN [ts EXCEPT !.errorCode = "depth"] ELSE ts
  /\ UNCHANGED <<mode, buffers, step, hostDepth, last, box, bt, loc, fw, past>>

QuadAgain ==
  /\ phase = "quad" /\ SumEnded
  /\ IF pass + 1 < Passes THEN pass' = pass + 1 /\ LaunchSum("quad") /\ UNCHANGED phase
                          ELSE pass' = 0 /\ phase' = "tree" /\ UNCHANGED sm
  /\ UNCHANGED <<mode, buffers, ts, step, hostDepth, last, box, bt, loc, fw, past>>

SumHost == summarizationClear \/ SumAgain \/ SortAgain \/ QuadAgain

============================================================================
