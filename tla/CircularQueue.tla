--------------------------- MODULE CircularQueue ---------------------------
(***************************************************************************)
(* The snapshot queue a simulation shares with its visualizer              *)
(* (NBodyCircularQueue, nbody_graphics.h).                                 *)
(*                                                                         *)
(* The simulation pushes (nbPushCircularQueue, nbody_shmem.c), the         *)
(* visualizer pops (nbPopCircularQueue, nbody_gl.cpp).  They are separate  *)
(* processes over one mapped segment, with no lock around a slot: all      *)
(* they have is the two words head and tail, loaded and stored atomically. *)
(* Every load, every store and every piece of a slot is a step of its own. *)
(* A visualizer may be killed at any point of a pop; the next one starts   *)
(* from the words it left behind.  One consumer at a time is what the      *)
(* attachment protocol (module SceneAttach) is there to guarantee.         *)
(*                                                                         *)
(* A snapshot is told apart by how often its bodies had been moved, not by *)
(* its step alone: on the device the bodies of a step are moved and pushed *)
(* before the step is counted, so the first step of a run is pushed twice, *)
(* by nbMain for a launched visualizer and by nbStepSystemCL.              *)
(***************************************************************************)
EXTENDS Integers, Sequences

CONSTANTS
  QueueSize,  \* NBODY_CIRC_QUEUE_SIZE
  NSteps,     \* ctx->nStep: the step at which the simulation is complete
  Bodies,     \* the bodies of the simulation; each is copied on its own
  MaxKills    \* bound on the visualizers killed in the middle of a pop

ASSUME QueueSizeAssumption == QueueSize \in Nat /\ QueueSize >= 2
ASSUME NStepsAssumption == NSteps \in Nat
ASSUME MaxKillsAssumption == MaxKills \in Nat

VARIABLES
  head, tail,  \* the two shared words
  info,        \* info[i]: the SceneInfo of slot i: currentStep, and the moves
               \*   of the bodies its rootCenterOfMass was taken from
  pos,         \* pos[i][b]: how often body b, as it is in slot i, had moved
  trace,       \* points 0 .. trace - 1 of the shared orbit trace are filled in
  usesCL,      \* st->usesCL
  step,        \* st->step
  moves,       \* how often st->bodytab has been moved, counted with the step
               \*   that the run starts from
  ppc,         \* where the producer is
  pTail,       \* its local tail
  todo,        \* bodies of the slot it has still to write
  cpc,         \* where the consumer is
  cHead,       \* its local head
  view,        \* what the consumer copied out: sceneData and positionBuffer
  unread,      \* bodies it has still to copy
  shown,       \* step and moves of the last completed pop (history)
  kills        \* visualizers killed so far

caller   == <<usesCL, step, moves>>
producer == <<caller, ppc, pTail, todo>>
consumer == <<cpc, cHead, view, unread, shown, kills>>
slots    == <<info, pos, trace>>
vars     == <<head, tail, slots, producer, consumer>>

Slots == 0 .. QueueSize - 1
Steps == 0 .. NSteps
Moves == Nat
None  == -1           \* no step, no body

Snapshot == [step : Steps, moves : Moves]
NoSnapshot == [step |-> None, moves |-> None]

(* What a push taken now has to say.                                       *)
Current == [step |-> step, moves |-> moves]

(* (i + 1) % NBODY_CIRC_QUEUE_SIZE *)
NextSlot(i) == (i + 1) % QueueSize

Writing == {"info", "bodies", "trace", "storeTail"}
Reading == {"bodies", "trace", "storeHead"}

(***************************************************************************)
(* nbCreateSharedScene wipes the header, the queue's words and infos       *)
(* included; the slots hold no positions yet.  A resumed run starts at the *)
(* step of its checkpoint.                                                 *)
(***************************************************************************)
Init ==
  /\ head = 0 /\ tail = 0
  /\ info = [i \in Slots |-> [step |-> 0, moves |-> 0]]
  /\ pos = [i \in Slots |-> [b \in Bodies |-> None]]
  /\ trace = 0
  /\ usesCL \in BOOLEAN /\ step \in Steps /\ moves = step
  /\ ppc = "update" /\ pTail = 0 /\ todo = {}
  /\ cpc = "idle" /\ cHead = 0 /\ unread = {}
  /\ view = [step |-> 0, moves |-> 0, pos |-> [b \in Bodies |-> None], trace |-> 0]
  /\ shown = NoSnapshot /\ kills = 0

-----------------------------------------------------------------------------
(* The simulation.  It starts at the push nbMain forces for a visualizer it *)
(* is going to launch.  Once in nbUpdateDisplayedBodies it may push, after  *)
(* a push that found the queue full try again (it blocks on the graphics),  *)
(* and leave without a push at any time (nothing is attached, the update    *)
(* period has not passed, the wait timed out).                              *)
BetweenPushes == ppc \in {"idle", "update"}

(* nbStepSystemPlain moves the bodies and counts the step, then the bodies  *)
(* are displayed.                                                           *)
StepPlain ==
  /\ ~usesCL /\ BetweenPushes /\ step < NSteps
  /\ step' = step + 1 /\ moves' = moves + 1 /\ ppc' = "update"
  /\ UNCHANGED <<head, tail, slots, usesCL, pTail, todo, consumer>>

(* nbStepSystemCL moves the bodies and displays them under the old step ... *)
StepKernels ==
  /\ usesCL /\ BetweenPushes /\ step < NSteps /\ moves = step
  /\ moves' = moves + 1 /\ ppc' = "update"
  /\ UNCHANGED <<head, tail, slots, usesCL, step, pTail, todo, consumer>>

(* ... and nbRunSystemCL counts the step when it has returned.              *)
CountStep ==
  /\ usesCL /\ BetweenPushes /\ step < NSteps /\ moves = step + 1
  /\ step' = step + 1 /\ ppc' = "idle"
  /\ UNCHANGED <<head, tail, slots, usesCL, moves, pTail, todo, consumer>>

PushLoadTail ==
  /\ ppc = "update"
  /\ pTail' = tail /\ ppc' = "loadHead"
  /\ UNCHANGED <<head, tail, slots, caller, todo, consumer>>

(* Mutant: the slot is written without the test for a full queue. *)
PushLoadHeadUnchecked ==
  /\ ppc = "loadHead" /\ ppc' = "info"
  /\ UNCHANGED <<head, tail, slots, caller, pTail, todo, consumer>>

(* The load of head and the test: full, fail; otherwise start writing.      *)
PushLoadHead ==
  /\ ppc = "loadHead"
  /\ ppc' = IF NextSlot(pTail) # head THEN "info" ELSE "update"
  /\ UNCHANGED <<head, tail, slots, caller, pTail, todo, consumer>>

WriteInfo ==
  /\ ppc = "info"
  /\ info' = [info EXCEPT ![pTail] = Current]
  /\ todo' = Bodies /\ ppc' = "bodies"
  /\ UNCHANGED <<head, tail, pos, trace, caller, pTail, consumer>>

(* The OpenMP loop of nbWriteSnapshot: bodies in any order.                 *)
WriteBody(b) ==
  /\ ppc = "bodies" /\ b \in todo
  /\ pos' = [pos EXCEPT ![pTail][b] = moves]
  /\ todo' = todo \ {b}
  /\ UNCHANGED <<head, tail, info, trace, caller, ppc, pTail, consumer>>

EndBodies ==
  /\ ppc = "bodies" /\ todo = {}
  /\ ppc' = "trace"
  /\ UNCHANGED <<head, tail, slots, caller, pTail, todo, consumer>>

(* nbUpdateDisplayedOrbitTrace copies points 0 .. step - 1 again; a point   *)
(* never changes, so only the new ones make a difference to a reader.       *)
WriteTrace ==
  /\ ppc = "trace"
  /\ trace' = step /\ ppc' = "storeTail"
  /\ UNCHANGED <<head, tail, info, pos, caller, pTail, todo, consumer>>

StoreTail ==
  /\ ppc = "storeTail"
  /\ tail' = NextSlot(pTail) /\ ppc' = "idle"
  /\ UNCHANGED <<head, slots, caller, pTail, todo, consumer>>

-----------------------------------------------------------------------------
(* The visualizer.                                                          *)

PopLoadHead ==
  /\ cpc = "idle"
  /\ cHead' = head /\ cpc' = "loadTail"
  /\ UNCHANGED <<head, tail, slots, producer, view, unread, shown, kills>>

(* Mutant: the slot is read without the test for an empty queue. *)
PopLoadTailUnchecked ==
  /\ cpc = "loadTail" /\ cpc' = "bodies" /\ unread' = Bodies
  /\ UNCHANGED <<head, tail, slots, producer, cHead, view, shown, kills>>

(* Mutant: the last snapshot in the queue is taken for none. *)
PopLoadTailOffByOne ==
  /\ cpc = "loadTail"
  /\ IF NextSlot(cHead) = tail \/ cHead = tail
       THEN cpc' = "idle" /\ unread' = unread
       ELSE cpc' = "bodies" /\ unread' = Bodies
  /\ UNCHANGED <<head, tail, slots, producer, cHead, view, shown, kills>>

PopLoadTail ==
  /\ cpc = "loadTail"
  /\ IF cHead = tail
       THEN cpc' = "idle" /\ unread' = unread
       ELSE cpc' = "bodies" /\ unread' = Bodies
  /\ UNCHANGED <<head, tail, slots, producer, cHead, view, shown, kills>>

(* glBufferSubData on the mapped slot.                                      *)
ReadBody(b) ==
  /\ cpc = "bodies" /\ b \in unread
  /\ view' = [view EXCEPT !.pos[b] = pos[cHead][b]]
  /\ unread' = unread \ {b}
  /\ UNCHANGED <<head, tail, slots, producer, cpc, cHead, shown, kills>>

ReadInfo ==
  /\ cpc = "bodies" /\ unread = {}
  /\ view' = [view EXCEPT !.step = info[cHead].step, !.moves = info[cHead].moves]
  /\ cpc' = "trace"
  /\ UNCHANGED <<head, tail, slots, producer, cHead, unread, shown, kills>>

(* OrbitTrace::updatePoints reads currentStep points of the shared trace;   *)
(* those beyond what the simulation filled in are not real ones.            *)
ReadTrace ==
  /\ cpc = "trace"
  /\ view' = [view EXCEPT !.trace = IF trace < view.step THEN trace ELSE view.step]
  /\ cpc' = "storeHead"
  /\ UNCHANGED <<head, tail, slots, producer, cHead, unread, shown, kills>>

(* What the copy says it is a snapshot of.                                  *)
Displayed == [step |-> view.step, moves |-> view.moves]

(* Mutant: the pop jumps to the newest snapshot instead of the next one. *)
StoreHeadSkips ==
  /\ cpc = "storeHead"
  /\ head' = tail /\ shown' = Displayed /\ cpc' = "idle"
  /\ UNCHANGED <<tail, slots, producer, cHead, view, unread, kills>>

StoreHead ==
  /\ cpc = "storeHead"
  /\ head' = NextSlot(cHead) /\ shown' = Displayed /\ cpc' = "idle"
  /\ UNCHANGED <<tail, slots, producer, cHead, view, unread, kills>>

(* The visualizer is killed; another one attaches to what is there.         *)
Kill ==
  /\ cpc # "idle" /\ kills < MaxKills
  /\ cpc' = "idle" /\ kills' = kills + 1
  /\ UNCHANGED <<head, tail, slots, producer, cHead, view, unread, shown>>

-----------------------------------------------------------------------------
Push == \/ PushLoadTail \/ PushLoadHead \/ WriteInfo
        \/ (\E b \in Bodies : WriteBody(b))
        \/ EndBodies \/ WriteTrace \/ StoreTail

Pop == \/ PopLoadHead \/ PopLoadTail
       \/ (\E b \in Bodies : ReadBody(b))
       \/ ReadInfo \/ ReadTrace \/ StoreHead

Next == StepPlain \/ StepKernels \/ CountStep \/ Push \/ Pop \/ Kill

Spec == Init /\ [][Next]_vars

(* Both processes keep running: the simulation finishes a push it started   *)
(* and the visualizer polls (mainLoop, not paused).  Kills are not fair.    *)
FairSpec == Spec /\ WF_vars(Push /\ ~BetweenPushes) /\ WF_vars(Pop)

-----------------------------------------------------------------------------
TypeOK ==
  /\ head \in Slots /\ tail \in Slots
  /\ info \in [Slots -> Snapshot]
  /\ pos \in [Slots -> [Bodies -> Moves \cup {None}]]
  /\ trace \in Steps
  /\ usesCL \in BOOLEAN /\ step \in Steps /\ moves \in Moves
  /\ ppc \in {"idle", "update", "loadHead"} \cup Writing
  /\ pTail \in Slots /\ todo \in SUBSET Bodies
  /\ cpc \in {"idle", "loadTail"} \cup Reading
  /\ cHead \in Slots /\ unread \in SUBSET Bodies
  /\ view \in [step : Steps, moves : Moves,
               pos : [Bodies -> Moves \cup {None}], trace : Steps]
  /\ shown \in Snapshot \cup {NoSnapshot} /\ kills \in 0 .. MaxKills

-----------------------------------------------------------------------------
(* The inductive invariant.                                                 *)

(* Slot i is one of those from h up to, and not including, t.               *)
Between(h, t, i) ==
  IF h <= t THEN h <= i /\ i < t ELSE h <= i \/ i < t

InQueue(i) == Between(head, tail, i)

(* Going round the ring from h, slot i comes before slot j.                 *)
Before(h, i, j) ==
  IF (h <= i) <=> (h <= j) THEN i < j ELSE h <= i

(* Snapshot y was taken after x: of bodies that have moved since, at the    *)
(* same step or a later one.                                                *)
Newer(x, y) == x.moves < y.moves /\ x.step <= y.step

WholeSlot(i) == \A b \in Bodies : pos[i][b] = info[i].moves

(* Queued snapshots are whole, have their orbit trace, and are newer than   *)
(* what was displayed and not newer than the simulation.                    *)
QueuedInv ==
  \A i \in Slots : InQueue(i) =>
    /\ WholeSlot(i)
    /\ info[i].step <= trace
    /\ Newer(shown, info[i])
    /\ info[i].step <= step /\ info[i].moves <= moves
    /\ ppc # "idle" => info[i].moves < moves

OrderInv ==
  \A i, j \in Slots :
    InQueue(i) /\ InQueue(j) /\ Before(head, i, j) => Newer(info[i], info[j])

(* Whoever is about to push has moved the bodies since the last push.       *)
ProgressInv ==
  /\ trace <= step /\ step <= moves
  /\ shown.step <= step /\ shown.moves <= moves
  /\ ppc # "idle" => shown.moves < moves

ProducerInv ==
  /\ ~BetweenPushes => pTail = tail
  /\ ppc \in Writing => NextSlot(tail) # head
  /\ ppc \in Writing \ {"info"} => info[tail] = Current
  /\ ppc = "bodies" => \A b \in Bodies \ todo : pos[tail][b] = moves
  /\ ppc \in {"trace", "storeTail"} => WholeSlot(tail)
  /\ ppc = "storeTail" => trace = step

ConsumerInv ==
  /\ cpc # "idle" => cHead = head
  /\ cpc \in Reading => head # tail
  /\ cpc = "bodies" => \A b \in Bodies \ unread : view.pos[b] = info[head].moves
  /\ cpc \in {"trace", "storeHead"} =>
       Displayed = info[head] /\ \A b \in Bodies : view.pos[b] = view.moves
  /\ cpc = "storeHead" => view.trace = view.step

IInv ==
  TypeOK /\ QueuedInv /\ OrderInv /\ ProgressInv /\ ProducerInv /\ ConsumerInv

-----------------------------------------------------------------------------
(* What the visualizer shows is one snapshot: when a pop completes, every   *)
(* body position that it copied out of the unlocked slot is of the same     *)
(* moment as the SceneInfo, and the orbit trace is filled in up to the step *)
(* the SceneInfo names, whatever the simulation wrote meanwhile, wherever   *)
(* an earlier visualizer was killed, and although two snapshots of one step *)
(* may go through the queue on the device.                                  *)
NoTornSnapshot ==
  cpc = "storeHead" =>
    /\ \A b \in Bodies : view.pos[b] = view.moves
    /\ view.trace = view.step

(* The simulation never writes into the slot the visualizer is copying.     *)
SlotExclusion ==
  ~(ppc \in Writing /\ cpc \in Reading /\ pTail = cHead)

(* A visualizer, or its successor after a kill, never goes back in time and *)
(* never shows the same bodies twice.  It may well show a step twice: on    *)
(* the device, as the run started and as its first step left it.            *)
ShownInOrder == [][Newer(shown, shown')]_shown

(* A snapshot that was published is displayed, itself or a later one, once  *)
(* visualizers stop being killed.                                           *)
PublishedIsShown ==
  \A m \in 0 .. NSteps :
    (\E i \in Slots : InQueue(i) /\ info[i].moves = m) ~> (shown.moves >= m)

-----------------------------------------------------------------------------
(* The abstract queue that this one implements.                             *)

(* The snapshots between head and tail, oldest first.                       *)
Queued == [k \in 1 .. (tail + QueueSize - head) % QueueSize
             |-> info[(head + k - 1) % QueueSize]]

Abstract == INSTANCE BoundedFIFO
  WITH Capacity <- QueueSize - 1, q <- Queued, now <- Current, last <- shown

(* The queue of loads, stores and partial copies implements the bounded     *)
(* FIFO: a push takes effect at the store of tail, a pop at the store of    *)
(* head, and nothing is lost, duplicated or reordered in between.           *)
ImplementsFIFO == Abstract!Spec

=============================================================================
