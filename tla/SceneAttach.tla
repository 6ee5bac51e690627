---------------------------- MODULE SceneAttach ----------------------------
(***************************************************************************)
(* How visualizers attach to the shared scene of a running simulation and  *)
(* how the simulation waits for them (nbody_shmem.c, graphics_main.c,      *)
(* nbody_gl.cpp).                                                          *)
(*                                                                         *)
(* The processes share the words attachedLock, attachedPID, paused,        *)
(* blockSimulationOnGraphics, updatePeriod and ownerPID of scene_t, each   *)
(* loaded, stored or compared-and-swapped atomically, and nothing else     *)
(* orders them: every access is a step of its own.  The snapshot queue is  *)
(* the bounded channel that module CircularQueue implements, so only the   *)
(* number of snapshots in it is kept here.                                 *)
(*                                                                         *)
(* A visualizer process runs at most once (a process id is not reused).    *)
(***************************************************************************)
EXTENDS Integers

CONSTANTS
  Vis,          \* the visualizer processes
  NoPid,        \* the process id 0
  SimPid,       \* the process id of the simulation
  Capacity,     \* snapshots the queue can hold: NBODY_CIRC_QUEUE_SIZE - 1
  WaitPeriods,  \* NBODY_QUEUE_WAIT_PERIODS
  NSteps,       \* ctx->nStep
  BlockModes,   \* values of --block-simulation that visualizers are run with
  PeriodModes,  \* whether they are run with an update period
  Launched,     \* the visualizers the simulation may launch (--visualizer), or NoPid
  MaxKills,     \* bound on the processes killed without running exit handlers
  MaxSignals    \* bound on the signals whose handler a visualizer runs

ASSUME PidAssumption == NoPid \notin Vis /\ SimPid \notin Vis /\ NoPid # SimPid
ASSUME CapacityAssumption == Capacity \in Nat \ {0}
ASSUME BoundAssumption == /\ WaitPeriods \in Nat /\ NSteps \in Nat
                          /\ MaxKills \in Nat /\ MaxSignals \in Nat
ASSUME ModeAssumption == /\ BlockModes \in SUBSET BOOLEAN \ {{}}
                         /\ PeriodModes \in SUBSET BOOLEAN \ {{}}
                         /\ Launched \in SUBSET (Vis \cup {NoPid})

VARIABLES
  lock, att, paused, block, period, owner,  \* the words of scene_t
  queued,    \* snapshots in the queue
  spc,       \* where the simulation is
  step,      \* st->step
  pid,       \* its local copy of attachedPID, from there to the test of the process
  attempt,   \* attempts made since the last look at the process
  late,      \* NBODY_QUEUE_TIMEOUT has passed since the update started
  child,     \* the visualizer the simulation launches
  vpc,       \* vpc[v]: where visualizer v is
  old,       \* old[v]: the lock's owner as its compare-and-swap found it
  vpaused,   \* vpaused[v]: NBodyGraphics::paused
  kills,     \* processes killed so far
  signals,   \* signals handled so far
  stolen     \* somebody has set out to release a lock it does not hold (history)

words == <<lock, att, paused, block, period, owner>>
sim   == <<spc, step, pid, attempt, late, child>>
graph == <<vpc, old, vpaused>>
vars  == <<words, queued, sim, graph, kills, signals, stolen>>

Pids == Vis \cup {NoPid}

SimAlive == spc # "gone"
Alive(v) == vpc[v] \notin {"off", "gone"}

(* nbCreateSharedScene has just wiped the header and stored ownerPID.       *)
Init ==
  /\ lock = NoPid /\ att = NoPid /\ paused = FALSE /\ block = FALSE
  /\ period = FALSE /\ owner = SimPid /\ queued = 0
  /\ step = 0 /\ pid = NoPid /\ attempt = 0 /\ late = FALSE
  /\ child \in Launched
  /\ spc = IF child = NoPid THEN "run" ELSE "force"
  /\ vpc = [v \in Vis |-> "off"] /\ old = [v \in Vis |-> NoPid]
  /\ vpaused = [v \in Vis |-> FALSE] /\ kills = 0 /\ signals = 0 /\ stolen = FALSE

-----------------------------------------------------------------------------
(* The simulation.                                                          *)

SimGoto(label) == spc' = label

(* The locals of nbUpdateDisplayedBodies keep one value while they are not in *)
(* use: states that differ only in a value nobody reads again are one state.  *)
Forget == pid' = NoPid /\ attempt' = 0 /\ late' = FALSE

(* nbForceUpdateDisplayedBodies, then the fork of nbLaunchVisualizer.       *)
ForceAndFork ==
  /\ spc = "force" /\ SimGoto("launch")
  /\ vpc' = [vpc EXCEPT ![child] = "cas"]
  /\ queued' = IF queued < Capacity THEN queued + 1 ELSE queued
  /\ UNCHANGED <<words, step, pid, attempt, late, child, old, vpaused, kills, signals, stolen>>

(* Mutant: the child's exit is not looked at. *)
AwaitLaunchAttachOnly ==
  /\ spc = "launch" /\ att # NoPid /\ SimGoto("run")
  /\ UNCHANGED <<words, queued, step, pid, attempt, late, child, graph, kills, signals, stolen>>

(* One turn of its do loop: attachedPID is loaded, the child is reaped.     *)
AwaitLaunch ==
  /\ spc = "launch"
  /\ att # NoPid \/ vpc[child] = "gone"
  /\ SimGoto("run")
  /\ UNCHANGED <<words, queued, step, pid, attempt, late, child, graph, kills, signals, stolen>>

(* One time step of nbRunSystemPlain, up to nbUpdateDisplayedBodies.        *)
Integrate ==
  /\ spc = "run" /\ step < NSteps
  /\ step' = step + 1 /\ SimGoto("update")
  /\ UNCHANGED <<words, queued, pid, attempt, late, child, graph, kills, signals, stolen>>

(* No copying when no screensaver is attached.                              *)
LoadAttached ==
  /\ spc = "update"
  /\ SimGoto(IF att = NoPid THEN "run" ELSE "testBlock")
  /\ UNCHANGED <<words, queued, step, pid, attempt, late, child, graph, kills, signals, stolen>>

(* The choice between blocking, an update period and a plain push.          *)
TestBlock ==
  /\ spc = "testBlock"
  /\ IF block
       THEN /\ SimGoto("push") /\ attempt' = 0 /\ late' = FALSE
            /\ UNCHANGED queued
       ELSE /\ SimGoto("run") /\ UNCHANGED <<attempt, late>>
            /\ \/ queued' = IF queued < Capacity THEN queued + 1 ELSE queued
               \/ period /\ queued' = queued
  /\ UNCHANGED <<words, step, pid, child, graph, kills, signals, stolen>>

BlockingPush ==
  /\ spc = "push"
  /\ IF queued < Capacity
       THEN queued' = queued + 1 /\ SimGoto("run") /\ Forget
       ELSE queued' = queued /\ SimGoto("recheck") /\ UNCHANGED <<pid, attempt, late>>
  /\ UNCHANGED <<words, step, child, graph, kills, signals, stolen>>

(* The rest of the inner loop's condition, and the test of pid after it.    *)
Recheck ==
  /\ spc = "recheck"
  /\ \/ att = NoPid /\ SimGoto("run") /\ Forget
     \/ /\ att # NoPid /\ attempt < WaitPeriods /\ SimGoto("push")
        /\ attempt' = attempt + 1 /\ UNCHANGED <<pid, late>>
     \/ /\ att # NoPid /\ attempt = WaitPeriods /\ SimGoto("testAlive")
        /\ pid' = att /\ UNCHANGED <<attempt, late>>
  /\ UNCHANGED <<words, queued, step, child, graph, kills, signals, stolen>>

(* Mutant: the graphics is assumed to be alive. *)
TestAliveAssumed ==
  /\ spc = "testAlive" /\ SimGoto("testPaused")
  /\ UNCHANGED <<words, queued, step, pid, attempt, late, child, graph, kills, signals, stolen>>

(* mwProcessIsAlive(pid)                                                    *)
TestAlive ==
  /\ spc = "testAlive"
  /\ SimGoto(IF Alive(pid) THEN "testPaused" ELSE "rel1")
  /\ stolen' = (stolen \/ ~Alive(pid))
  /\ IF Alive(pid) THEN UNCHANGED <<pid, attempt, late>> ELSE Forget
  /\ UNCHANGED <<words, queued, step, child, graph, kills, signals>>

(* Mutant: the timeout is never tested. *)
TestPausedNoTimeout ==
  /\ spc = "testPaused" /\ SimGoto("push") /\ attempt' = 0
  /\ UNCHANGED <<words, queued, step, pid, late, child, graph, kills, signals, stolen>>

(* The outer loop's condition: again, or the timeout is reported.           *)
TestPaused ==
  /\ spc = "testPaused"
  /\ IF paused \/ ~late
       THEN SimGoto("push") /\ attempt' = 0 /\ pid' = NoPid /\ UNCHANGED late
       ELSE SimGoto("run") /\ Forget
  /\ UNCHANGED <<words, queued, step, child, graph, kills, signals, stolen>>

(* The clock passes NBODY_QUEUE_TIMEOUT while the simulation waits.         *)
Waiting == spc \in {"push", "recheck", "testAlive", "testPaused"}
Expire ==
  /\ Waiting /\ ~late /\ late' = TRUE
  /\ UNCHANGED <<words, queued, spc, step, pid, attempt, child, graph, kills, signals, stolen>>

(* nbReleaseSceneLocks, four stores.                                        *)
ReleaseByBlockedSim ==
  \/ /\ spc = "rel1" /\ SimGoto("rel2") /\ paused' = FALSE
     /\ UNCHANGED <<lock, att, block, period, owner>>
  \/ /\ spc = "rel2" /\ SimGoto("rel3") /\ block' = FALSE
     /\ UNCHANGED <<lock, att, paused, period, owner>>
  \/ /\ spc = "rel3" /\ SimGoto("rel4") /\ lock' = NoPid
     /\ UNCHANGED <<att, paused, block, period, owner>>
  \/ /\ spc = "rel4" /\ SimGoto("run") /\ att' = NoPid
     /\ UNCHANGED <<lock, paused, block, period, owner>>
SimRelease ==
  /\ ReleaseByBlockedSim
  /\ UNCHANGED <<queued, step, pid, attempt, late, child, graph, kills, signals, stolen>>

(* nbReportSimulationComplete: disown the scene.                            *)
Complete ==
  /\ spc = "run" /\ step = NSteps
  /\ owner' = NoPid /\ SimGoto("done")
  /\ UNCHANGED <<lock, att, paused, block, period, queued, step, pid, attempt,
                 late, child, graph, kills, signals, stolen>>

(* Results are reported, the segment is unlinked and the process ends.      *)
SimExit ==
  /\ spc = "done" /\ SimGoto("gone")
  /\ UNCHANGED <<words, queued, step, pid, attempt, late, child, graph, kills, signals, stolen>>

SimKill ==
  /\ spc \notin {"done", "gone"} /\ kills < MaxKills
  /\ SimGoto("gone") /\ kills' = kills + 1 /\ Forget
  /\ UNCHANGED <<words, queued, step, child, graph, signals, stolen>>

-----------------------------------------------------------------------------
(* A visualizer v.                                                          *)

VisGoto(v, label) == vpc' = [vpc EXCEPT ![v] = label]

(* The same for the locals of a visualizer.                                 *)
ForgetOld(v)    == old' = [old EXCEPT ![v] = NoPid]
ForgetPaused(v) == vpaused' = [vpaused EXCEPT ![v] = FALSE]

Displaying == {"loadOwner", "wait", "waitNoOwner", "loop"}
InScene    == {"setup", "setPeriod", "setPid"} \cup Displaying
Stealing   == {"steal1", "steal2", "steal3", "steal4"}
Exiting    == {"exit1", "exit2", "exit3", "exit4", "unmap"}

(* The exit handlers are installed and g_scene is set; the cleanup has      *)
(* stored 0 in attachedLock.                                                *)
Handling == InScene \cup Exiting
Released == {"exit4", "unmap"}

(* The segment is unlinked at the end of the simulation, after the scene    *)
(* was disowned; one that is killed leaves it behind.                       *)
SceneExists == SimAlive \/ owner # NoPid

(* A user starts a visualizer, which maps the existing segment and checks   *)
(* its size and version.                                                    *)
Connect(v) ==
  /\ vpc[v] = "off" /\ v # child /\ SceneExists
  /\ VisGoto(v, "cas")
  /\ UNCHANGED <<words, queued, sim, old, vpaused, kills, signals, stolen>>

(* Mutant: the lock is stored without comparing. *)
SwapWithoutCompare(v) ==
  /\ vpc[v] = "cas"
  /\ lock' = v /\ VisGoto(v, "clearAtt")
  /\ UNCHANGED <<att, paused, block, period, owner, queued, sim, old, vpaused, kills, signals, stolen>>

(* nbglGetExclusiveSceneAccess: the compare-and-swap.                       *)
CompareAndSwap(v) ==
  /\ vpc[v] = "cas"
  /\ old' = [old EXCEPT ![v] = lock]
  /\ IF lock = NoPid
       THEN lock' = v /\ VisGoto(v, "clearAtt")
       ELSE lock' = lock /\ VisGoto(v, "testOld")
  /\ UNCHANGED <<att, paused, block, period, owner, queued, sim, vpaused, kills, signals, stolen>>

ClearAttached(v) ==
  /\ vpc[v] = "clearAtt"
  /\ att' = NoPid /\ VisGoto(v, "setup")
  /\ UNCHANGED <<lock, paused, block, period, owner, queued, sim, old, vpaused, kills, signals, stolen>>

(* A live owner: give up, before any exit handler is installed.  A dead     *)
(* one: release its locks and go on as if the lock had been taken.          *)
TestOld(v) ==
  /\ vpc[v] = "testOld"
  /\ VisGoto(v, IF Alive(old[v]) THEN "gone" ELSE "steal1")
  /\ stolen' = (stolen \/ ~Alive(old[v])) /\ ForgetOld(v)
  /\ UNCHANGED <<words, queued, sim, vpaused, kills, signals>>

(* nbglReleaseSceneLocks, four stores, when stealing and when exiting.      *)
ReleaseStores(v, l1, l2, l3, l4, after) ==
  \/ /\ vpc[v] = l1 /\ VisGoto(v, l2) /\ paused' = FALSE
     /\ UNCHANGED <<lock, att, block, period, owner>>
  \/ /\ vpc[v] = l2 /\ VisGoto(v, l3) /\ block' = FALSE
     /\ UNCHANGED <<lock, att, paused, period, owner>>
  \/ /\ vpc[v] = l3 /\ VisGoto(v, l4) /\ lock' = NoPid
     /\ UNCHANGED <<att, paused, block, period, owner>>
  \/ /\ vpc[v] = l4 /\ VisGoto(v, after) /\ att' = NoPid
     /\ UNCHANGED <<lock, paused, block, period, owner>>

Steal(v) ==
  /\ ReleaseStores(v, "steal1", "steal2", "steal3", "steal4", "setup")
  /\ UNCHANGED <<queued, sim, old, vpaused, kills, signals, stolen>>

(* The window cannot be opened: nbglRunGraphics fails and the exit handler  *)
(* runs.                                                                    *)
SetupFails(v) ==
  /\ vpc[v] = "setup" /\ VisGoto(v, "exit1")
  /\ UNCHANGED <<words, queued, sim, old, vpaused, kills, signals, stolen>>

(* nbglSetSceneSettings, three stores, attachedPID last.                    *)
SetBlock(v) ==
  /\ vpc[v] = "setup" /\ VisGoto(v, "setPeriod")
  /\ \E b \in BlockModes : block' = b
  /\ UNCHANGED <<lock, att, paused, period, owner, queued, sim, old, vpaused, kills, signals, stolen>>

SetPeriod(v) ==
  /\ vpc[v] = "setPeriod" /\ VisGoto(v, "setPid")
  /\ \E p \in PeriodModes : period' = p
  /\ UNCHANGED <<lock, att, paused, block, owner, queued, sim, old, vpaused, kills, signals, stolen>>

SetPid(v) ==
  /\ vpc[v] = "setPid" /\ VisGoto(v, "loadOwner")
  /\ att' = v
  /\ UNCHANGED <<lock, paused, block, period, owner, queued, sim, old, vpaused, kills, signals, stolen>>

(* waitForSceneData: ownerPID is read once; process 0 is never alive.       *)
LoadOwner(v) ==
  /\ vpc[v] = "loadOwner"
  /\ VisGoto(v, IF owner = NoPid THEN "waitNoOwner" ELSE "wait")
  /\ UNCHANGED <<words, queued, sim, old, vpaused, kills, signals, stolen>>

(* Mutant: the owner is not looked at while waiting. *)
WaitForSceneDataOnly(v) ==
  /\ vpc[v] \in {"wait", "waitNoOwner"}
  /\ queued > 0 /\ queued' = queued - 1 /\ VisGoto(v, "loop")
  /\ UNCHANGED <<words, sim, old, vpaused, kills, signals, stolen>>

WaitForSceneData(v) ==
  /\ vpc[v] \in {"wait", "waitNoOwner"}
  /\ \/ queued > 0 /\ queued' = queued - 1 /\ VisGoto(v, "loop")
     \/ /\ queued = 0 /\ (vpc[v] = "waitNoOwner" \/ ~SimAlive)
        /\ queued' = queued /\ VisGoto(v, "exit1")
  /\ UNCHANGED <<words, sim, old, vpaused, kills, signals, stolen>>

(* Mutant: the end of the simulation is not noticed. *)
PollForever(v) ==
  /\ vpc[v] = "loop" /\ ~vpaused[v]
  /\ queued' = IF queued > 0 THEN queued - 1 ELSE queued
  /\ UNCHANGED <<words, sim, graph, kills, signals, stolen>>

(* One turn of mainLoop while not paused: pop, then quit when the owner     *)
(* has disowned the scene (quitOnSimulationComplete).                       *)
Poll(v) ==
  /\ vpc[v] = "loop" /\ ~vpaused[v]
  /\ queued' = IF queued > 0 THEN queued - 1 ELSE queued
  /\ vpc' = IF owner = NoPid THEN [vpc EXCEPT ![v] = "exit1"] ELSE vpc
  /\ UNCHANGED <<words, sim, old, vpaused, kills, signals, stolen>>

TogglePaused(v) ==
  /\ vpc[v] = "loop"
  /\ vpaused' = [vpaused EXCEPT ![v] = ~@]
  /\ paused' = ~vpaused[v]
  /\ UNCHANGED <<lock, att, block, period, owner, queued, sim, vpc, old, kills, signals, stolen>>

(* The user closes the window.                                              *)
Quit(v) ==
  /\ vpc[v] = "loop" /\ VisGoto(v, "exit1") /\ ForgetPaused(v)
  /\ UNCHANGED <<words, queued, sim, old, kills, signals, stolen>>

(* nbglCleanupAttached, from atexit or from a signal handler: the release,  *)
(* the unmapping, and only then g_scene is cleared.                         *)
Cleanup(v) ==
  /\ \/ ReleaseStores(v, "exit1", "exit2", "exit3", "exit4", "unmap")
     \/ vpc[v] = "unmap" /\ VisGoto(v, "gone") /\ UNCHANGED words
  /\ UNCHANGED <<queued, sim, old, vpaused, kills, signals, stolen>>

(* A signal that the exit handlers are installed for.  Its handler is       *)
(* nbglCleanupAttached, then the process dies of the signal.  A cleanup     *)
(* that was under way is begun again, since g_scene is still set, although  *)
(* attachedLock may be somebody else's by then.                             *)
Signal(v) ==
  /\ vpc[v] \in Handling /\ signals < MaxSignals
  /\ VisGoto(v, "exit1") /\ signals' = signals + 1
  /\ stolen' = (stolen \/ vpc[v] \in Released) /\ ForgetPaused(v)
  /\ UNCHANGED <<words, queued, sim, old, kills>>

(* SIGKILL, or any death before the handlers are installed.                 *)
Kill(v) ==
  /\ Alive(v) /\ kills < MaxKills
  /\ VisGoto(v, "gone") /\ kills' = kills + 1 /\ ForgetPaused(v) /\ ForgetOld(v)
  /\ UNCHANGED <<words, queued, sim, signals, stolen>>

-----------------------------------------------------------------------------
SimStep ==
  \/ ForceAndFork \/ AwaitLaunch \/ Integrate \/ LoadAttached \/ TestBlock
  \/ BlockingPush \/ Recheck \/ TestAlive \/ TestPaused \/ SimRelease
  \/ Complete \/ SimExit

VisStep(v) ==
  \/ CompareAndSwap(v) \/ ClearAttached(v) \/ TestOld(v) \/ Steal(v)
  \/ SetBlock(v) \/ SetPeriod(v) \/ SetPid(v) \/ LoadOwner(v)
  \/ WaitForSceneData(v) \/ Poll(v) \/ Cleanup(v)

User(v) == Connect(v) \/ SetupFails(v) \/ TogglePaused(v) \/ Quit(v) \/ Signal(v)

Next ==
  \/ SimStep \/ Expire \/ SimKill
  \/ \E v \in Vis : VisStep(v) \/ User(v) \/ Kill(v)

Spec == Init /\ [][Next]_vars

(* The simulation keeps running and the clock advances; a visualizer may    *)
(* hang or be stopped at any point.                                         *)
SimFairSpec == Spec /\ WF_vars(SimStep) /\ WF_vars(Expire)

(* The visualizers that are not killed keep running too; users and kills    *)
(* owe nobody anything.                                                     *)
GraphicsRun == \A v \in Vis : WF_vars(VisStep(v))

-----------------------------------------------------------------------------
SimLabels == {"force", "launch", "run", "update", "testBlock", "push", "recheck",
              "testAlive", "testPaused", "rel1", "rel2", "rel3", "rel4", "done", "gone"}

TypeOK ==
  /\ lock \in Pids /\ att \in Pids /\ owner \in {SimPid, NoPid}
  /\ paused \in BOOLEAN /\ block \in BOOLEAN /\ period \in BOOLEAN
  /\ queued \in 0 .. Capacity
  /\ spc \in SimLabels /\ step \in 0 .. NSteps /\ pid \in Pids
  /\ attempt \in 0 .. WaitPeriods /\ late \in BOOLEAN /\ child \in Pids
  /\ vpc \in [Vis -> {"off", "cas", "clearAtt", "testOld", "gone"}
                     \cup InScene \cup Stealing \cup Exiting]
  /\ old \in [Vis -> Pids] /\ vpaused \in [Vis -> BOOLEAN]
  /\ kills \in 0 .. MaxKills /\ signals \in 0 .. MaxSignals /\ stolen \in BOOLEAN

(* "We require exclusive access. One visualizer per running simulation":    *)
(* no two visualizers that nbglGetExclusiveSceneAccess let through are      *)
(* between there and their exit at the same time.                           *)
ExclusiveAccess ==
  \A v, w \in Vis : vpc[v] \in InScene /\ vpc[w] \in InScene => v = w

(* The compare-and-swap on attachedLock does give exclusive access, with    *)
(* visualizers killed, signalled, failing or leaving at any point, for as   *)
(* long as nobody has set out to release a lock that is not its own.  There *)
(* are three ways to that: the steal of a dead owner's lock in              *)
(* nbglGetExclusiveSceneAccess, the simulation's nbReleaseSceneLocks, and   *)
(* nbglCleanupAttached begun again by a signal after its release.           *)
CasExclusive == ~stolen => ExclusiveAccess

(* The inductive form: until then, whoever is past the swap and has not     *)
(* stored 0 again is the process attachedLock names.                        *)
Holding == {"clearAtt", "exit1", "exit2", "exit3"} \cup InScene
LockInv == ~stolen => /\ \A v \in Vis : vpc[v] \in Holding => lock = v
                      /\ \A v \in Vis : vpc[v] \notin Stealing
                      /\ spc \notin {"rel1", "rel2", "rel3", "rel4"}

(* "Wait until the visualizer has exited or successfully attached": the     *)
(* wait of nbLaunchVisualizer ends, whether the child attaches, fails or is *)
(* killed, if nobody starts another visualizer meanwhile.  (One that leaves *)
(* can wipe the child's attachedPID, and nothing ends the wait.)            *)
LaunchReturns ==
  GraphicsRun =>
    (spc = "launch" ~> (spc # "launch" \/ \E v \in Vis \ {child} : vpc[v] # "off"))

(* A simulation that blocks on the graphics gets out of the wait, by a      *)
(* push, by finding the graphics dead or by the timeout, unless it finds    *)
(* the display paused: a visualizer that hangs does not hold it up.         *)
BlockedOnlyByPause == Waiting ~> (~Waiting \/ paused)

(* Dead visualizers block nobody, not even one that died while paused and   *)
(* left the paused word set.                                                *)
DeadNeverBlock ==
  (Waiting /\ \A v \in Vis : ~Alive(v)) ~> (~Waiting \/ \E v \in Vis : Alive(v))

(* A visualizer never waits for its first snapshot for ever: it gets one,   *)
(* or the simulation ends and it leaves, unless another visualizer has      *)
(* paused the display and so the simulation, or the simulation itself is    *)
(* waiting in nbLaunchVisualizer.                                           *)
WaitEnds ==
  GraphicsRun =>
    \A v \in Vis : (vpc[v] \in {"wait", "waitNoOwner"})
                     ~> \/ vpc[v] \notin {"wait", "waitNoOwner"}
                        \/ paused \/ spc = "launch"

(* Once the simulation has disowned the scene every visualizer that is not  *)
(* paused leaves.                                                           *)
GraphicsQuit ==
  GraphicsRun =>
    \A v \in Vis : (owner = NoPid /\ vpc[v] = "loop") ~> (vpc[v] # "loop" \/ vpaused[v])

=============================================================================
