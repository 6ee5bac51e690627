------------------------- MODULE SceneAttach_proofs -------------------------
(***************************************************************************)
(* Exclusive access to the shared scene, for any set of visualizers and    *)
(* any number of kills.                                                    *)
(***************************************************************************)
EXTENDS SceneAttach, TLAPS

Labels == {"off", "cas", "clearAtt", "testOld", "gone"}
            \cup InScene \cup Stealing \cup Exiting

LEMMA InitType == Init => TypeOK
<1> SUFFICES ASSUME Init PROVE TypeOK
  OBVIOUS
<1>1. NoPid \in Pids /\ (\A v \in Vis : v \in Pids)
  BY DEF Pids
<1>2. spc \in SimLabels
  BY DEF Init, SimLabels
<1>3. 0 \in 0 .. Capacity /\ 0 \in 0 .. NSteps /\ 0 \in 0 .. WaitPeriods
      /\ 0 \in 0 .. MaxKills /\ 0 \in 0 .. MaxSignals
  BY CapacityAssumption, BoundAssumption
<1>4. child \in Pids
  BY <1>1, ModeAssumption DEF Init
<1>5. vpc \in [Vis -> Labels] /\ old \in [Vis -> Pids]
  BY <1>1 DEF Init, Labels
<1>6. /\ paused \in BOOLEAN /\ block \in BOOLEAN /\ period \in BOOLEAN /\ late \in BOOLEAN
      /\ stolen \in BOOLEAN
  BY Zenon DEF Init
<1>7. vpaused \in [Vis -> BOOLEAN]
  BY DEF Init
<1> QED
  BY <1>1, <1>2, <1>3, <1>4, <1>5, <1>6, <1>7 DEF Init, TypeOK, Labels

LEMMA SimType == TypeOK /\ SimStep => TypeOK'
<1> SUFFICES ASSUME TypeOK, SimStep PROVE TypeOK'
  OBVIOUS
<1> USE CapacityAssumption, BoundAssumption DEF Forget
<1>1. CASE ForceAndFork
  <2>1. vpc' \in [Vis -> Labels]
    BY <1>1 DEF ForceAndFork, TypeOK, Labels
  <2> QED
    BY <1>1, <2>1 DEF ForceAndFork, TypeOK, SimGoto, SimLabels, words, Labels
<1>2. CASE AwaitLaunch
  BY <1>2 DEF AwaitLaunch, TypeOK, SimGoto, SimLabels, words, graph
<1>3. CASE Integrate
  BY <1>3 DEF Integrate, TypeOK, SimGoto, SimLabels, words, graph
<1>4. CASE LoadAttached
  BY <1>4 DEF LoadAttached, TypeOK, SimGoto, SimLabels, words, graph
<1>5. CASE TestBlock
  <2>1. late' \in BOOLEAN
    BY <1>5, Zenon DEF TestBlock, TypeOK
  <2> QED
    BY <1>5, <2>1 DEF TestBlock, TypeOK, SimGoto, SimLabels, words, graph
<1>6. CASE BlockingPush
  <2>1. late' \in BOOLEAN
    BY <1>6, Zenon DEF BlockingPush, TypeOK
  <2> QED
    BY <1>6, <2>1 DEF BlockingPush, TypeOK, Pids, SimGoto, SimLabels, words, graph
<1>7. CASE Recheck
  <2>1. late' \in BOOLEAN
    BY <1>7, Zenon DEF Recheck, TypeOK
  <2> QED
    BY <1>7, <2>1 DEF Recheck, TypeOK, Pids, SimGoto, SimLabels, words, graph
<1>8. CASE TestAlive
  <2>1. stolen' \in BOOLEAN /\ late' \in BOOLEAN
    BY <1>8, Zenon DEF TestAlive, TypeOK
  <2> QED
    BY <1>8, <2>1 DEF TestAlive, TypeOK, Pids, SimGoto, SimLabels, words, graph
<1>9. CASE TestPaused
  <2>1. late' \in BOOLEAN
    BY <1>9, Zenon DEF TestPaused, TypeOK
  <2> QED
    BY <1>9, <2>1 DEF TestPaused, TypeOK, Pids, SimGoto, SimLabels, words, graph
<1>10. CASE SimRelease
  <2>1. paused' \in BOOLEAN /\ block' \in BOOLEAN
    BY <1>10, Zenon DEF SimRelease, ReleaseByBlockedSim, TypeOK
  <2> QED
    BY <1>10, <2>1 DEF SimRelease, ReleaseByBlockedSim, TypeOK, SimGoto, SimLabels, Pids, graph
<1>11. CASE Complete
  BY <1>11 DEF Complete, TypeOK, SimGoto, SimLabels, words, graph
<1>12. CASE SimExit
  BY <1>12 DEF SimExit, TypeOK, SimGoto, SimLabels, words, graph
<1> QED
  BY <1>1, <1>2, <1>3, <1>4, <1>5, <1>6, <1>7, <1>8, <1>9, <1>10, <1>11, <1>12 DEF SimStep

LEMMA VisType == ASSUME NEW v \in Vis, TypeOK, VisStep(v) PROVE TypeOK'
<1> USE CapacityAssumption, BoundAssumption DEF ForgetOld
<1>0. vpc' \in [Vis -> Labels] /\ NoPid \in Pids /\ v \in Pids
  BY DEF VisStep, TypeOK, Labels, InScene, Stealing, Exiting, Displaying, VisGoto, Pids,
     CompareAndSwap, ClearAttached, TestOld, Steal, SetBlock, SetPeriod, SetPid, LoadOwner,
     WaitForSceneData, Poll, Cleanup, ReleaseStores, words
<1>1. CASE CompareAndSwap(v)
  BY <1>0, <1>1 DEF CompareAndSwap, TypeOK, Labels, sim
<1>2. CASE ClearAttached(v)
  BY <1>0, <1>2 DEF ClearAttached, TypeOK, Labels, sim
<1>3. CASE TestOld(v)
  <2>1. stolen' \in BOOLEAN
    BY <1>3, Zenon DEF TestOld, TypeOK
  <2> QED
    BY <1>0, <1>3, <2>1 DEF TestOld, TypeOK, Labels, sim, words
<1>4. CASE Steal(v) \/ Cleanup(v)
  <2>1. paused' \in BOOLEAN /\ block' \in BOOLEAN
    BY <1>4, Zenon DEF Steal, Cleanup, ReleaseStores, TypeOK, words
  <2> QED
    BY <1>0, <1>4, <2>1 DEF Steal, Cleanup, ReleaseStores, TypeOK, Labels, sim, words
<1>5. CASE SetBlock(v)
  <2>1. block' \in BOOLEAN
    BY <1>5, ModeAssumption DEF SetBlock
  <2> QED
    BY <1>0, <1>5, <2>1 DEF SetBlock, TypeOK, Labels, sim
<1>6. CASE SetPeriod(v)
  <2>1. period' \in BOOLEAN
    BY <1>6, ModeAssumption DEF SetPeriod
  <2> QED
    BY <1>0, <1>6, <2>1 DEF SetPeriod, TypeOK, Labels, sim
<1>7. CASE SetPid(v)
  BY <1>0, <1>7 DEF SetPid, TypeOK, Labels, sim
<1>8. CASE LoadOwner(v)
  BY <1>0, <1>8 DEF LoadOwner, TypeOK, Labels, sim, words
<1>9. CASE WaitForSceneData(v)
  BY <1>0, <1>9 DEF WaitForSceneData, TypeOK, Labels, sim, words
<1>10. CASE Poll(v)
  BY <1>0, <1>10 DEF Poll, TypeOK, Labels, sim, words
<1> QED
  BY <1>1, <1>2, <1>3, <1>4, <1>5, <1>6, <1>7, <1>8, <1>9, <1>10 DEF VisStep

LEMMA OtherType ==
  TypeOK /\ (Expire \/ SimKill \/ \E v \in Vis : User(v) \/ Kill(v)) => TypeOK'
<1> SUFFICES ASSUME TypeOK, Expire \/ SimKill \/ \E v \in Vis : User(v) \/ Kill(v)
             PROVE  TypeOK'
  OBVIOUS
<1> USE BoundAssumption DEF Forget, ForgetOld, ForgetPaused
<1>1. CASE Expire
  <2>1. late' \in BOOLEAN
    BY <1>1, Zenon DEF Expire
  <2> QED
    BY <1>1, <2>1 DEF Expire, TypeOK, words, graph
<1>2. CASE SimKill
  <2>1. late' \in BOOLEAN
    BY <1>2, Zenon DEF SimKill
  <2> QED
    BY <1>2, <2>1 DEF SimKill, TypeOK, Pids, SimGoto, SimLabels, words, graph
<1>3. ASSUME NEW v \in Vis, User(v) \/ Kill(v) PROVE TypeOK'
  <2>1. vpc' \in [Vis -> Labels]
    BY <1>3 DEF User, Kill, Connect, SetupFails, TogglePaused, Quit, Signal, VisGoto, TypeOK,
       Labels, Exiting
  <2>2. /\ [old EXCEPT ![v] = NoPid] \in [Vis -> Pids]
        /\ [vpaused EXCEPT ![v] = FALSE] \in [Vis -> BOOLEAN]
    BY DEF TypeOK, Pids
  <2>3. CASE Connect(v) \/ SetupFails(v)
    BY <2>1, <2>3 DEF Connect, SetupFails, TypeOK, Labels, words, sim
  <2>4. CASE Quit(v)
    BY <2>2, <2>1, <2>4 DEF Quit, TypeOK, Labels, words, sim
  <2>5. CASE Kill(v)
    BY <2>2, <2>1, <2>5 DEF Kill, TypeOK, Labels, words, sim
  <2>6. CASE TogglePaused(v)
    <3>1. paused' \in BOOLEAN /\ vpaused' \in [Vis -> BOOLEAN]
      BY <2>6 DEF TogglePaused, TypeOK
    <3> QED
      BY <2>1, <2>6, <3>1 DEF TogglePaused, TypeOK, Labels, sim
  <2>7. CASE Signal(v)
    <3>1. stolen' \in BOOLEAN
      BY <2>7, Zenon DEF Signal, TypeOK
    <3> QED
      BY <2>2, <2>1, <2>7, <3>1 DEF Signal, TypeOK, Labels, words, sim
  <2> QED
    BY <1>3, <2>3, <2>4, <2>5, <2>6, <2>7 DEF User
<1> QED
  BY <1>1, <1>2, <1>3

LEMMA TypeStep == TypeOK /\ [Next]_vars => TypeOK'
<1>1. TypeOK /\ UNCHANGED vars => TypeOK'
  BY DEF TypeOK, vars, words, sim, graph
<1> QED
  BY <1>1, SimType, VisType, OtherType DEF Next

(* The words and the program counters keep their types.                     *)
THEOREM TypeCorrect == Spec => []TypeOK
BY InitType, TypeStep, PTL DEF Spec

-----------------------------------------------------------------------------
(* A step of a visualizer keeps every other one where it is.                *)
LEMMA OthersStay ==
  ASSUME NEW v \in Vis, TypeOK, VisStep(v) \/ User(v) \/ Kill(v)
  PROVE  \A w \in Vis : w # v => vpc'[w] = vpc[w]
BY DEF VisStep, User, Kill, TypeOK, VisGoto, CompareAndSwap, ClearAttached, TestOld, Steal,
   SetBlock, SetPeriod, SetPid, LoadOwner, WaitForSceneData, Poll, Cleanup, ReleaseStores,
   Connect, SetupFails, TogglePaused, Quit, Signal

LEMMA LockStep == TypeOK /\ LockInv /\ [Next]_vars => LockInv'
<1> SUFFICES ASSUME TypeOK, LockInv, [Next]_vars, ~stolen' PROVE LockInv'
  BY DEF LockInv
<1>1. ~stolen
  BY DEF Next, SimStep, VisStep, User, vars, words, sim, graph, ForceAndFork, AwaitLaunch, Integrate, LoadAttached, TestBlock,
     BlockingPush, Recheck, TestAlive, TestPaused, SimRelease, Complete, SimExit, Expire,
     SimKill, CompareAndSwap, ClearAttached, TestOld, Steal, SetBlock, SetPeriod, SetPid,
     LoadOwner, WaitForSceneData, Poll, Cleanup, Connect, SetupFails, TogglePaused, Quit, Signal,
     Kill
<1>2. /\ \A v \in Vis : vpc[v] \in Holding => lock = v
      /\ \A v \in Vis : vpc[v] \notin Stealing
      /\ spc \notin {"rel1", "rel2", "rel3", "rel4"}
  BY <1>1 DEF LockInv
<1>3. CASE SimStep \/ Expire \/ SimKill
  <2>1. spc' \notin {"rel1", "rel2", "rel3", "rel4"} /\ lock' = lock
    BY <1>2, <1>3 DEF SimStep, SimGoto, words, ForceAndFork, AwaitLaunch, Integrate,
       LoadAttached, TestBlock, BlockingPush, Recheck, TestAlive, TestPaused, SimRelease,
       ReleaseByBlockedSim, Complete, SimExit, Expire, SimKill
  <2>2. \A v \in Vis : vpc'[v] = vpc[v] \/ vpc'[v] = "cas"
    BY <1>3 DEF TypeOK, SimStep, graph, ForceAndFork, AwaitLaunch, Integrate, LoadAttached,
       TestBlock, BlockingPush, Recheck, TestAlive, TestPaused, SimRelease, Complete, SimExit,
       Expire, SimKill
  <2> QED
    BY <1>2, <2>1, <2>2 DEF LockInv, Holding, InScene, Displaying, Stealing
<1>4. ASSUME NEW v \in Vis, VisStep(v) \/ User(v) \/ Kill(v) PROVE LockInv'
  <2>1. spc' = spc
    BY <1>4 DEF VisStep, User, Kill, sim, CompareAndSwap, ClearAttached, TestOld, Steal,
       SetBlock, SetPeriod, SetPid, LoadOwner, WaitForSceneData, Poll, Cleanup, Connect,
       SetupFails, TogglePaused, Quit, Signal
  <2>2. vpc'[v] \notin Stealing
    BY <1>1, <1>2, <1>4 DEF VisStep, User, Kill, TypeOK, VisGoto, Stealing, CompareAndSwap,
       ClearAttached, TestOld, Steal, SetBlock, SetPeriod, SetPid, LoadOwner,
       WaitForSceneData, Poll, Cleanup, ReleaseStores, Connect, SetupFails, TogglePaused, Quit,
       Signal
  <2>3. /\ vpc'[v] \in Holding => lock' = v
        /\ lock' = lock \/ lock = NoPid \/ lock = v
    <3>1. CASE CompareAndSwap(v)
      BY <3>1 DEF CompareAndSwap, VisGoto, TypeOK, Holding, InScene, Displaying
    <3>2. CASE Cleanup(v)
      <4>1. CASE vpc[v] = "unmap"
        BY <3>2, <4>1 DEF Cleanup, ReleaseStores, VisGoto, TypeOK, Holding, InScene, Displaying,
           words
      <4>2. CASE vpc[v] # "unmap"
        BY <1>2, <3>2, <4>2 DEF Cleanup, ReleaseStores, VisGoto, TypeOK, Holding, InScene,
           Displaying
      <4> QED
        BY <4>1, <4>2
    <3>3. CASE Steal(v)
      BY <1>2, <3>3 DEF Steal, ReleaseStores, Stealing
    <3>4. CASE \/ ClearAttached(v) \/ SetBlock(v) \/ SetPeriod(v) \/ SetPid(v) \/ LoadOwner(v)
               \/ WaitForSceneData(v) \/ Poll(v) \/ SetupFails(v) \/ Quit(v) \/ TogglePaused(v)
      <4>1. lock' = lock /\ vpc[v] \in Holding
        BY <3>4 DEF ClearAttached, SetBlock, SetPeriod, SetPid, LoadOwner, WaitForSceneData,
           Poll, SetupFails, Quit, TogglePaused, words, Holding, InScene, Displaying
      <4> QED
        BY <1>2, <4>1
    <3>5. CASE TestOld(v) \/ Connect(v) \/ Kill(v)
      <4>1. lock' = lock /\ vpc'[v] \in {"gone", "steal1", "cas"}
        BY <3>5 DEF TestOld, Connect, Kill, VisGoto, words, TypeOK
      <4> QED
        BY <4>1 DEF Holding, InScene, Displaying
    <3>6. CASE Signal(v)
      <4>1. lock' = lock /\ vpc[v] \in Handling /\ vpc[v] \notin Released
        BY <3>6, <1>1 DEF Signal, words
      <4>2. vpc[v] \in Holding
        BY <4>1 DEF Handling, Released, Exiting, Holding
      <4> QED
        BY <1>2, <4>1, <4>2
    <3> QED
      BY <1>4, <3>1, <3>2, <3>3, <3>4, <3>5, <3>6 DEF VisStep, User
  <2>4. \A w \in Vis : w # v => vpc'[w] = vpc[w]
    BY <1>4, OthersStay
  <2>5. ASSUME NEW w \in Vis, vpc'[w] \in Holding PROVE lock' = w
    <3>1. CASE w = v
      BY <2>3, <2>5, <3>1
    <3>2. CASE w # v
      BY <1>2, <2>3, <2>4, <2>5, <3>2, PidAssumption
    <3> QED
      BY <3>1, <3>2
  <2> QED
    BY <1>2, <2>1, <2>2, <2>4, <2>5 DEF LockInv
<1>5. CASE UNCHANGED vars
  BY <1>5 DEF LockInv, vars, words, sim, graph
<1> QED
  BY <1>3, <1>4, <1>5 DEF Next

(* Until somebody sets out to release a lock that is not its own (by a      *)
(* steal, for a dead visualizer, or in a cleanup begun again after its      *)
(* release), attachedLock names the one visualizer past the swap.           *)
THEOREM LockDiscipline == Spec => []LockInv
<1>1. Init => LockInv
  BY DEF Init, LockInv, Holding, InScene, Displaying, Stealing
<1> QED
  BY <1>1, LockStep, TypeCorrect, PTL DEF Spec

(* The compare-and-swap of nbglGetExclusiveSceneAccess gives exclusive      *)
(* access, for any number of visualizers, kills and signals, until a lock   *)
(* is stolen, released by the simulation, or released twice by a            *)
(* nbglCleanupAttached that a signal began again.                           *)
THEOREM CasGivesExclusion == Spec => []CasExclusive
<1>1. LockInv => CasExclusive
  BY DEF LockInv, CasExclusive, ExclusiveAccess, Holding
<1> QED
  BY <1>1, LockDiscipline, PTL

=============================================================================
