# Milkyway@home client: TLA+ models, checks and proofs

Milkyway@home is a BOINC project. Its client consists of two applications that
run on volunteers' machines: **nbody**, which evolves a dwarf galaxy and
reports how well the result matches the sky, and **separation**, which fits
stellar streams by integrating a probability over a wedge of sky. Both are
killed and restarted at will by the BOINC client, both live off a checkpoint
file, and nbody shares its bodies with a separate visualizer process through
memory it does not lock. What can go wrong in such a program goes wrong
between two processes or between two lives of one process, where the
repository's tests do not look. That is what is modelled here.

Paths below are relative to the repository (`nbody/src/...`).

## 1. Inventory

| part | state | operations | interacts with |
|---|---|---|---|
| snapshot queue (`nbody_shmem.c`, `nbody_gl.cpp`, `nbody_graphics.h`) | head, tail, a ring of slots, the orbit trace, all in a mapped segment | push (simulation), pop (visualizer) | two processes, no lock |
| scene attachment (`nbody_shmem.c`, `graphics_main.c`, `nbody_gl.cpp`) | attachedLock, attachedPID, paused, blockSimulationOnGraphics, updatePeriod, ownerPID | attach, steal, detach, pause, wait for the first snapshot, blocking update, launch, complete | any number of visualizers, the simulation, users, signals |
| n-body run (`nbody.c`, `nbody_plain.c`, `nbody_checkpoint.c`, `nbody_io.c`, `main.c`) | NBodyState (step, best likelihood, its bodies), calibration counter, checkpoint file and temporary, histogram and body files | start or resume, step, likelihood, checkpoint, calibrate, report, clean up | BOINC (kills, checkpoints, uploads) |
| separation worker (`separation_main.c`, `evaluation.c`, `evaluation_state.c`, `integrals.c`, `run_cl.c`) | index of the work unit, EvaluationState (cut, nu, mu, Kahan sums), device buffer, checkpoint file | read or ignore the checkpoint, integrate on CPU or device, checkpoint, print, next unit | BOINC, OpenCL |
| shared segment (`nbody_shmem.c` 73-321, `graphics_main.c` 611-770) | named segments of instances, their owners | create, recreate, connect, unlink | several simulations on one machine |
| Barnes-Hut tree (`nbody_tree.c`, `nbody_grav.c`, `nbody_types.c`) | cells and the list of free ones, the threaded tree, treeIncest, structureError | reclaim, load, sum up, thread, quadrupoles, walk, free | OpenMP threads in the walk, the run loop |
| OpenCL kernels (`nbody_kernels.cl`, and their launches in `nbody_cl.c`) | the tree as arrays of indices, TreeStatus (bottom, depth, error code, counts) | bounding box, lock-free build, summarization, sort, quadMoments, forceCalculation, integration | work items, wavefronts, groups, the host |
| OpenCL driver (`nbody_cl.c`) | the bodies on the device and their copy on the host, the dirty flag, the step | pre-step, step, error check, marshal, checkpoint, report | device, checkpoint file, display |
| likelihood (`nbody_likelihood.c`, `nbody_histogram.c`, `nbody_emd.c`), potentials, orbit integration, probabilities | floating point | pure functions | called by the two run loops |
| setup (Lua), BOINC glue, OpenCL support, rendering, lite GUI, LModL, mwtao | - | - | around the core |

What is hard here: steps of the simulation and of visualizers in any order on
words that are each atomic and together are not; processes killed inside any
such sequence; a kill between any two file operations; what a second
incarnation believes about the first; likelihoods that are 0, infinite or NaN;
a loop whose counter is changed by the function it calls; hundreds of work items
that insert into one tree with nothing but a compare-and-swap; a state that
lives twice, on the host and on the device. `PROJECT.json` lists
these hazards one by one at their lines, with the properties that would catch
each.

Correctness, part by part: the queue is a lossless FIFO of whole snapshots;
at most one visualizer has the scene and nobody waits for ever; a checkpoint is
whole, durable and used, and likelihood, histogram and bodies of a report are
of one step; an integral has each of its points once, and each bundled unit is
printed, once; a segment in use belongs to one simulation; every body is in the
tree once, and acts on every other once, whichever code builds the tree; a run
on a device takes every step and reports what the device has.

## 2. Modules

| module | models | note |
|---|---|---|
| `BoundedFIFO` | what the queue promises | abstract: Put, Take, Tick |
| `CircularQueue` | `nbPushCircularQueue`, `nbPopCircularQueue` | every load, store and body copy is a step |
| `SceneAttach` | the words of `scene_t` and everyone who uses them | one process per visualizer, one simulation |
| `NBodyRun` | `nbMain` from resume to the removal of the checkpoint | one action per operation on a file |
| `Separation` | `worker`, `evaluate`, `integrate`, `integrateCL`, `writeCheckpoint` | CPU and device in one module |
| `SharedSegment` | `nbCreateSharedScene`, `nbDetachSharedScene`, `nbglConnectSharedScene` | one action per system call or header store |
| `BarnesHut` | `nbMakeTree`, `nbGravMap`, the cells' memory | exact arithmetic on a grid |
| `DeviceTree` | the buffers of the kernels | state only |
| `BuildTree` | `boundingBox`, `buildTreeClear`, `buildTree` and their launches | one action per shared access of a work item |
| `SumTree` | `summarizationClear`, `summarization`, `sort`, `quadMoments` | the same |
| `ForceWalk` | `forceCalculation` | one action per node a wavefront visits |
| `TreeKernels` | the composition: a time step on the device | extends the three |
| `CLRun` | `nbRunSystemCL` from resume to report | one action per operation on bodies or files |
| `MC*` | instances and symmetry sets | `CircularQueue` needs none |
| `*_proofs` | theorems and their proofs | |

Definitions whose comment begins with "Mutant" are deliberate bugs, one for
each property: replacing the definition they stand beside must make TLC find
the property violated. They are not part of any specification.

### CircularQueue and BoundedFIFO

`head`, `tail`, `info` and `pos` are the shared words and slots; `ppc`,
`pTail`, `todo` the producer's place and locals; `cpc`, `cHead`, `view`,
`unread` the consumer's. The bodies are written in any order because
`nbWriteSnapshot` is an OpenMP loop. `Kill` ends a visualizer anywhere in a pop.
`shown` is history. `Queued` maps the ring between head and tail to the FIFO's
sequence, and `ImplementsFIFO` is `BoundedFIFO`'s specification under that mapping.

What is pushed comes from the caller: `step` is `st->step`, `moves` how often
the bodies have been moved, and each piece of a slot is abstracted to the moves
its data is from, so a torn copy is a `view` whose pieces disagree. On the CPU
(`usesCL` FALSE) a step moves the bodies, is counted, and is pushed. On the
device `nbStepSystemCL` moves the bodies and pushes them, and `nbRunSystemCL`
counts the step when it has returned (`nbody_cl.c:1793, 1834, 1935`). The step a
run starts or resumes at can so be pushed twice with different bodies: as
`nbMain` forces it for a visualizer it is about to launch (`nbody.c:460`), and as
its first step left it. The order the queue promises is therefore that of the
moves; steps only never decrease.

OpenPA's loads and stores are taken to be sequentially consistent with the
plain accesses around them. That holds for the stores on x86 (TSO keeps stores
in order and loads in order); on a weaker machine `OPA_store_int` would need to
be a release store, which the source does not ask for.

One consumer at a time is an assumption here. Whether it is met is the question
`SceneAttach` answers.

### SceneAttach

`lock`, `att`, `paused`, `block`, `period`, `owner` are the words. The
simulation (`spc`) goes through `nbLaunchVisualizer`, then for every step
through `nbUpdateDisplayedBodies`: load `attachedPID`, choose, and when it
blocks, push, reload the pid, count attempts, test the process, test pause and
timeout. A visualizer (`vpc[v]`) goes through `nbglGetExclusiveSceneAccess`,
`nbglSetSceneSettings`, `waitForSceneData`, `mainLoop` and, at any exit but a
SIGKILL, `nbglCleanupAttached`. The queue is a counter, which is all that
`BoundedFIFO` leaves visible here. `late` stands for the clock having passed
`NBODY_QUEUE_TIMEOUT`. `quitOnSimulationComplete` is on. A process id is not
reused, and a dead process is seen as dead: `mwProcessIsAlive` reaps its own
children, and anybody else's zombie is the reaper's business. `stolen` is
history: somebody has set out to release a lock that is not its own. There are
three ways to that: a visualizer that arrives and finds the owner dead; the
blocked simulation in `nbReleaseSceneLocks`, which zeroes the lock of whoever
has it by then; and a signal that reaches a visualizer in its `atexit` cleanup
after it has stored `attachedLock = 0`. `nbglCleanupAttached` clears `g_scene`
only after the release and the unmapping, so the handler runs the four stores
again, over whoever has attached meanwhile. `Signal` is a handled signal at any
point between the installation of the handlers and the end of the process; in
the middle of a cleanup it begins the cleanup again. The label `unmap` is the
time after the release until `g_scene` is cleared; a signal in the part of it
that comes after `munmap` would fault instead of storing, which the model does
not tell from the part before.
A visualizer can connect while the segment has a name (`SceneExists`): one whose
simulation has ended has been unlinked, one whose simulation was killed has not.
Locals (`pid`, `attempt`, `late`, `old`, `vpaused`) are given one value while
nobody reads them (`Forget`), which merges states that cannot be told apart.
`Launched` is the set of visualizers the simulation may have started itself, with
`NoPid` for a simulation that started none.

### NBodyRun

`st` is the NBodyState, abstracted to the step, the best likelihood, the step
of the best bodies (`tab`), the time of the best likelihood and the forward
times its bodies were integrated with. The likelihood of each step is an input
chosen in `Init`, the same in every incarnation because stepping is
deterministic: 0, values up to `Worst`, infinity (`Worst + 1`) and NaN. Files
are absent, torn or whole. The histogram and bodies files are opened (emptied)
and written in two steps, the checkpoint in three: open the temporary, freeze
the state into it, rename. `Crash` may happen at any of them and wipes the
memory. It assumes the work unit asks for a histogram and for bodies, as
Milkyway@home's do. With a `MayFail` of TRUE, the setup, force evaluation and
every operation of a checkpoint may fail.

`mw_rename` is atomic, as POSIX says; the Windows fallback is not modelled.
There is no `fsync` before the rename: the models kill processes, not machines.

### Separation

A Kahan sum is abstracted to a function from points (work unit, nu, mu) to how
often each was added. `sum` is `bgSum`, `sumCk` is `bgSumCheckpoint` (the part
of a checkpoint that is still in the device's buffer `dev`), `cuts` the finished
integrals. `apWU` is the loop's counter, `esWU` the one in the checkpointed
state. `task` is the kind of task, chosen in `Init` from the constant `Tasks`:
`useCL` chooses between `integrate` (one point a step) and `integrateCL` (one
row a step), `cleanup` is `--cleanup-checkpoint`. The checkpoint spacing of the device is the source's unsigned
difference, `(nu - last) % UIntMod`. `Crash` respects BOINC's critical sections
unless `hardKill` is TRUE. With `mayFail` reads and writes fail, and a full disk
cuts a checkpoint short without anybody noticing (`WriteTruncated`): `fwrite`'s
result is not looked at, and only the tail of the file tells. `blind` is a
process that cannot evaluate at all: `probabilityFunctionDispatch` or the
resolution of the checkpoint's name fails, for every unit of the process or for
none, and `worker` goes on with the next unit (`EvaluateFails`). Where the
likelihood fails (`separation-outfile` cannot be opened), the result is printed
all the same and only `evaluate`'s return value tells.

### SharedSegment

`dir` maps the names `/milkyway_nbody_<n>` to segments, `size` and `header` are
their `st_size` and `scene_t`. A simulation (`sim[s]`) opens names in order,
looks whether a living process owns the segment, resizes and maps it, wipes the
header and stores size, owner and name one by one; the creation is inside the
calibration loop of `nbMain`, so every evolution makes a scene. `vis` is a
visualizer between its `shm_open` and its tests of the header. Pids are used
again (`Pid` is as small as the processes that live at once). `mishaps` is
history: what has failed or overlapped so far, which the properties are
conditional on; `Tolerated` says which may happen. The run tolerates failing
calls (`refused`), a header that cannot be mapped to look at its owner (`blind`:
`nbSegmentIsOwned` then says "not owned") and kills, and no two creations at one
moment: between the look at the owner and the store of a new one nothing keeps a
second simulation out, and the two would share a segment. When `ftruncate` has
succeeded and `mmap` then fails, the segment keeps its new size with the old
header (`MapFails`). The Windows mapping
and the macOS recreation of segments are not modelled.

### BarnesHut

Positions are integers, sizes powers of two times `Epsilon`, a centre of mass is
a fraction, and all comparisons are of squares, so `FarEnough` decides exactly
what the formulas of `findRCrit` say. A mass is the bag of bodies added up in
it, a force the bag of bodies that act. Cells are memory: `next`, `more`,
`mid` and `stuff` keep what an earlier tree left there until it is assigned, and
`stuff` is the union of children and quadrupole moment. `nbLoadBody` is one
action per level. Where the bodies are at the next step is left open: a superset
of what an integrator does. `Masses` includes a test particle, which is not
loaded, walks all the same, never meets itself and is reported as tree incest. A
root without children (no body has mass) is excluded by `MassAssumption`:
`threadTree` would read `desc[0]` uninitialised. `hackQuad` adds to `Quad(p)`
without clearing it, and what is there are the child pointers (`links`); read as
doubles they are negligible for 64-bit addresses, which is all the comment
"coded so that the Subp() and Quad() components of a cell can share the same
memory locations" rests on. A structure error leaks the unthreaded cells and
frees none twice.

### DeviceTree, BuildTree, SumTree, ForceWalk, TreeKernels

One dimension is kept, so a cell has two octants. `mode` is the device: with or
without consistent memory, chunked launches or one, quadrupoles, the critical
radii's checks, groups and lanes. `bt[w]`, `sm[w]` and `fw[u]` are the registers
of work items and wavefronts; a read, a compare-and-swap, an atomic, a store of
a child or of a ready mass is a step. Registers keep their value over a retry as
the C locals do. Launches end before the next begins (an in-order queue). The
host repeats the build until all bodies are in, or `maxDepth` is too large, or
three counts are the same, and launches summarization as often as the tree is
deep when memory is not consistent. `overflowed` and `loaded` are history. Kernel
errors are as the code has them: the depth test of `forceCalculation`, the
structure test of `summarization`, incest, all in the one word `errorCode` that
the last writer wins and nothing resets.

Three simplifications of `buildTree` and the walk. Memory is sequentially
consistent in both modes: what lacks consistent memory is modelled by what
the code does about it (more launches, no waiting), not by
reads of old values. The test `posNotReady` for a NaN position in a cell just read
(`nbody_kernels.cl:1006, 1022`) guards against just such a read, never fires
here, and is left out. A failed allocation stores the error code and the bottom
(`nbody_kernels.cl:1044-1045`) in one step, `Overflow`: nothing reads the code before
the launch ends, so what comes between the two stores makes no difference. And the
fill of `dq[]` for the BH86 criterion ahead of the walk
(`nbody_kernels.cl:1972`), which indexes by depth before the depth is tested, is not
part of `ForceWalk`: `StackBounded` is about the stack.

The run's groups are one wavefront each (`lockstep`). With two, the loop
`while (deadCount != THREADS2)` ("We need to avoid conditionally barriering",
`nbody_kernels.cl:955`) reads `deadCount` while the other wavefront may still
add to it: one can leave while the other waits at the barrier inside. The model
with `lockstep |-> FALSE` and two lanes reaches that state.

### CLRun

The bodies are abstracted to how often they were moved (`moved`), the moves whose
velocity correction has not come (`owed`), the moves without the pull of the LMC
(`bare`), the moves at which a checkpoint was resumed, and those a kernel failed
on. `dev` is on the device, `host` the copy, `dirty` says that the copy is old.
`code` is `errorCode`. What the kernels do inside a step is `TreeKernels`'
business; here a step moves the bodies once and may fail.

## 3. Runs

Passing runs:

| run | checks | bounds |
|---|---|---|
| `queue` | `NoTornSnapshot`, `ShownInOrder`, the refinement `ImplementsFIFO`, `PublishedIsShown` | 3 slots, 5 steps, 2 bodies, 1 kill, on the CPU and on the device, from every step a run may start at: the ring wraps, fills and empties, a copy can be torn, one step is pushed twice |
| `attach` | `CasExclusive`, `BlockedOnlyByPause`, `DeadNeverBlock`, `LaunchReturns`, `WaitEnds`, `GraphicsQuit` | 2 visualizers, one of them perhaps launched by the simulation, blocking and not, 2 steps, a queue of 1, 1 wait period, 1 kill, 1 signal: a step finds the queue full, a process is looked at after several attempts, a cleanup is begun again |
| `nbody_crash` | `CheckpointWhole`, `CheckpointDurable`, `BestSinceResume`, `HistMatchesReport`, `OutMatchesReport` | 3 steps, window of 2, all kinds of likelihood, any number of kills, failures |
| `nbody_live` | `ForwardTimeOfRun`, `Completes` | 1 calibration run, kills, fairness below |
| `separation` | `ResultsExact`, `NothingSkipped`, `FirstPrintedOnce`, `ProgressKept` | 2 units, 2 cuts, 2 x 2 points; CPU and device, with and without clean-up, hard kills and failures |
| `segment` | `SceneIsMine`, `MappedWhole`, `DisownedRemoved` | 2 simulations of different sizes, one with 2 evolutions, 2 pids, 2 names, 4 segments: a leftover segment grows and shrinks, a pid is used again |
| `tree` | `ActsOnce`, `CellsKept`, `OwnCellOpened`, `CrowdedOnly` | 3 bodies at any of 6 places in the plane, 2 steps, 4 criteria: cells two levels deep, corners of cells, bodies at one point, a box that grows, cells that are used again |
| `kernels` | `LoadedStay`, `BuiltTree`, `SummedExactly`, `EachMassOnce`, `StackBounded`, `FaultReported`, `StepsEnd` | 4 bodies in 5 placements, 4 devices of up to 3 work items, depth 3, 2 steps: chains of cells, a tree too deep, cells that run out, a body outside the box (the scan stops at `NBODY - 1`) |
| `cl` | `StepsAccounted`, `KicksAccounted`, `FaultsNoticed`, `ProgressKept`, `RunEnds` | 3 steps, 2 kills, with and without LMC, incest allowed or not, checkpoints always, at the end or never |

Nothing in these protocols counts beyond two: two processes on a word, a window
of two steps inside a run of three (one step before it, one first, one last),
two cuts so that sums carry over, two units so that one follows a printed one,
two work items on a slot, two steps so that a second tree is built from the
cells of the first. (Losing exclusion to a repeated release takes three visualizers;
the `attach` run has two. `CasExclusive` was checked with three as well, on
`MCSceneAttach` with `Vis = {v1, v2, v3}`, `SPECIFICATION Spec` and
`SYMMETRY VisSymmetry`.) The theorems of section 5 remove the bounds where they reach.

The type invariants and the inductive invariants are not listed with the runs:
those of the proved modules are theorems (section 5), and TLC checked each on the
configuration of its module's run before it was proved. `TypeOK` of
`TreeKernels` was only checked that way: that `bottom` stays an index depends on
there being fewer work items than bodies.

`CHECK_DEADLOCK FALSE` stands where everybody may have left or a run is over:
attachment, segments, the tree, the kernels, the device run. The other models
end in an explicit stuttering state, or keep polling.

Runs that show a disagreement between the code and a comment or a test (each is
a finding in `PROJECT.json`, with the quoted line):

| run | what happens |
|---|---|
| `attach_steal` | Visualizer 1 is killed with the lock; 2 finds it dead, *releases* the lock, and attaches without taking it; 3's compare-and-swap succeeds. Two visualizers pop from a queue that is for one. |
| `nbody_resume` | A resumed run resets the best likelihood it has just read; if the best step was before the kill, a worse one is reported. |
| `cl_checkpoint` | The checkpoint of a device run is written after the step and before it is counted; a resumed run takes that step again, and drops the pending velocity correction. `StepsAccounted` and `KicksAccounted` of the `cl` run say exactly how much. |

Other disagreements met while modelling, each reproduced with these modules and
stated here for the record; the passing properties are conditional on them:

- visualizer 1 leaves and has stored `attachedLock = 0`; 2 takes the lock; a signal
  reaches 1, whose `g_scene` is still set, and its handler stores 0 again; 3's
  compare-and-swap succeeds, and nobody was killed (the `attach_steal` run with
  `MaxKills = 0` and `MaxSignals = 1` ends like this);
- a visualizer that leaves stores `attachedLock = 0` before `attachedPID = 0`.
  If the one the simulation has launched attaches in between, its pid is wiped:
  the simulation waits for a pid, the child for a first snapshot, neither with a
  timeout (`LaunchReturns` is what is left);
- a NaN likelihood at the last step slips past the normalisation in
  `nbReportResults` and past the comparison with the best one: the worst case is
  reported (`BestSinceResume` is about end states that have a likelihood);
- a resume during calibration clones a state in the middle of an evolution as
  the initial one (`ForwardTimeOfRun`: evolutions that began in this process);
- after a kill, `evaluate` comes back to a later work unit whose checkpoint says
  it was printed: computed and printed again (`FirstPrintedOnce`: the first is
  not);
- two simulations that create scenes at one moment share a segment
  (`SceneIsMine`: no overlap); a simulation that finds a segment owned unlinks
  its *name* (`nbody_shmem.c:173`), so a visualizer that asks for the instance
  of the running one no longer finds it;
- the barrier in the loop of `buildTree` (above);
- a cell overflow is overwritten by the incest error of the walk that follows,
  which `allowIncest` lets pass; the error code of the last step is never
  looked at, and one that was checkpointed is forgotten (`FaultsNoticed`).

## 4. Fairness

- `CircularQueue`: the simulation finishes a push it began; the visualizer
  polls (`mainLoop` polls every few milliseconds). Whether the simulation
  advances is its own business; kills are not fair and are bounded.
- `SceneAttach`: `SimFairSpec` lets only the simulation and the clock run on; a
  visualizer may hang, which is what the timeout of the wait is for, and
  `BlockedOnlyByPause` and `DeadNeverBlock` hold in spite of it. The properties
  that need the visualizers to run on as well have `GraphicsRun` (weak fairness
  of each of them) as a hypothesis. Users never have to do anything.
- `TreeKernels`: every work item that can take a step takes one in the end, and
  the host goes on after a launch. OpenCL promises no more than progress of the
  items of a running group; the driver launches no more groups than the device
  has compute units times a factor, which the code relies on as `StepsEnd` does.
- `CLRun`: a process that is not killed goes on; nothing has to fail, kills are
  bounded.
- `BarnesHut`, `SharedSegment`, `Separation`: safety only.
- `NBodyRun`: the process works while it is up and is started again. For
  `Completes`, from some time on a kill comes only after a checkpoint later
  than the one the incarnation began with. Without this no program with
  checkpoints completes, and the checkpoint period is chosen for it.

## 5. Theorems

All are proved by TLAPS for every value of the constants that satisfies the
named assumptions: any number of processes, bodies, steps, kills, work items.
Each proof has the same shape: an invariant that is inductive, one lemma per
action or group of actions saying that it is preserved, one theorem
`Spec => []IInv`, and the properties from it.

**`CircularQueue_proofs`** (assuming at least two slots). `IInv` says that slots
between head and tail are whole, have their trace, are newer (of later moves and
no earlier step) than what was shown and increase round the ring (`QueuedInv`,
`OrderInv`), that whoever is about to push has moved the bodies since the last
push (`ProgressInv`), that a process in the middle of an operation still agrees
with the word it loaded (`pTail = tail`, `cHead = head`), and that what was
written or copied so far is of one moment. `ProgressInv` is where the caller
comes in: it holds on both paths because the bodies, though not always the
step, have been moved before each call of `nbUpdateDisplayedBodies`. The agreement with the
loaded words makes it inductive: a process relies on what it read earlier
because the other one never stores its word. The arithmetic of the ring is in
lemmas about `Between` and `Before`. Results: `QueueInvariant`, `TypeCorrect`,
`WholeSnapshots`, `ExclusiveSlots`, `DisplayOrder` (an action property).

`QueueIsFIFO` is the refinement. The number of queued slots and the k-th of them
are functions of head and tail modulo the size; `CountGrows` and `CountShrinks`
say what one more or one less does to them without wrapping past the other end
(one slot always stays free), so that the store of `tail` is `Put`
(`StoreTailPuts`), the store of `head` is `Take` (`StoreHeadTakes`), and a slot
that is being written is outside the sequence (`WriteHidden`). All other steps
stutter.

**`SceneAttach_proofs`** (assuming only that pids differ). `LockInv` says that
until somebody sets out to release a lock that is not its own, whoever is past the
compare-and-swap and has not stored 0 is named by `attachedLock`. It is
inductive with `TypeOK`. Results: `TypeCorrect`, `LockDiscipline`,
`CasGivesExclusion`: exclusion can only be lost in one of the three ways named in
section 2: a release on behalf of a dead process, by a visualizer
(`attach_steal`) or by the blocked simulation, and a cleanup that a signal
begins again (section 3). With any number of signals, a visualizer that
is interrupted *before* its release has stored 0 loses nothing: it still holds
the lock while it begins again.

**`NBodyRun_proofs`** (assuming at least one step and an ordered likelihood
scale). `IInv` adds to the properties where the run can be at its last step
(`LastStepInv`), that the temporary about to be renamed is the state of this
process (`TmpInv`), that the checkpoint is that state when the client is told
(`AckInv`), that the best likelihood is that of its bodies and no step since
`base` is better (`BestInv`), and which step each output file holds (`FileInv`).
Results: `RunInvariant`, `TypeCorrect`, `WholeCheckpoints`,
`DurableCheckpoints`, `ReportsBest`, `HistogramAgrees`, `BodiesAgree`.
`OneForwardTime` needs `ForwardInv` besides: bodies at step 0 were integrated
with nothing wherever they are kept (in memory, in the initial state that
calibration clones, in a checkpoint, in a temporary), and an evolution from
step 0 keeps to the forward time it began with.

**`Separation_proofs`** (assuming a positive grid and that an unsigned int counts
the nu steps). `IInv` says that while a work unit is integrated the sum on the
host and in the device's buffer together have every point behind `(nu, mu)`
once and no other, and that finished cuts are exact (`SumsInv`); that a whole
checkpoint says the same of its two sums, and that a temporary about to be
renamed is torn or the state (`FilesInv`); that a checkpoint still to be read is
not of an earlier unit than the loop's (`ResumeInv`); that one that was read is
not ahead of the process (`AheadInv`); and which units are printed (`PrintedInv`,
`FirstInv`). A `blind` process reads no checkpoint and so keeps no promise about
one; `ResumeInv` is about the others, and a process stays one or the other.
`ResumeInv` is what keeps `evaluate` from resuming a unit with
another's sums although the loop's counter and the checkpoint's are two words.
Results: `Invariant`, `TypeCorrect`, `ResultsAreExact`, `NothingIsSkipped`,
`FirstIsPrintedOnce`, `ProgressIsKept` (an action property).

**`CLRun_proofs`** (assuming at least one step). `IInv` says of the bodies on the
device, on the host and in every file, how often they were moved, which velocity
corrections they are owed and which moves lacked the LMC, as a function of the
resumes they have been through (`BodiesOK`, `KicksOK`); that the device is one
move ahead of `step` exactly between a step and its count (`DeviceInv`); to
which positions the accelerations belong (`AccInv`); that a file in the middle of
a run is one move ahead of the step it says (`FileOK`), which is the finding of
`cl_checkpoint` in one line; that the device is not behind the checkpoint
(`AheadInv`); and where a fault can be without having stopped the process
(`FaultInv`). Results: `Invariant`, `TypeCorrect`, `StepsAreAccounted`,
`KicksAreAccounted`, `FaultsAreNoticed`, `ProgressIsKept` (an action property).

**`SharedSegment_proofs`** (assuming that pids and segments are numbers, and that
no pid is 0). `IInv` says that processes that live at once have different pids
(`PidInv`) although pids are used again; that a segment has one name at most,
the one its user opened it by (`NameInv`); that one simulation creates at a
time, in a segment no other runs with, and how far its header is (`CreateInv`);
what a visualizer that was let in has mapped (`MapInv`); and that a named
segment without an owner is about to be owned or removed (`OwnerInv`). Results:
`Invariant`, `TypeCorrect`, `ScenesAreOwned`, `ScenesAreMapped` (both while
nothing blinded a simulation to an owner: `Calm`) and `DisownedAreRemoved`.
The last is about histories without any mishap, because its proof failed for
less and TLC then showed why: simulation 1 takes over the segment of 2, whose
header it could not map; 2 ends, stores the owner 0 over 1's pid and, because 1
has wiped the header and not yet stored the name, unlinks nothing; 1 goes on to
another calibration run and another scene, and the name stays.

**`BuildTree_proofs`**, faults (assuming groups and lanes of at least one). `FaultInv`
says that once cells have run out the error code is set, or a work item of
`buildTree` has still to store it before its launch can end (`OverflowInv`); no
later store of another kernel clears the code; and a tree is walked only if it
fits the stack (`DepthInv`). Results: `Invariant` and `FaultsAreReported`: an
error *is* there when the bodies are moved. Which one it is, is another matter
(section 3).

**`BuildTree_proofs`**, the tree (assuming besides that there are bodies, two cells or more
and positions that are integers). The results hold while the tree *fits*: no cell
was missing and nothing too deep was inserted (`Fit`); otherwise an error is
reported, as above. `NextFit` says that a tree that fits at the end has fitted
all the time, because the depth is counted before the lock is given up.

- `TreeInv(up, lv, reg, own)` is the invariant of `buildTree`. What it needs to know
  of a cell is in no variable: the slot it was made for, its level, the bodies whose
  positions lead there, the item it is private to. The invariant says that such
  functions exist and each action's lemma gives the next ones. Its conjuncts: child
  pointers lead to cells made for that slot (`LinkInv`); no two slots hold one body or
  one cell (`UniqueInv`), a body in a slot belongs there (`BodyInv`); a locked slot has
  one holder, whose chain no one else reaches (`LockInv`, `ItemInv`); the region of a
  cell taken from the pool is not empty (`FullInv`); the recorded depth covers
  the levels (`CoverInv`).
- `DeviceInvariant`: the same through the whole time step. After `buildTree`
  only levels are needed (`LevelInv`): the compaction of children by
  `summarization` moves pointers and keeps levels, and an entry of the walk's stack
  is a cell one level below the entry under it (`WalkInv`). Hence `StackIsBounded`.
- `LoadsInvariant`: why the host may stop waiting. Without consistent memory the
  inserted bodies are those counted by the host, by a group whose items are through
  and by items still inside it (`CountInv`); with it, the items divide the
  bodies by stride and each is where its chunk of the launch says (`ChunkInv`).
- `LoadedBodiesStay`: a search that follows the pointers visits cells of
  falling index, so there is a least one (`Least`, from well-founded induction on the
  numbers applied to a *set*, which the provers can do), and `TreeInv` says what is
  in its slot for an inserted body.
- `TreeIsBuilt`: with all bodies in and no item inside, no slot is locked and no cell
  private. `Under` is a recursive function; the proof first shows that a function with
  its equation exists (`UnderExists`, the same argument by least elements) and
  that for a finished tree it is the region of each cell (`FinishedUnder`).

**`SumTree_proofs`** (assuming besides that the mark of a cell that is not ready,
-1 or NaN in the code, is no sum of masses). `Summed` adds to `Loads` that the
finished tree has levels and bodies under each cell, the disjoint union of those
under its children (`TreeOf`), and what the kernels have made of it (`Climb`):

- a cell that is ready holds all bodies under it once, and its other words were stored
  before the one that says so (`Exact`, `Stored`);
- the partial sum of an item is that of its cell without the children it has not
  scanned and those it has found missing, and its count is ahead by just the
  number of these (`Adds`); the compaction of children, done in the same loop,
  moves a pointer only into a slot already scanned (`MovedKids`, `TurnAdds`);
- the cells divide among the items by stride (`MineAlone`, `CellOwner`), and what an
  item has passed is ready if this launch has to finish it (`Due`): any cell with
  consistent memory, else the levels `hostDepth - pass` and deeper. That is why
  `hostDepth` launches are enough (`NextPass`, `LastReady`), and it needs that the
  host's depth covers every level (from `CoverInv`).

Results: `SummedInvariant` and `SumsAreExact`.

`Forced` adds what makes the forces exact, `EachMassOnce`:

- every node but the root has one cell above it (`Family`), so the tree fixes a
  place in the array for each node, `InOrder(at, U)`: a cell's first child has its
  place, the second follows the bodies under the first. Such an `at` exists
  (`OrderExists`, from the root down) and is one to one on the bodies
  (`OrderIsOneToOne`): the bodies under a node fill the range that begins at its
  place (`Fills`);
- launch p of `sort` hands the places down from level p + 1 (`Sorts`): a start is
  missing or right, and an item has served the cells it has passed, if their
  start was there. The depth of the tree is the number of launches, so after the
  last one each body is in its slot (`SortLast`, `Placed`);
- the walk gives up an entry of its stack at the first null child, which is right
  because `summarization` moved the children to the front: a cell that is ready
  is `Packed`, and all are once the kernel has ended;
- what a wavefront has added is all bodies but those below its stack, each once,
  and the parts of two entries have no body in common (`Walking`). Taking a child
  or opening it moves bodies from one side to the other (`WalkTakes`, `WalkOpens`),
  and with the stack empty it has all of them. The choice between the two is free
  in the model, so the result holds for any opening criterion;
- a wavefront takes the slots of its chunk by stride and has served those it
  has passed (`Serves`); the chunks of the launches cover the array (`ForceLast`).

It needs besides that the starts are reset for each tree, the root's to 0 (`Starts`).
Results: `ForcedInvariant` and `EveryMassActsOnce`.

Only model-checked:

- everything about liveness (`PublishedIsShown`, `BlockedOnlyByPause`,
  `DeadNeverBlock`, `LaunchReturns`, `WaitEnds`, `GraphicsQuit`, `Completes`,
  `StepsEnd`, `RunEnds`): the prover has no fairness;
- `BarnesHut` (`ActsOnce`, `CellsKept`, `OwnCellOpened`, `CrowdedOnly`): the threaded
  list, the walk along it and the bags it adds up are recursive functions and
  folds over the whole tree; what they compute for every tree is an
  induction over data.

## 6. Not modelled

- floating-point physics and statistics: forces, potentials, orbits, EMD,
  stream probabilities. No discrete state; the models take their results as
  inputs or count their calls;
- OpenGL drawing, Lua setup, OpenCL device selection, the BOINC library,
  argument parsing: wrappers of libraries, or run once before the modelled part;
- the Windows variants of shared memory, launch and rename;
- power loss (there is no `fsync` before a rename) and weak memory other than the
  kernels' lack of consistency;
- `nbody.c:486`, `main.c:732`, `separation_main.c:691`: statuses that a later
  one overwrites, and a checkpoint that is removed after an error. The models do
  as the code does; nothing in the repository says what should happen instead;
- vendored code (crlibm, dSFMT, libelf, lua, openpa, popt), the lite GUI,
  LModL, mwtao. By far the most of the repository's lines are these and the
  floating-point code: crlibm's tables and polynomials alone are more than all
  modelled files together, which is why the modelled share of the lines is small
  while the concurrent and the persistent parts are covered.

## 7. Plan

Done, in this order: the queue and its refinement; attachment; the n-body run;
the separation worker; segments; the kernels; the device run; the CPU's tree;
then the proofs, in the order of section 5. What would be next:

1. Of `BarnesHut`, what is local to a cell: that `nbMakeCell` never returns a
   cell that is in the tree.
2. Of attachment, when exactly each of the three releases of another's lock leaves
   two visualizers with the scene.
3. Small pure algorithms where a reference definition exists: histogram binning
   and its index, the combination of statuses in `nbStatusToRC`.
