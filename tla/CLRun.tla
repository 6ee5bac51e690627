-------------------------------- MODULE CLRun --------------------------------
(***************************************************************************)
(* The run of N-body on an OpenCL device as the host sees it (nbody_cl.c): *)
(* nbInitNBodyStateCL, the pre-step, the loop of nbMainLoopCL with its     *)
(* error code, display update and checkpoint, and the end of               *)
(* nbRunSystemCL, with kills and resumes.  What the kernels compute is     *)
(* module TreeKernels; here a step is one action of the device.            *)
(*                                                                         *)
(* Bodies are kept as their history: how often they were moved, which of   *)
(* those moves still lack the second half of their velocity correction,    *)
(* which used an acceleration without the pull of the LMC, after which a   *)
(* checkpoint was resumed, and in which the kernels failed.                *)
(***************************************************************************)
EXTENDS Integers, FiniteSets

CONSTANTS
  NStep,       \* ctx->nStep
  MaxKills,    \* bound on the kills of the process
  Options,     \* the work units and command lines: see the fields below
  MayFail      \* whether OpenCL and file operations may fail

ASSUME RunAssumption ==
  /\ NStep \in Nat \ {0} /\ MaxKills \in Nat
  /\ MayFail \in BOOLEAN
  /\ Options \subseteq [lmc : BOOLEAN,           \* ctx->LMC
                       allowIncest : BOOLEAN,   \* ctx->allowIncest
                       checkpoints : {"all",    \* during the run and at its end
                                      "final",  \* disableGPUCheckpointing
                                      "none"}]  \* checkpointT < 0

VARIABLES
  opt,    \* one of Options
  pc,     \* where the process is
  step,   \* st->step
  host,   \* st->bodytab
  dirty,  \* st->dirty
  dev,    \* the bodies in the device's buffers
  acc,    \* the accelerations there: the moves before them, if they have
          \* the pull of the LMC, and if a kernel failed on them
  code,   \* treeStatus.errorCode
  tmp,    \* the temporary checkpoint file, or NoFile
  ckpt,   \* the checkpoint file, or NoFile
  out,    \* the bodies that were reported, or NoFile
  kills   \* kills so far

vars == <<opt, pc, step, host, dirty, dev, acc, code, tmp, ckpt, out, kills>>
files == <<opt, tmp, ckpt, out, kills>>
device == <<dev, acc, code>>

NoFile == [step |-> -1]
Bodies0 == [moved |-> 0, owed |-> {}, bare |-> {}, resumed |-> {}, faulty |-> {}]
NoAcc == [at |-> -1, lmc |-> FALSE, bad |-> FALSE]

Init ==
  /\ opt \in Options
  /\ pc = "start" /\ step = 0 /\ host = Bodies0 /\ dirty = FALSE
  /\ dev = Bodies0 /\ acc = NoAcc /\ code = "ok"
  /\ tmp = NoFile /\ ckpt = NoFile /\ out = NoFile /\ kills = 0

-----------------------------------------------------------------------------
(* A process starts: nbResumeOrNewRun, then nbInitNBodyStateCL creates the  *)
(* buffers, which are zero, sets the tree status and copies the bodies in.  *)
Initialise(st, bodies) ==
  /\ pc = "start" /\ pc' = "prestep"
  /\ step' = st /\ host' = bodies /\ dev' = bodies /\ dirty' = FALSE
  /\ acc' = NoAcc /\ code' = "ok"
  /\ UNCHANGED files

NewRun == ckpt = NoFile /\ Initialise(0, Bodies0)

(* Mutant: the checkpoint is not looked for.                                *)
ResumeNothing == ckpt # NoFile /\ Initialise(0, Bodies0)

(* A checkpoint of the end has no step left to repeat.                      *)
Resume ==
  /\ ckpt # NoFile
  /\ LET b == ckpt.bodies
     IN  Initialise(ckpt.step, IF ckpt.step < NStep
                               THEN [b EXCEPT !.resumed = @ \cup {b.moved}] ELSE b)

(* What the kernels leave in the error code, which is never reset, and      *)
(* whether a fault of theirs, not only incest, is behind it.  A later store *)
(* replaces an earlier one.                                                 *)
KernelOutcomes == {<<code, FALSE>>, <<"incest", FALSE>>, <<"fault", TRUE>>, <<"incest", TRUE>>}

(* The pre-step computes accelerations and leaves the bodies alone; its     *)
(* force kernel has not been given the LMC.                                 *)
RunPreStep ==
  /\ pc = "prestep"
  /\ \E o \in KernelOutcomes :
       code' = o[1] /\ acc' = [at |-> dev.moved, lmc |-> FALSE, bad |-> o[2]]
  /\ pc' = "loop"
  /\ UNCHANGED <<step, host, dirty, dev, files>>

-----------------------------------------------------------------------------
(* The top of the loop.                                                     *)

Fatal(c) == c = "fault" \/ (c = "incest" /\ ~opt.allowIncest)

(* Mutant: only incest is looked for.                                       *)
CheckIncest ==
  /\ pc = "loop" /\ step < NStep
  /\ pc' = IF code = "incest" /\ Fatal(code) THEN "giveup" ELSE "step"
  /\ UNCHANGED <<step, host, dirty, device, files>>

CheckKernelErrorCode ==
  /\ pc = "loop" /\ step < NStep
  /\ pc' = IF Fatal(code) THEN "giveup" ELSE "step"
  /\ UNCHANGED <<step, host, dirty, device, files>>

(* Mutant: off by one.                                                      *)
EndLoopLate ==
  /\ pc = "loop" /\ step > NStep
  /\ pc' = "end"
  /\ UNCHANGED <<step, host, dirty, device, files>>

EndLoop ==
  /\ pc = "loop" /\ step >= NStep
  /\ pc' = "end"
  /\ UNCHANGED <<step, host, dirty, device, files>>

(* Mutant: updateVel stays false after the pre-step.                        *)
MovedUncorrected(b, bad) ==
  LET n == b.moved + 1
  IN  [b EXCEPT
        !.moved  = n,
        !.owed   = IF opt.lmc THEN @ ELSE @ \cup {n},
        !.bare   = IF opt.lmc /\ ~acc.lmc THEN @ \cup {n} ELSE @,
        !.faulty = IF acc.bad \/ bad THEN @ \cup {n} ELSE @]

(* nbStepSystemCL: the new accelerations correct the velocities by half     *)
(* their difference from the old ones, then the bodies are moved with them. *)
(* The difference is zero when both belong to the same positions.           *)
(* nbStepSystemCL_LMC moves first, with the old accelerations, and gives    *)
(* the second half of the kick after the new ones.                          *)
Moved(b, bad) ==
  LET n == b.moved + 1
  IN  [b EXCEPT
        !.moved  = n,
        !.owed   = IF opt.lmc THEN @ ELSE (IF acc.at = n - 2 THEN @ \ {n - 1} ELSE @) \cup {n},
        !.bare   = IF opt.lmc /\ ~acc.lmc THEN @ \cup {n} ELSE @,
        !.faulty = IF acc.bad \/ bad THEN @ \cup {n} ELSE @]

(* Mutant: the host's bodies are not marked as out of date.                 *)
StepSystemClean ==
  /\ pc = "step"
  /\ \E o \in KernelOutcomes :
       /\ code' = o[1]
       /\ dev' = Moved(dev, o[2])
       /\ acc' = [at |-> IF opt.lmc THEN dev.moved + 1 ELSE dev.moved, lmc |-> opt.lmc, bad |-> o[2]]
  /\ pc' = "display"
  /\ UNCHANGED <<step, host, dirty, files>>

StepSystemCL ==
  /\ pc = "step"
  /\ \E o \in KernelOutcomes :
       /\ code' = o[1]
       /\ dev' = Moved(dev, o[2])
       /\ acc' = [at |-> IF opt.lmc THEN dev.moved + 1 ELSE dev.moved, lmc |-> opt.lmc, bad |-> o[2]]
  /\ dirty' = TRUE
  /\ pc' = "display"
  /\ UNCHANGED <<step, host, files>>

(* nbMarshalBodies from the device.                                         *)
MarshalBodies ==
  /\ host' = IF dirty THEN dev ELSE host
  /\ dirty' = FALSE

(* nbUpdateDisplayedBodies: when there is a scene the bodies are copied for *)
(* it; errors are ignored.                                                  *)
UpdateDisplayedBodies ==
  /\ pc = "display" /\ pc' = "checkpoint"
  /\ MarshalBodies \/ UNCHANGED <<host, dirty>>
  /\ UNCHANGED <<step, device, files>>

(* nbCheckpointCL, when checkpointing is on and it is time.                 *)
CheckpointCL ==
  /\ pc = "checkpoint" /\ pc' = "freeze" /\ opt.checkpoints = "all"
  /\ MarshalBodies
  /\ UNCHANGED <<step, device, files>>

(* Otherwise, and after the checkpoint, the step is over.                   *)
NextStep ==
  /\ pc \in {"checkpoint", "written"} /\ step < NStep
  /\ step' = step + 1 /\ pc' = "loop"
  /\ UNCHANGED <<host, dirty, device, files>>

(* nbWriteCheckpoint: the temporary file is written, then renamed.          *)
FreezeState ==
  /\ pc = "freeze" /\ pc' = "rename"
  /\ tmp' = [step |-> step, bodies |-> host]
  /\ UNCHANGED <<step, host, dirty, device, opt, ckpt, out, kills>>

RenameTmp ==
  /\ pc = "rename" /\ pc' = "written"
  /\ ckpt' = tmp /\ tmp' = NoFile
  /\ UNCHANGED <<step, host, dirty, device, opt, out, kills>>

(* The end of nbRunSystemCL: the final bodies, and the final checkpoint     *)
(* when checkpoints are made at all.                                        *)
FinalBodies ==
  /\ pc = "end" /\ pc' = IF opt.checkpoints = "none" THEN "report" ELSE "freeze"
  /\ MarshalBodies
  /\ UNCHANGED <<step, device, files>>

FinalWritten ==
  /\ pc = "written" /\ step >= NStep
  /\ pc' = "report"
  /\ UNCHANGED <<step, host, dirty, device, files>>

(* nbReportResults.                                                         *)
ReportResults ==
  /\ pc = "report" /\ pc' = "remove"
  /\ out' = [step |-> step, bodies |-> host]
  /\ UNCHANGED <<step, host, dirty, device, opt, tmp, ckpt, kills>>

(* Main removes the checkpoint, also when the run has failed.               *)
RemoveCheckpoint ==
  /\ pc \in {"remove", "giveup"}
  /\ pc' = IF pc = "remove" THEN "done" ELSE "failed"
  /\ ckpt' = NoFile
  /\ UNCHANGED <<step, host, dirty, device, opt, tmp, out, kills>>

(* An OpenCL call or a file operation fails: the run is given up.           *)
OperationFails ==
  /\ MayFail /\ pc \in {"prestep", "loop", "step", "checkpoint", "freeze", "rename", "end"}
  /\ pc' = "giveup"
  /\ UNCHANGED <<step, host, dirty, device, files>>

(* The process is killed; the device's memory goes with it.                 *)
Kill ==
  /\ pc \notin {"start", "done", "failed"} /\ kills < MaxKills
  /\ pc' = "start" /\ kills' = kills + 1
  /\ step' = 0 /\ host' = Bodies0 /\ dirty' = FALSE
  /\ dev' = Bodies0 /\ acc' = NoAcc /\ code' = "ok"
  /\ UNCHANGED <<opt, tmp, ckpt, out>>

Advance ==
  \/ NewRun \/ Resume \/ RunPreStep \/ CheckKernelErrorCode \/ EndLoop \/ StepSystemCL
  \/ UpdateDisplayedBodies \/ CheckpointCL \/ NextStep \/ FreezeState \/ RenameTmp
  \/ FinalBodies \/ FinalWritten \/ ReportResults \/ RemoveCheckpoint

Next == Advance \/ OperationFails \/ Kill

Spec == Init /\ [][Next]_vars

(* A process that is not killed goes on.                                    *)
FairSpec == Spec /\ WF_vars(Advance)

-----------------------------------------------------------------------------
(* Properties.                                                              *)

Moves == 0 .. NStep + MaxKills
Bodies == [moved : Moves, owed : SUBSET Moves, bare : SUBSET Moves,
           resumed : SUBSET Moves, faulty : SUBSET Moves]
Saved == [step : 0 .. NStep, bodies : Bodies] \cup {NoFile}

(* The bodies on the device, on the host and in the files have their type,  *)
(* and are moved at most once more than there are steps for every kill.     *)
TypeOK ==
  /\ opt \in Options
  /\ pc \in {"start", "prestep", "loop", "step", "display", "checkpoint", "freeze", "rename",
             "written", "end", "report", "remove", "giveup", "done", "failed"}
  /\ step \in 0 .. NStep /\ kills \in 0 .. MaxKills /\ dirty \in BOOLEAN
  /\ host \in Bodies /\ dev \in Bodies
  /\ acc \in [at : Moves \cup {-1}, lmc : BOOLEAN, bad : BOOLEAN]
  /\ code \in {"ok", "incest", "fault"}
  /\ tmp \in Saved /\ ckpt \in Saved /\ out \in Saved

(* Bodies have been moved once for every step, and once more for every      *)
(* checkpoint that was resumed on the way, and what is saved and reported   *)
(* are the bodies of the device: no step is skipped, none is repeated       *)
(* without a resume, and the flag that lets nbMarshalBodies skip the copy,  *)
(* which display and checkpoint both clear, never skips one that is needed. *)
StepsAccounted ==
  /\ pc \in {"freeze", "report"} => host = dev
  /\ pc \in {"prestep", "loop", "step", "end", "report"} =>
       dev.moved = step + Cardinality(dev.resumed)
  /\ out # NoFile => out.bodies.moved = NStep + Cardinality(out.bodies.resumed)

(* Every move gets the second half of its velocity correction in the next   *)
(* step, except the last and those that a resume came between; with the LMC *)
(* every move does, and only the first move of a process lacks its pull.    *)
KicksAccounted ==
  out # NoFile =>
    LET b == out.bodies
    IN  /\ b.owed = IF opt.lmc THEN {} ELSE {b.moved} \cup (b.resumed \ {0})
        /\ opt.lmc => b.bare = {1} \cup {n + 1 : n \in b.resumed}

(* Bodies that the kernels have failed on are not reported, except when     *)
(* they failed in the last step or in one whose checkpoint was resumed,     *)
(* where the error code is never looked at.                                 *)
FaultsNoticed ==
  out # NoFile /\ ~opt.allowIncest =>
    out.bodies.faulty \subseteq {out.bodies.moved} \cup out.bodies.resumed

(* A checkpoint, once renamed, is replaced only by one of later bodies or   *)
(* of a later step, and removed only when the process has ended its run.    *)
ProgressKept ==
  [][ckpt # NoFile /\ ckpt' # ckpt =>
       \/ ckpt' = NoFile /\ pc' \in {"done", "failed"}
       \/ ckpt'.bodies.moved > ckpt.bodies.moved
       \/ ckpt'.bodies.moved = ckpt.bodies.moved /\ ckpt'.step > ckpt.step]_vars

(* The run ends, whatever fails and however often it is killed.             *)
RunEnds == <>(pc \in {"done", "failed"})

(* Bodies that were checkpointed and resumed are those of a run that was    *)
(* not interrupted.                                                         *)
SameAsUninterrupted ==
  out # NoFile => out.bodies.moved = NStep /\ out.bodies.owed \subseteq {NStep}

-----------------------------------------------------------------------------
(* The inductive invariant behind the safety properties.                    *)

(* The process works on bodies on the device.                               *)
Live == {"prestep", "loop", "step", "display", "checkpoint", "freeze", "rename", "written",
         "end", "report"}

(* The bodies were moved and the step is not counted yet.                   *)
Uncounted == pc \in {"display", "checkpoint"} \/ (pc \in {"freeze", "rename", "written"} /\ step < NStep)

(* The velocity corrections of bodies, at any time: those that a resume     *)
(* came between are missing, and that of the last move.                     *)
KicksOK(b, o) ==
  /\ ~o.lmc => /\ b.owed = ({b.moved} \ {0}) \cup b.resumed
               /\ b.bare = {}
  /\ o.lmc => /\ b.owed = {}
              /\ b.bare = ({1} \cap 1 .. b.moved) \cup {n + 1 : n \in {r \in b.resumed : r < b.moved}}

(* All bodies there are, in memory and in files, after k kills.             *)
BodiesOK(b, o, k) ==
  /\ b \in [moved : Nat, owed : SUBSET Nat, bare : SUBSET Nat, resumed : SUBSET Nat, faulty : SUBSET Nat]
  /\ IsFiniteSet(b.resumed) /\ Cardinality(b.resumed) <= k
  /\ b.moved <= NStep + Cardinality(b.resumed)
  /\ b.resumed \subseteq 1 .. b.moved /\ b.faulty \subseteq 1 .. b.moved
  /\ KicksOK(b, o)

(* Bodies that a process has not moved yet, and those it has.               *)
Unmoved(b) == (b.moved = 0 /\ b.resumed = {}) \/ b.moved \in b.resumed
HasMoved(b) == b.moved >= 1 /\ b.moved \notin b.resumed

(* The fault of a move is behind it, or behind a resume.                    *)
FaultsOK(b, o) == o.allowIncest \/ b.faulty \subseteq {b.moved} \cup b.resumed

(* A file has the bodies of its step: in the middle of a run, moved once    *)
(* more than the step says.                                                 *)
FileOK(f, o, k) ==
  f # NoFile =>
    /\ f = [step |-> f.step, bodies |-> f.bodies] /\ f.step \in 0 .. NStep
    /\ BodiesOK(f.bodies, o, k) /\ HasMoved(f.bodies) /\ FaultsOK(f.bodies, o)
    /\ f.bodies.moved = f.step + Cardinality(f.bodies.resumed) + (IF f.step < NStep THEN 1 ELSE 0)

DeviceInv ==
  /\ BodiesOK(dev, opt, kills) /\ BodiesOK(host, opt, kills)
  /\ pc \in Live =>
       /\ dev.moved = step + Cardinality(dev.resumed) + (IF Uncounted THEN 1 ELSE 0)
       /\ ~dirty => host = dev
       /\ pc \in {"freeze", "rename", "written", "report"} => ~dirty
       /\ pc \in {"step", "display", "checkpoint"} => step < NStep
       /\ pc \in {"end", "report"} => step = NStep
  /\ pc = "remove" => step = NStep

(* The accelerations belong to the positions before the last move of this   *)
(* process, or to those it began with.                                      *)
AccInv ==
  /\ acc.at \in Int /\ acc.lmc \in BOOLEAN /\ acc.bad \in BOOLEAN
  /\ pc = "prestep" => IF step < NStep THEN Unmoved(dev) ELSE HasMoved(dev)
  /\ pc \in Live \ {"prestep"} =>
       \/ HasMoved(dev) /\ (step < NStep => acc.lmc = opt.lmc /\ (~opt.lmc => acc.at = dev.moved - 1))
       \/ Unmoved(dev) /\ pc \in {"loop", "step"} /\ step < NStep /\ acc.at = dev.moved /\ ~acc.lmc

(* Where incest is not allowed, a code that is not ok stops the process at  *)
(* the top of the loop.                                                     *)
FaultInv ==
  pc \in Live =>
    /\ FaultsOK(dev, opt)
    /\ code = "ok" => ~acc.bad
    /\ ~opt.allowIncest =>
         /\ pc = "step" => code = "ok"
         /\ code = "ok" /\ step < NStep => dev.faulty \subseteq dev.resumed

FilesInv ==
  /\ FileOK(tmp, opt, kills) /\ FileOK(ckpt, opt, kills) /\ FileOK(out, opt, kills)
  /\ pc = "rename" => tmp = [step |-> step, bodies |-> host]
  /\ out # NoFile => out.step = NStep

(* The device is never behind the checkpoint, which is never more than what *)
(* a kill has left.                                                         *)
AheadInv ==
  ckpt # NoFile =>
    /\ pc = "start" => Cardinality(ckpt.bodies.resumed) < kills
    /\ pc \in Live =>
         /\ dev.moved >= ckpt.bodies.moved /\ step >= ckpt.step
         /\ Uncounted /\ pc # "written" => dev.moved > ckpt.bodies.moved
         /\ step = NStep => ckpt.step < NStep \/ ckpt.bodies = dev

IInv == TypeOK /\ DeviceInv /\ AccInv /\ FaultInv /\ FilesInv /\ AheadInv

=============================================================================
