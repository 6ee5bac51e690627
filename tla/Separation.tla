---------------------------- MODULE Separation ----------------------------
(***************************************************************************)
(* The separation application: worker() takes the work units bundled in    *)
(* one task one after the other; evaluate() integrates the probability of  *)
(* each over the cuts of the wedge, point by point on the CPU or one row   *)
(* of points at a time on an OpenCL device, then prints the likelihood.    *)
(* One checkpoint file, rewritten through a temporary, carries the state   *)
(* over kills of the process.                                              *)
(*                                                                         *)
(* A Kahan sum is abstracted to how many times each point of each work     *)
(* unit was added to it; the sum over r and the streams, which no          *)
(* checkpoint splits, are left out.                                        *)
(***************************************************************************)
EXTENDS Integers

CONSTANTS
    TotalWUs,           \* ap->totalWUs
    NCuts,              \* ap->number_integrals
    NuSteps, MuSteps,   \* ia->nu_steps, ia->mu_steps, the same for each cut
    CheckpointSpacing,  \* ia->nu_steps / 10, how far apart device checkpoints are
    UIntMod,            \* 2^w of the unsigned int nu_step
    Tasks,              \* how the task may be run, see below
    MaxPrints           \* bound of the count of prints

ASSUME SizeAssumption ==
    /\ TotalWUs \in Nat \ {0} /\ NCuts \in Nat \ {0}
    /\ NuSteps \in Nat \ {0} /\ MuSteps \in Nat \ {0}
ASSUME DeviceAssumption ==
    CheckpointSpacing \in Nat /\ UIntMod \in Nat /\ UIntMod > NuSteps
ASSUME TaskAssumption ==
    /\ Tasks \subseteq [useCL : BOOLEAN,     \* integrateCL instead of integrate
                        cleanup : BOOLEAN,   \* sf.cleanupCheckpoint
                        hardKill : BOOLEAN,  \* kills inside critical sections too
                        mayFail : BOOLEAN]   \* files and integrals may fail
    /\ MaxPrints \in Nat \ {0}

VARIABLES
    task,       \* the task: a member of Tasks
    blind,      \* evaluate() gives up before it looks for a checkpoint
    pc,         \* where the process is
    back,       \* where writeCheckpoint returns to
    apWU,       \* ap.currentWU
    ignore,     \* ignoreCheckpoint
    rc,         \* what evaluate returned last: failed or not
    esWU, printed, cut, nu, mu,   \* the EvaluationState
    sum,        \* es->bgSum
    sumCk,      \* es->bgSumCheckpoint
    last,       \* es->lastCheckpointNuStep
    cuts,       \* es->cuts[].bgIntegral
    dev,        \* the output buffer of the device
    ckpt, tmp,  \* the checkpoint file and its temporary
    prints      \* how often each work unit's result was printed

es == <<esWU, printed, cut, nu, mu, sum, sumCk, last, cuts>>
ctl == <<task, blind, back, apWU, ignore, rc>>
vars == <<pc, task, blind, back, apWU, ignore, rc, esWU, printed, cut, nu, mu, sum, sumCk, last, cuts,
          dev, ckpt, tmp, prints>>

WUs == 0..(TotalWUs - 1)
Cuts == 0..(NCuts - 1)
Points == WUs \X (0..(NuSteps - 1)) \X (0..(MuSteps - 1))
Sums == [Points -> Nat]
Zero == [p \in Points |-> 0]
Plus(f, g) == [p \in Points |-> f[p] + g[p]]

NoFile == [kind |-> "none"]
Torn == [kind |-> "torn"]
Saves == [kind : {"whole"}, wu : WUs, printed : BOOLEAN, cut : 0..NCuts, nu : 0..NuSteps,
          mu : 0..(MuSteps - 1), sum : Sums, sumCk : Sums, last : 0..NuSteps,
          cuts : [Cuts -> Sums]]

TypeOK ==
    /\ task \in Tasks
    /\ pc \in {"down", "eval", "integrate", "open", "write", "rename", "likelihood", "print",
               "next", "exit", "finish", "failed", "done"}
    /\ back \in {"integrate", "likelihood", "next"}
    /\ apWU \in 0..TotalWUs
    /\ blind \in BOOLEAN /\ ignore \in BOOLEAN /\ rc \in BOOLEAN /\ printed \in BOOLEAN
    /\ esWU \in WUs
    /\ cut \in 0..NCuts
    /\ nu \in 0..NuSteps /\ mu \in 0..(MuSteps - 1) /\ last \in 0..NuSteps
    /\ sum \in Sums /\ sumCk \in Sums /\ dev \in Sums
    /\ cuts \in [Cuts -> Sums]
    /\ ckpt \in {NoFile, Torn} \cup Saves
    /\ tmp \in {NoFile, Torn} \cup Saves
    /\ prints \in [WUs -> 0..MaxPrints]

Init ==
    /\ task \in Tasks
    /\ pc = "down" /\ blind = FALSE
    /\ back = "integrate" /\ apWU = 0 /\ ignore = FALSE /\ rc = FALSE
    /\ esWU = 0 /\ printed = FALSE /\ cut = 0 /\ nu = 0 /\ mu = 0 /\ last = 0
    /\ sum = Zero /\ sumCk = Zero /\ dev = Zero
    /\ cuts = [c \in Cuts |-> Zero]
    /\ ckpt = NoFile
    /\ tmp = NoFile
    /\ prints = [w \in WUs |-> 0]

-----------------------------------------------------------------------------
(* worker() and the beginning of evaluate(). *)

\* Whether the CPU has the instructions asked for, and the name of the checkpoint
\* file, are the same for all the work units of a process.
Start ==
    /\ pc = "down"
    /\ \E b \in BOOLEAN : blind' = b /\ (b => task.mayFail)
    /\ pc' = "eval"
    /\ UNCHANGED <<task, back, apWU, ignore, rc, es, dev, ckpt, tmp, prints>>

\* newEvaluationState for the current work unit.
Fresh ==
    /\ esWU' = apWU /\ printed' = FALSE /\ cut' = 0 /\ nu' = 0 /\ mu' = 0 /\ last' = 0
    /\ sum' = Zero /\ sumCk' = Zero
    /\ cuts' = [c \in Cuts |-> Zero]

\* Mutant: the device's sums of earlier incarnations are not added.
ReadKeepingTmpSums ==
    /\ esWU' = ckpt.wu /\ printed' = ckpt.printed /\ cut' = ckpt.cut /\ nu' = ckpt.nu
    /\ mu' = ckpt.mu /\ last' = ckpt.last
    /\ sum' = ckpt.sum /\ sumCk' = ckpt.sumCk
    /\ cuts' = ckpt.cuts

\* readCheckpoint, which ends with addTmpCheckpointSums.
Read ==
    /\ esWU' = ckpt.wu /\ printed' = ckpt.printed /\ cut' = ckpt.cut /\ nu' = ckpt.nu
    /\ mu' = ckpt.mu /\ last' = ckpt.last
    /\ sum' = Plus(ckpt.sum, ckpt.sumCk) /\ sumCk' = Zero
    /\ cuts' = ckpt.cuts

\* probabilityFunctionDispatch or resolveCheckpoint failed.
EvaluateFails ==
    /\ pc = "eval"
    /\ blind
    /\ rc' = TRUE
    /\ pc' = "next"
    /\ UNCHANGED <<task, blind, back, apWU, ignore, es, dev, ckpt, tmp, prints>>

\* No checkpoint, or one to be ignored.
EvaluateNew ==
    /\ pc = "eval" /\ ~blind
    /\ ignore \/ ckpt = NoFile
    /\ Fresh
    /\ ignore' = TRUE
    /\ rc' = FALSE
    /\ dev' = Zero
    /\ pc' = "integrate"
    /\ UNCHANGED <<task, blind, back, apWU, ckpt, tmp, prints>>

\* A file that is cut short lacks the tail readState looks for.
ReadFails ==
    /\ pc = "eval" /\ ~blind
    /\ ~ignore
    /\ ckpt # NoFile
    /\ task.mayFail \/ ckpt = Torn
    /\ ckpt' = NoFile
    /\ rc' = TRUE
    /\ pc' = "next"
    /\ UNCHANGED <<task, blind, back, apWU, ignore, es, dev, tmp, prints>>

\* Mutant: the loop's increment is forgotten.
SkipPastCheckpointed ==
    /\ pc = "eval" /\ ~blind
    /\ ~ignore
    /\ ckpt.kind = "whole"
    /\ ckpt.wu > apWU
    /\ Read
    /\ apWU' = ckpt.wu
    /\ ignore' = ckpt.printed
    /\ rc' = FALSE
    /\ pc' = "next"
    /\ UNCHANGED <<task, blind, back, dev, ckpt, tmp, prints>>

\* The checkpoint is of a later work unit: come back to it after the loop's
\* increment, without the checkpoint if its result was already printed.
SkipToCheckpointed ==
    /\ pc = "eval" /\ ~blind
    /\ ~ignore
    /\ ckpt.kind = "whole"
    /\ ckpt.wu > apWU
    /\ Read
    /\ apWU' = ckpt.wu - 1
    /\ ignore' = ckpt.printed
    /\ rc' = FALSE
    /\ pc' = "next"
    /\ UNCHANGED <<task, blind, back, dev, ckpt, tmp, prints>>

\* The checkpoint is of this work unit (or, never, of an earlier one), whose
\* result was printed: move on.
SkipPrinted ==
    /\ pc = "eval" /\ ~blind
    /\ ~ignore
    /\ ckpt.kind = "whole"
    /\ ckpt.wu <= apWU
    /\ ckpt.printed
    /\ Read
    /\ ignore' = TRUE
    /\ rc' = FALSE
    /\ pc' = "next"
    /\ UNCHANGED <<task, blind, back, apWU, dev, ckpt, tmp, prints>>

\* Mutant: the checkpoint is found and not used.
EvaluateResumedAfresh ==
    /\ pc = "eval" /\ ~blind
    /\ ~ignore
    /\ ckpt.kind = "whole"
    /\ ckpt.wu <= apWU
    /\ ~ckpt.printed
    /\ Fresh
    /\ ignore' = TRUE
    /\ rc' = FALSE
    /\ dev' = Zero
    /\ pc' = "integrate"
    /\ UNCHANGED <<task, blind, back, apWU, ckpt, tmp, prints>>

\* integralsAreDone: straight to the likelihood.
EvaluateResumed ==
    /\ pc = "eval" /\ ~blind
    /\ ~ignore
    /\ ckpt.kind = "whole"
    /\ ckpt.wu <= apWU
    /\ ~ckpt.printed
    /\ Read
    /\ ignore' = TRUE
    /\ rc' = FALSE
    /\ dev' = Zero
    /\ pc' = IF ckpt.cut >= NCuts THEN "likelihood" ELSE "integrate"
    /\ UNCHANGED <<task, blind, back, apWU, ckpt, tmp, prints>>

-----------------------------------------------------------------------------
(* calculateIntegrals: integrate on the CPU, integrateCL on the device. *)

Here == <<apWU, nu, mu>>

\* One turn of mu_sum's loop: r_sum, then the next mu_step or the next nu_step.
MuStep ==
    /\ pc = "integrate" /\ ~task.useCL
    /\ cut < NCuts /\ nu < NuSteps
    /\ sum' = [sum EXCEPT ![Here] = @ + 1]
    /\ mu' = IF mu + 1 = MuSteps THEN 0 ELSE mu + 1
    /\ nu' = IF mu + 1 = MuSteps THEN nu + 1 ELSE nu
    /\ UNCHANGED <<pc, ctl, esWU, printed, cut, sumCk, last, cuts, dev, ckpt, tmp, prints>>

\* The points of row n of the current work unit.
Row(n) == [p \in Points |-> IF p[1] = apWU /\ p[2] = n THEN 1 ELSE 0]

\* runNuStep: all the chunks of a row are added to the buffer of the device.
\* A quit request between two chunks ends the process, a Crash.
RunNuStep ==
    /\ pc = "integrate" /\ task.useCL
    /\ cut < NCuts /\ nu < NuSteps
    /\ dev' = Plus(dev, Row(nu))
    /\ nu' = nu + 1
    /\ UNCHANGED <<pc, ctl, esWU, printed, cut, mu, sum, sumCk, last, cuts, ckpt, tmp, prints>>

\* doBoincCheckpoint, before a point is added.
TimeToCheckpoint ==
    /\ pc = "integrate" /\ ~task.useCL
    /\ cut < NCuts /\ nu < NuSteps
    /\ back' = "integrate"
    /\ pc' = "open"
    /\ UNCHANGED <<task, blind, apWU, ignore, rc, es, dev, ckpt, tmp, prints>>

\* timeToCheckpointGPU with its unsigned difference, and readKernelResults of checkpointCL.
TimeToCheckpointGPU ==
    /\ pc = "integrate" /\ task.useCL
    /\ cut < NCuts /\ nu < NuSteps
    /\ (nu - last) % UIntMod >= CheckpointSpacing
    /\ sumCk' = dev
    /\ back' = "integrate"
    /\ pc' = "open"
    /\ UNCHANGED <<task, blind, apWU, ignore, rc, esWU, printed, cut, nu, mu, sum, last, cuts, dev, ckpt,
                   tmp, prints>>

\* The integral is the sum: on the device the buffer is read and added to the
\* sums of earlier incarnations first.  The sums are cleared for the next cut,
\* which gets a new buffer.
EndIntegral ==
    /\ pc = "integrate"
    /\ cut < NCuts /\ nu = NuSteps
    /\ cuts' = [cuts EXCEPT ![cut] = Plus(sum, dev)]
    /\ sum' = Zero
    /\ sumCk' = IF task.useCL THEN Zero ELSE sumCk
    /\ dev' = Zero
    /\ nu' = 0
    /\ cut' = cut + 1
    /\ UNCHANGED <<pc, ctl, esWU, printed, mu, last, ckpt, tmp, prints>>

\* integrate or the device failed, or the integral is not a number.
IntegralFails ==
    /\ task.mayFail
    /\ pc = "integrate"
    /\ cut < NCuts
    /\ rc' = TRUE
    /\ pc' = "next"
    /\ UNCHANGED <<task, blind, back, apWU, ignore, es, dev, ckpt, tmp, prints>>

FinalCheckpoint ==
    /\ pc = "integrate"
    /\ cut = NCuts
    /\ back' = "likelihood"
    /\ pc' = "open"
    /\ UNCHANGED <<task, blind, apWU, ignore, rc, es, dev, ckpt, tmp, prints>>

-----------------------------------------------------------------------------
(* writeCheckpoint. *)

Open ==
    /\ pc = "open"
    /\ tmp' = Torn
    /\ last' = nu
    /\ pc' = "write"
    /\ UNCHANGED <<ctl, esWU, printed, cut, nu, mu, sum, sumCk, cuts, dev, ckpt, prints>>

Saved == [kind |-> "whole", wu |-> esWU, printed |-> printed, cut |-> cut, nu |-> nu, mu |-> mu,
          sum |-> sum, sumCk |-> sumCk, last |-> last, cuts |-> cuts]

WriteState ==
    /\ pc = "write"
    /\ tmp' = Saved
    /\ pc' = "rename"
    /\ UNCHANGED <<ctl, es, dev, ckpt, prints>>

\* The results of fwrite and fclose are not looked at: a full disk cuts the
\* file short and it is renamed all the same.
WriteTruncated ==
    /\ task.mayFail
    /\ pc = "write"
    /\ tmp' = Torn
    /\ pc' = "rename"
    /\ UNCHANGED <<ctl, es, dev, ckpt, prints>>

RenameTmp ==
    /\ pc = "rename"
    /\ ckpt' = tmp
    /\ tmp' = NoFile
    /\ pc' = back
    /\ UNCHANGED <<ctl, es, dev, prints>>

\* Without a checkpoint the integration gives up (mw_fail); what comes after it
\* goes on with a warning.
WriteFails ==
    /\ task.mayFail
    /\ pc \in {"open", "rename"}
    /\ pc' = IF back # "integrate" THEN back ELSE IF task.useCL THEN "next" ELSE "failed"
    /\ rc' = IF back = "integrate" THEN TRUE ELSE rc
    /\ UNCHANGED <<task, blind, back, apWU, ignore, es, dev, ckpt, tmp, prints>>

-----------------------------------------------------------------------------
(* The rest of evaluate() and of worker(). *)

\* The separation output file may not open: evaluate() prints and returns 1.
Likelihood ==
    /\ pc = "likelihood"
    /\ \E fails \in BOOLEAN : rc' = fails /\ (fails => task.mayFail)
    /\ pc' = "print"
    /\ UNCHANGED <<task, blind, back, apWU, ignore, es, dev, ckpt, tmp, prints>>

StarPointsFail ==
    /\ task.mayFail
    /\ pc = "likelihood"
    /\ rc' = TRUE
    /\ pc' = "next"
    /\ UNCHANGED <<task, blind, back, apWU, ignore, es, dev, ckpt, tmp, prints>>

CountPrint(w) == [prints EXCEPT ![w] = IF @ = MaxPrints THEN @ ELSE @ + 1]

\* Mutant: the printed flag is not set.
PrintUnmarked ==
    /\ pc = "print"
    /\ prints' = CountPrint(apWU)
    /\ back' = "next"
    /\ pc' = "open"
    /\ UNCHANGED <<task, blind, apWU, ignore, rc, es, dev, ckpt, tmp>>

\* printSeparationResults, then the checkpoint that says so.
PrintResults ==
    /\ pc = "print"
    /\ prints' = CountPrint(apWU)
    /\ printed' = TRUE
    /\ back' = "next"
    /\ pc' = "open"
    /\ UNCHANGED <<task, blind, apWU, ignore, rc, esWU, cut, nu, mu, sum, sumCk, last, cuts, dev,
                   ckpt, tmp>>

NextWU ==
    /\ pc = "next"
    /\ apWU' = apWU + 1
    /\ pc' = IF apWU + 1 < TotalWUs THEN "eval" ELSE "exit"
    /\ UNCHANGED <<task, blind, back, ignore, rc, es, dev, ckpt, tmp, prints>>

\* main removes the checkpoint after a success, if it was asked to.
Cleanup ==
    /\ pc = "exit"
    /\ task.cleanup
    /\ ~rc
    /\ ckpt' = NoFile
    /\ pc' = "finish"
    /\ UNCHANGED <<ctl, es, dev, tmp, prints>>

Finish ==
    /\ pc = "finish" \/ (pc = "exit" /\ (rc \/ ~task.cleanup))
    /\ pc' = "done"
    /\ UNCHANGED <<ctl, es, dev, ckpt, tmp, prints>>

-----------------------------------------------------------------------------
\* Between mw_begin_critical_section and mw_end_critical_section.
Critical == pc \in {"open", "write", "rename"} /\ back # "integrate"

Crash ==
    /\ pc \notin {"down", "failed", "done"}
    /\ Critical => task.hardKill
    /\ pc' = "down" /\ blind' = FALSE
    /\ back' = "integrate" /\ apWU' = 0 /\ ignore' = FALSE /\ rc' = FALSE
    /\ esWU' = 0 /\ printed' = FALSE /\ cut' = 0 /\ nu' = 0 /\ mu' = 0 /\ last' = 0
    /\ sum' = Zero /\ sumCk' = Zero /\ dev' = Zero
    /\ cuts' = [c \in Cuts |-> Zero]
    /\ UNCHANGED <<task, ckpt, tmp, prints>>

Over == pc \in {"failed", "done"} /\ UNCHANGED vars

Evaluate == EvaluateFails \/ EvaluateNew \/ ReadFails \/ SkipToCheckpointed \/ SkipPrinted
            \/ EvaluateResumed
Integrate == MuStep \/ RunNuStep \/ TimeToCheckpoint \/ TimeToCheckpointGPU \/ EndIntegral
             \/ IntegralFails \/ FinalCheckpoint
WriteCheckpoint == Open \/ WriteState \/ WriteTruncated \/ RenameTmp \/ WriteFails
Conclude == Likelihood \/ StarPointsFail \/ PrintResults \/ NextWU \/ Cleanup \/ Finish

Next == Start \/ Evaluate \/ Integrate \/ WriteCheckpoint \/ Conclude \/ Crash \/ Over

Spec == Init /\ [][Next]_vars

-----------------------------------------------------------------------------
(* Properties. *)

\* Each point of work unit w before (n, m) was added once, and nothing else was.
Counted(w, n, m) ==
    [p \in Points |-> IF p[1] = w /\ (p[2] < n \/ (p[2] = n /\ p[3] < m)) THEN 1 ELSE 0]
Exact(w) == Counted(w, NuSteps, 0)

\* The result printed for a work unit is its own: every integral has each of
\* its points once, however the work was split over kills, checkpoints and
\* the device's buffer, and none of another work unit.
ResultsExact == pc \in {"likelihood", "print"} => \A c \in Cuts : cuts[c] = Exact(apWU)

\* When a task in which nothing fails is over, a result was printed for each of
\* its work units.
NothingSkipped ==
    pc \in {"exit", "finish", "done"} /\ ~task.mayFail => \A w \in WUs : prints[w] >= 1

\* The result of the first work unit is printed once: the kill of a process
\* outside its critical sections never makes the next one print it again, if
\* nothing fails and the checkpoint is kept.  (A later unit can be printed
\* again: evaluate() comes back to the unit of a printed checkpoint.)
Undisturbed == ~task.hardKill /\ ~task.mayFail /\ ~task.cleanup
FirstPrintedOnce == Undisturbed => prints[0] <= 1

\* How far a checkpoint is.
Position(f) ==
    LET points == NuSteps * MuSteps
        inside == f.cut * points + f.nu * MuSteps + f.mu
    IN  f.wu * (NCuts * points + 2) + inside + IF f.printed THEN 1 ELSE 0

\* Until its work unit is printed, a checkpoint is replaced only by one that is
\* further on.
ProgressKept ==
    [][ckpt.kind = "whole" /\ ckpt'.kind = "whole" /\ ~ckpt.printed
         => Position(ckpt') >= Position(ckpt)]_vars

-----------------------------------------------------------------------------
(* The inductive invariant behind the safety properties. *)

\* evaluate() is past its checkpoint; and it is in writeCheckpoint.
Working == pc \in {"integrate", "open", "write", "rename", "likelihood", "print"}
Writing == pc \in {"open", "write", "rename"}

ControlInv ==
    /\ blind => task.mayFail
    /\ pc \in {"eval", "next"} \/ Working => apWU \in WUs
    /\ Working => /\ ignore /\ esWU = apWU
                  /\ printed <=> Writing /\ back = "next"
    /\ pc \in {"likelihood", "print"} => cut = NCuts
    /\ Writing => (cut < NCuts <=> back = "integrate")
    /\ pc = "down" => apWU = 0 /\ ~ignore
    /\ pc = "eval" /\ apWU = 0 => ~ignore

\* The sums of the process and its device have each point behind it once; what
\* it has read back from the device is what it saves.
SumsInv == Working =>
    /\ Plus(sum, dev) = Counted(apWU, nu, mu)
    /\ Writing \/ cut = NCuts => Plus(sum, sumCk) = Counted(apWU, nu, mu)
    /\ \A c \in Cuts : c < cut => cuts[c] = Exact(apWU)
    /\ nu = NuSteps \/ task.useCL => mu = 0
    /\ cut = NCuts => nu = 0 /\ mu = 0
    /\ ~task.useCL => sumCk = Zero /\ dev = Zero

\* The same of a whole checkpoint file, made on a device or not.
WholeOK(f, useCL) == f.kind = "whole" =>
    /\ Plus(f.sum, f.sumCk) = Counted(f.wu, f.nu, f.mu)
    /\ \A c \in Cuts : c < f.cut => f.cuts[c] = Exact(f.wu)
    /\ f.nu = NuSteps \/ useCL => f.mu = 0
    /\ f.cut = NCuts => f.nu = 0 /\ f.mu = 0
    /\ f.printed => f.cut = NCuts

FilesInv ==
    /\ WholeOK(ckpt, task.useCL)
    /\ pc = "rename" => tmp \in {Torn, Saved}

\* A checkpoint that is still to be read is not of an earlier work unit.
ResumeInv ==
    ckpt.kind = "whole" /\ ~ignore /\ ~blind =>
        /\ pc \in {"down", "eval"} => ckpt.wu >= apWU
        /\ pc = "next" => ckpt.wu > apWU

\* One that was read, or that is to be ignored, is not ahead of the process.
AheadInv ==
    ckpt.kind = "whole" /\ ~ckpt.printed /\ ignore =>
        /\ pc = "eval" => ckpt.wu < apWU
        /\ pc = "next" => ckpt.wu <= apWU
        /\ Working => ckpt.wu <= apWU /\ Position(ckpt) <= Position(Saved)

\* Where nothing fails, the work units before the current one and before that
\* of the checkpoint are printed.
PrintedInv == ~task.mayFail =>
    /\ ckpt # Torn /\ (pc = "rename" => tmp # Torn)
    /\ \A w \in WUs : w < apWU => prints[w] >= 1
    /\ pc = "next" \/ (Writing /\ back = "next") => prints[apWU] >= 1
    /\ pc \in {"exit", "finish", "done"} => apWU = TotalWUs
    /\ ckpt.kind = "whole" => /\ \A w \in WUs : w < ckpt.wu => prints[w] >= 1
                              /\ ckpt.printed => prints[ckpt.wu] >= 1

\* That the first work unit was printed is in the checkpoint, or about to be.
FirstInv == Undisturbed =>
    /\ prints[0] <= 1
    /\ prints[0] = 1 => \/ ckpt.kind = "whole" /\ (ckpt.wu > 0 \/ ckpt.printed)
                        \/ Writing /\ back = "next" /\ apWU = 0
    /\ Working /\ apWU = 0 /\ ~(Writing /\ back = "next") => prints[0] = 0

IInv == TypeOK /\ ControlInv /\ SumsInv /\ FilesInv /\ ResumeInv /\ AheadInv /\ PrintedInv /\ FirstInv
=============================================================================
