----------------------------- MODULE NBodyRun -----------------------------
(***************************************************************************)
(* The life of an n-body work unit on a volunteer's machine, from nbMain   *)
(* to the removal of its checkpoint: resume or set up, integrate step by   *)
(* step keeping the best likelihood of the window, checkpoint through a    *)
(* temporary file, repeat for the calibration runs of an orbiting bar,     *)
(* report.  The process may be killed between any two operations on a file *)
(* and is then started again by the BOINC client in the same directory.    *)
(*                                                                         *)
(* The bodies are abstracted to the step they are at and to the set of     *)
(* forward times they were integrated with; the likelihood of a step is    *)
(* an input, fixed for the whole behaviour because stepping is             *)
(* deterministic.                                                          *)
(***************************************************************************)
EXTENDS Integers, FiniteSets

CONSTANTS
    NStep,            \* ctx->nStep
    StartStep,        \* the first step of the best-likelihood window, ctx->BestLikeStart * nStep
    Worst,            \* DEFAULT_WORST_CASE; 1 stands for DEFAULT_BEST_CASE
    Likelihoods,      \* what nbSystemLikelihood may return: 0..Worst, Worst + 1 for infinity, NaN
    CalibrationRuns,  \* ctx->calibrationRuns
    MayCrash,         \* the process may be killed
    MayFail           \* checkpoint files, setup and force evaluation may fail

NaN == -1

ASSUME StepAssumption == NStep \in Nat \ {0} /\ StartStep \in 0..NStep
ASSUME LikelihoodAssumption == Worst \in Nat \ {0, 1} /\ Likelihoods \subseteq -1..(Worst + 1)
ASSUME RunAssumption == CalibrationRuns \in Nat /\ MayCrash \in BOOLEAN /\ MayFail \in BOOLEAN

VARIABLES
    like,         \* nbSystemLikelihood at each step
    useBestLike,  \* ctx->useBestLike
    pc,           \* where the process is; "down" when it is not running
    st,           \* the NBodyState
    i,            \* the calibration loop's counter
    initialState, \* the clone taken before the first run
    rc,           \* NBodyStatus of the current run: fatal or not
    final,        \* the checkpoint being written is nbWriteFinalCheckpoint's
    ckpt,         \* the checkpoint file
    tmp,          \* the temporary file of this process
    hist,         \* the step whose histogram is in the histout file
    out,          \* the step whose bodies are in the output file
    reported,     \* the last <search_likelihood> printed
    acked,        \* history: the step of the last mw_checkpoint_completed
    base          \* history: the step at which the best likelihood was last reset

disk == <<ckpt, tmp, hist, out>>
vars == <<like, useBestLike, pc, st, i, initialState, rc, final, ckpt, tmp, hist, out,
          reported, acked, base>>

Steps == 0..NStep
NoFile == [kind |-> "none"]
Torn == [kind |-> "torn"]

\* Contents of an output file: nothing yet (-1), half written (-2), or a step.
Absent == -1
Partial == -2

\* previousForwardTime: the guess of nbMain (-1) or a best-likelihood time, in steps.
Guess == -1

States == [step : Steps, best : 0..Worst, tab : Steps, time : Steps,
           fwd : Steps \cup {Guess}, fwds : SUBSET (Steps \cup {Guess})]
Files == {NoFile, Torn} \cup [kind : {"whole"}, st : States]

NBodyState(step, best, tab, time, fwd, fwds) ==
    [step |-> step, best |-> best, tab |-> tab, time |-> time, fwd |-> fwd, fwds |-> fwds]

\* setInitialNBodyState, with the forward time nbMain guesses.
Fresh == NBodyState(0, Worst, 0, 0, Guess, {})

Running == {"run", "step", "like", "hist", "check", "open", "freeze", "rename", "ack", "end",
            "bodies", "outwrite", "report", "rehist", "print", "remove", "finish"}

TypeOK ==
    /\ like \in [1..NStep -> Likelihoods]
    /\ useBestLike \in BOOLEAN
    /\ pc \in Running \cup {"down", "done"}
    /\ st \in States
    /\ i \in 0..CalibrationRuns
    /\ initialState \in States
    /\ rc \in {"ok", "fatal"}
    /\ final \in BOOLEAN
    /\ ckpt \in Files
    /\ tmp \in Files
    /\ hist \in Steps \cup {Absent, Partial}
    /\ out \in Steps \cup {Absent, Partial}
    /\ reported \in Likelihoods \cup {Absent} \cup 0..Worst
    /\ acked \in Steps
    /\ base \in Steps

Init ==
    /\ like \in [1..NStep -> Likelihoods]
    /\ useBestLike \in BOOLEAN
    /\ pc = "down"
    /\ st = Fresh
    /\ i = 0
    /\ initialState = Fresh
    /\ rc = "ok"
    /\ final = FALSE
    /\ ckpt = NoFile
    /\ tmp = NoFile
    /\ hist = Absent
    /\ out = Absent
    /\ reported = Absent
    /\ acked = 0
    /\ base = 0

-----------------------------------------------------------------------------
(* Starting: nbResumeOrNewRun. *)

\* clonePartialNBodyState leaves the time of the best likelihood behind, and
\* nbMain guesses the forward time again.
Thawed(s) == NBodyState(s.step, s.best, s.tab, 0, Guess, s.fwds)

Entered ==
    /\ i' = 0
    /\ initialState' = Fresh
    /\ rc' = "ok"
    /\ final' = FALSE

NewRun ==
    /\ pc = "down"
    /\ ckpt = NoFile
    /\ st' = Fresh
    /\ pc' = "run"
    /\ Entered
    /\ UNCHANGED <<like, useBestLike, disk, reported, acked, base>>

\* Mutant: the checkpoint is found and not used.
ResumeFromZero ==
    /\ pc = "down"
    /\ ckpt.kind = "whole"
    /\ st' = Fresh
    /\ pc' = "run"
    /\ Entered
    /\ UNCHANGED <<like, useBestLike, disk, reported, acked, base>>

Resume ==
    /\ pc = "down"
    /\ ckpt.kind = "whole"
    /\ st' = Thawed(ckpt.st)
    /\ pc' = "run"
    /\ Entered
    /\ UNCHANGED <<like, useBestLike, disk, reported, acked, base>>

\* The setup or the checkpoint could not be read: nbMain returns at once, and
\* main removes the checkpoint as after any other run.
StartFails ==
    /\ pc = "down"
    /\ MayFail \/ ckpt = Torn
    /\ rc' = "fatal"
    /\ pc' = "remove"
    /\ UNCHANGED <<like, useBestLike, st, i, initialState, final, disk, reported, acked, base>>

-----------------------------------------------------------------------------
(* One forward evolution: nbRunSystemPlain. *)

\* cloneNBodyState into an empty state, then the forward time of the next run.
Cloned(s, f) == NBodyState(s.step, s.best, s.tab, 0, f, s.fwds)

Reset(s) == NBodyState(s.step, Worst, s.tab, s.time, s.fwd, s.fwds)
Stepped(s) == NBodyState(s.step + 1, s.best, s.tab, s.time, s.fwd, s.fwds \cup {s.fwd})
Improved(s, v) == NBodyState(s.step, v, s.step, s.step, s.fwd, s.fwds)

BeginRun ==
    /\ pc = "run"
    /\ initialState' = IF CalibrationRuns > 0 /\ i = 0 THEN Cloned(st, st.fwd) ELSE initialState
    /\ \/ /\ st' = Reset(st)
          /\ base' = st.step
          /\ pc' = "step"
          /\ rc' = "ok"
       \/ /\ MayFail                       \* the first nbGravMap fails
          /\ pc' = "end"
          /\ rc' = "fatal"
          /\ UNCHANGED <<st, base>>
    /\ UNCHANGED <<like, useBestLike, i, final, disk, reported, acked>>

\* nbStepSystemPlain; a fatal status is looked at only after get_likelihood.
StepSystem ==
    /\ pc = "step"
    /\ st.step < NStep
    /\ st' = Stepped(st)
    /\ \E r \in {"ok", "fatal"} : (r = "fatal" => MayFail) /\ rc' = r
    /\ pc' = "like"
    /\ UNCHANGED <<like, useBestLike, i, initialState, final, disk, reported, acked, base>>

\* get_likelihood's normalisation: overflow and NaN to the worst case, 0 to the best.
Clamp(v) == IF v > Worst \/ v = NaN THEN Worst ELSE IF v = 0 THEN 1 ELSE v

\* Mutant: the first step of the window is left out.
InWindowStrict(s) == useBestLike /\ s > StartStep

\* Where nbRunSystemPlain calls get_likelihood.
InWindow(s) == useBestLike /\ s >= StartStep

Improves == InWindow(st.step) /\ Clamp(like[st.step]) < st.best

\* An improvement opens the histout file for writing, which empties it.
GetLikelihood ==
    /\ pc = "like"
    /\ IF Improves
         THEN /\ st' = Improved(st, Clamp(like[st.step]))
              /\ hist' = Partial
              /\ pc' = "hist"
         ELSE /\ pc' = "check"
              /\ UNCHANGED <<st, hist>>
    /\ UNCHANGED <<like, useBestLike, i, initialState, rc, final, ckpt, tmp, out, reported,
                   acked, base>>

WriteHistogram ==
    /\ pc = "hist"
    /\ hist' = st.step
    /\ pc' = "check"
    /\ UNCHANGED <<like, useBestLike, st, i, initialState, rc, final, ckpt, tmp, out, reported,
                   acked, base>>

\* After the step: leave on a fatal status, else checkpoint if it is time to.
CheckStatus ==
    /\ pc = "check"
    /\ \/ rc = "fatal" /\ pc' = "end"
       \/ rc = "ok" /\ pc' = "step"
    /\ UNCHANGED <<like, useBestLike, st, i, initialState, rc, final, disk, reported, acked, base>>

TimeToCheckpoint ==
    /\ pc = "check"
    /\ rc = "ok"
    /\ final' = FALSE
    /\ pc' = "open"
    /\ UNCHANGED <<like, useBestLike, st, i, initialState, rc, disk, reported, acked, base>>

FinalCheckpoint ==
    /\ pc = "step"
    /\ st.step = NStep
    /\ final' = TRUE
    /\ pc' = "open"
    /\ UNCHANGED <<like, useBestLike, st, i, initialState, rc, disk, reported, acked, base>>

-----------------------------------------------------------------------------
(* nbWriteCheckpointWithTmpFile. *)

\* The write of a checkpoint failed: NBODY_CHECKPOINT_ERROR ends the run.
CheckpointFails ==
    /\ MayFail
    /\ pc \in {"open", "freeze", "rename"}
    /\ rc' = "fatal"
    /\ pc' = "end"
    /\ UNCHANGED <<like, useBestLike, st, i, initialState, final, disk, reported, acked, base>>

\* Mutant: the checkpoint is written in place.
OpenTmpInPlace ==
    /\ pc = "open"
    /\ ckpt' = Torn
    /\ pc' = "freeze"
    /\ UNCHANGED <<like, useBestLike, st, i, initialState, rc, final, tmp, hist, out, reported,
                   acked, base>>

\* Mutant: the client is told before the checkpoint is written.
OpenTmpAndAnnounce ==
    /\ pc = "open"
    /\ tmp' = Torn
    /\ acked' = st.step
    /\ pc' = "freeze"
    /\ UNCHANGED <<like, useBestLike, st, i, initialState, rc, final, ckpt, hist, out, reported,
                   base>>

OpenTmp ==
    /\ pc = "open"
    /\ tmp' = Torn
    /\ pc' = "freeze"
    /\ UNCHANGED <<like, useBestLike, st, i, initialState, rc, final, ckpt, hist, out, reported,
                   acked, base>>

FreezeState ==
    /\ pc = "freeze"
    /\ tmp' = [kind |-> "whole", st |-> st]
    /\ pc' = "rename"
    /\ UNCHANGED <<like, useBestLike, st, i, initialState, rc, final, ckpt, hist, out, reported,
                   acked, base>>

RenameTmp ==
    /\ pc = "rename"
    /\ ckpt' = tmp
    /\ tmp' = NoFile
    /\ pc' = IF final THEN "end" ELSE "ack"
    /\ UNCHANGED <<like, useBestLike, st, i, initialState, rc, final, hist, out, reported, acked,
                   base>>

\* mw_checkpoint_completed, only after a periodic checkpoint.
CheckpointCompleted ==
    /\ pc = "ack"
    /\ acked' = st.step
    /\ pc' = "step"
    /\ UNCHANGED <<like, useBestLike, st, i, initialState, rc, final, disk, reported, base>>

-----------------------------------------------------------------------------
(* The end of a run: the next calibration run, or the report. *)

\* Mutant: only the step is set back.
NextCalibrationRunInPlace ==
    /\ pc = "end"
    /\ i < CalibrationRuns
    /\ st' = NBodyState(initialState.step, st.best, st.tab, 0, st.time, st.fwds)
    /\ i' = i + 1
    /\ pc' = "run"
    /\ UNCHANGED <<like, useBestLike, initialState, rc, final, disk, reported, acked, base>>

\* The status of the finished run is overwritten by the next one's.
NextCalibrationRun ==
    /\ pc = "end"
    /\ i < CalibrationRuns
    /\ st' = Cloned(initialState, st.time)
    /\ i' = i + 1
    /\ pc' = "run"
    /\ UNCHANGED <<like, useBestLike, initialState, rc, final, disk, reported, acked, base>>

EndRuns ==
    /\ pc = "end"
    /\ i = CalibrationRuns
    /\ pc' = IF rc = "fatal" THEN "remove" ELSE "bodies"
    /\ UNCHANGED <<like, useBestLike, st, i, initialState, rc, final, disk, reported, acked, base>>

\* nbWriteBodies: the file is emptied, then written.
OpenBodies ==
    /\ pc = "bodies"
    /\ out' = Partial
    /\ pc' = "outwrite"
    /\ UNCHANGED <<like, useBestLike, st, i, initialState, rc, final, ckpt, tmp, hist, reported,
                   acked, base>>

\* Mutant: best bodies even if there are none.
OutputTabBest == IF useBestLike THEN st.tab ELSE st.step

\* nbOutputBodies: the bodies of the best likelihood, if there was one.
OutputTab == IF ~useBestLike \/ st.best = Worst THEN st.step ELSE st.tab

OutputBodies ==
    /\ pc = "outwrite"
    /\ out' = OutputTab
    /\ pc' = "report"
    /\ UNCHANGED <<like, useBestLike, st, i, initialState, rc, final, ckpt, tmp, hist, reported,
                   acked, base>>

\* nbReportResults normalises without looking for NaN ...
EndLikelihood ==
    LET v == like[st.step]
    IN  IF v > Worst THEN Worst ELSE IF v = 0 THEN 1 ELSE v

\* Mutant: a tie counts as worse.
WorseOrEqual == useBestLike /\ EndLikelihood # NaN /\ EndLikelihood >= st.best

\* ... and a comparison with NaN is false.
EndIsWorse == useBestLike /\ EndLikelihood # NaN /\ EndLikelihood > st.best

ReportResults ==
    /\ pc = "report"
    /\ IF EndIsWorse
         THEN pc' = "print" /\ UNCHANGED hist
         ELSE pc' = "rehist" /\ hist' = Partial
    /\ UNCHANGED <<like, useBestLike, st, i, initialState, rc, final, ckpt, tmp, out, reported,
                   acked, base>>

RewriteHistogram ==
    /\ pc = "rehist"
    /\ hist' = st.step
    /\ pc' = "print"
    /\ UNCHANGED <<like, useBestLike, st, i, initialState, rc, final, ckpt, tmp, out, reported,
                   acked, base>>

PrintLikelihood ==
    /\ pc = "print"
    /\ reported' = IF EndIsWorse THEN st.best
                   ELSE IF EndLikelihood = NaN THEN Worst ELSE EndLikelihood
    /\ pc' = "remove"
    /\ UNCHANGED <<like, useBestLike, st, i, initialState, rc, final, disk, acked, base>>

\* main removes the checkpoint whatever nbMain returned.
RemoveCheckpoint ==
    /\ pc = "remove"
    /\ ckpt' = NoFile
    /\ acked' = 0
    /\ pc' = "finish"
    /\ UNCHANGED <<like, useBestLike, st, i, initialState, rc, final, tmp, hist, out, reported,
                   base>>

Finish ==
    /\ pc = "finish"
    /\ pc' = "done"
    /\ UNCHANGED <<like, useBestLike, st, i, initialState, rc, final, disk, reported, acked, base>>

-----------------------------------------------------------------------------
\* The process is killed: its memory is gone, and with it the name of its
\* temporary file, which carries its pid.
Crash ==
    /\ MayCrash
    /\ pc \in Running
    /\ pc' = "down"
    /\ st' = Fresh
    /\ i' = 0
    /\ initialState' = Fresh
    /\ rc' = "ok"
    /\ final' = FALSE
    /\ tmp' = NoFile
    /\ base' = 0
    /\ UNCHANGED <<like, useBestLike, ckpt, hist, out, reported, acked>>

\* BOINC does not start a finished task again.
Done == pc = "done" /\ UNCHANGED vars

Start == NewRun \/ Resume \/ StartFails
Evolve == BeginRun \/ StepSystem \/ GetLikelihood \/ WriteHistogram \/ CheckStatus
Checkpoint == TimeToCheckpoint \/ FinalCheckpoint \/ CheckpointFails \/ OpenTmp \/ FreezeState
              \/ RenameTmp \/ CheckpointCompleted
Report == EndRuns \/ OpenBodies \/ OutputBodies \/ ReportResults \/ RewriteHistogram
          \/ PrintLikelihood \/ RemoveCheckpoint \/ Finish

Next == Start \/ Evolve \/ Checkpoint \/ NextCalibrationRun \/ Report \/ Crash \/ Done

Spec == Init /\ [][Next]_vars

\* The process keeps working while it is up, and the client starts it again.
Work == Start \/ Evolve \/ Checkpoint \/ NextCalibrationRun \/ Report

\* From some time on every incarnation lives to checkpoint a step later than the
\* one it began with, which is what the checkpoint period is chosen for; before
\* that it may be killed anywhere, any number of times.
KilledAfterProgress == Crash => pc # "run" /\ ckpt.kind = "whole" /\ ckpt.st.step > base

Fairness == WF_vars(Work) /\ <>[][KilledAfterProgress]_vars

FairSpec == Spec /\ Fairness

-----------------------------------------------------------------------------
(* Properties. *)

\* A checkpoint file that exists is whole: a kill at any point of
\* nbWriteCheckpointWithTmpFile leaves the old checkpoint or the new one.
CheckpointWhole == ckpt # Torn

\* Once the client was told of a checkpoint (mw_checkpoint_completed), no later
\* incarnation of the process works on an earlier step, until the work unit is
\* over.  With calibration runs the state is set back on purpose.
CheckpointDurable ==
    CalibrationRuns = 0 => /\ pc \in Running \ {"remove", "finish"} => st.step >= acked
                           /\ acked > 0 => ckpt.kind = "whole" /\ ckpt.st.step >= acked

Reported == pc \in {"remove", "finish", "done"} /\ rc = "ok"

Window(from) == {s \in 1..NStep : s >= StartStep /\ s > from}

\* v is the smallest likelihood of the steps of S and of the last step.
IsBestOf(v, S) ==
    /\ \A s \in S \cup {NStep} : v <= Clamp(like[s])
    /\ \E s \in S \cup {NStep} : v = Clamp(like[s])

\* What is reported is the best likelihood of the steps this process computed,
\* unless the end state has none (get_likelihood, nbReportResults).
BestSinceResume ==
    Reported /\ useBestLike /\ like[NStep] # NaN => IsBestOf(reported, Window(base))

\* What is reported is the best likelihood of the whole window, killed or not.
BestOfWindow ==
    Reported /\ useBestLike => IsBestOf(reported, Window(0))

\* The histogram that is uploaded is the one the reported likelihood is of,
\* whatever was killed and resumed in between.
HistMatchesReport ==
    Reported => hist \in 1..NStep /\ Clamp(like[hist]) = reported

\* So are the bodies that are uploaded, unless the end state has no likelihood.
OutMatchesReport ==
    Reported /\ like[NStep] # NaN => out \in 1..NStep /\ Clamp(like[out]) = reported

\* Where the best likelihood of the run is being kept up.
Tracking == {"step", "like", "hist", "check", "open", "freeze", "rename", "ack", "end",
             "bodies", "outwrite", "report", "rehist", "print"}
Reporting == {"bodies", "outwrite", "report", "rehist", "print"}
Tracked == pc \in Tracking /\ (pc = "end" => rc = "ok")

\* The run comes to its report, and to its final checkpoint, only at the last step.
LastStepInv ==
    /\ pc \in {"like", "hist", "check", "open", "freeze", "rename", "ack"} => st.step >= 1
    /\ pc \in {"open", "freeze", "rename"} /\ final => st.step = NStep
    /\ pc = "end" /\ rc = "ok" => st.step = NStep
    /\ pc \in {"step", "open", "freeze", "rename", "ack"} => rc = "ok"
    /\ pc \in Reporting => st.step = NStep /\ rc = "ok"

\* The temporary file renamed over the checkpoint holds the state of this process.
TmpInv == pc = "rename" => tmp = [kind |-> "whole", st |-> st]

AckInv == pc = "ack" => ckpt = [kind |-> "whole", st |-> st]

\* The best likelihood is that of its bodies, and no step since base is better.
BestInv ==
    Tracked =>
      /\ base <= st.step
      /\ pc = "like" => base < st.step
      /\ st.best < Worst => /\ useBestLike
                            /\ st.tab \in Window(base)
                            /\ st.tab <= st.step
                            /\ Clamp(like[st.tab]) = st.best
      /\ useBestLike =>
           \A s \in Window(base) :
             (s <= st.step /\ (pc = "like" => s < st.step)) => st.best <= Clamp(like[s])

\* The output files hold what the report will be of.
FileInv ==
    /\ pc = "hist" => st.tab = st.step /\ st.best < Worst
    /\ Tracked /\ pc \notin {"hist", "rehist", "print"} /\ st.best < Worst => hist = st.tab
    /\ pc = "print" => hist = IF EndIsWorse THEN st.tab ELSE st.step
    /\ pc = "rehist" => ~EndIsWorse
    /\ pc \in {"report", "rehist", "print"} => out = OutputTab

\* The inductive invariant.
IInv ==
    /\ TypeOK
    /\ CheckpointWhole
    /\ CheckpointDurable
    /\ LastStepInv
    /\ TmpInv
    /\ AckInv
    /\ BestInv
    /\ FileInv
    /\ BestSinceResume
    /\ HistMatchesReport
    /\ OutMatchesReport

\* The reported bodies were integrated with one forward time if the evolution
\* that is reported began at step 0 in the process that reports it, however many
\* processes and calibration runs came before.  (One that is resumed in the middle
\* guesses the forward time anew.)
ForwardTimeOfRun == base = 0 /\ Reported => Cardinality(st.fwds) = 1

\* The invariant behind it: bodies at step 0 were not integrated, wherever they
\* are kept, and an evolution from step 0 keeps to the forward time it began with.
Untouched(s) == s.step = 0 => s.fwds = {}
ForwardInv ==
    /\ Untouched(st) /\ Untouched(initialState)
    /\ ckpt.kind = "whole" => Untouched(ckpt.st)
    /\ tmp.kind = "whole" => Untouched(tmp.st)
    /\ (Tracked \/ Reported) /\ base = 0 => st.fwds = IF st.step = 0 THEN {} ELSE {st.fwd}
    /\ Reported => st.step = NStep

\* A work unit completes, however often it is killed and resumed, also while it
\* calibrates.
Completes == <>(pc = "done" /\ rc = "ok")
=============================================================================
