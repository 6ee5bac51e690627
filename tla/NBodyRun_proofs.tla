-------------------------- MODULE NBodyRun_proofs --------------------------
(***************************************************************************)
(* Proofs that NBodyRun keeps its inductive invariant IInv, and so its     *)
(* safety properties, for every number of steps, every window, every       *)
(* likelihood and every number of calibration runs, kills and failures.    *)
(***************************************************************************)
EXTENDS NBodyRun, FiniteSetTheorems, TLAPS

USE StepAssumption, LikelihoodAssumption, RunAssumption

\* What get_likelihood compares is between the best and the worst case.
LEMMA ClampType ==
    ASSUME NEW v \in -1..(Worst + 1)
    PROVE  Clamp(v) \in 1..Worst
  BY DEF Clamp, NaN

\* nbReportResults agrees with get_likelihood on everything but NaN.
LEMMA EndType ==
    ASSUME NEW v \in Likelihoods, v # NaN
    PROVE  /\ (IF v > Worst THEN Worst ELSE IF v = 0 THEN 1 ELSE v) = Clamp(v)
           /\ Clamp(v) \in 1..Worst
           /\ Clamp(v) \in 0..Worst
           /\ Clamp(v) # NaN
  BY DEF NaN, Clamp

LEMMA FreshType == Fresh \in States
  BY DEF Fresh, NBodyState, States, Steps, Guess

LEMMA StateUpdates ==
    ASSUME NEW s \in States
    PROVE  /\ Thawed(s) \in States
           /\ \A f \in Steps \cup {Guess} : Cloned(s, f) \in States
           /\ Reset(s) \in States
           /\ s.step < NStep => Stepped(s) \in States
           /\ \A v \in 0..Worst : Improved(s, v) \in States
  <1>1. Thawed(s) \in States
    BY DEF Thawed, NBodyState, States, Steps, Guess
  <1>2. ASSUME NEW f \in Steps \cup {Guess} PROVE Cloned(s, f) \in States
    BY DEF Cloned, NBodyState, States, Steps, Guess
  <1>3. Reset(s) \in States
    BY DEF Reset, NBodyState, States
  <1>4. ASSUME s.step < NStep PROVE Stepped(s) \in States
    <2>1. s.step + 1 \in Steps
      BY <1>4 DEF States, Steps
    <2>2. s.fwds \cup {s.fwd} \in SUBSET (Steps \cup {Guess})
      BY DEF States
    <2>3. QED
      BY <2>1, <2>2 DEF Stepped, NBodyState, States
  <1>5. ASSUME NEW v \in 0..Worst PROVE Improved(s, v) \in States
    BY DEF Improved, NBodyState, States
  <1>6. QED
    BY <1>1, <1>2, <1>3, <1>4, <1>5

LEMMA FileKinds ==
    ASSUME NEW f \in Files
    PROVE  /\ f.kind = "whole" => f.st \in States
           /\ f # NoFile /\ f # Torn => f.kind = "whole"
           /\ f = NoFile => f.kind # "whole"
           /\ f = Torn => f.kind # "whole"
           /\ \A s \in States : /\ [kind |-> "whole", st |-> s] \in Files
                                /\ [kind |-> "whole", st |-> s] # Torn
                                /\ [kind |-> "whole", st |-> s] # NoFile
  BY DEF Files, NoFile, Torn

\* Every action keeps the types; the likelihood is looked up only at steps from 1 on.
LEMMA TypeStep ==
    ASSUME TypeOK, LastStepInv, [Next]_vars
    PROVE  TypeOK'
  <1>1. CASE NewRun
    <2>1. i' \in 0..CalibrationRuns
      BY <1>1 DEF NewRun, Entered
    <2>2. st' \in States /\ initialState' \in States
      BY <1>1, FreshType DEF NewRun, Entered, TypeOK
    <2>3. final' \in BOOLEAN
      BY <1>1 DEF NewRun, Entered
    <2>4. QED
      BY <1>1, <2>1, <2>2, <2>3 DEF NewRun, Entered, disk, Files, Steps, TypeOK, Running
  <1>2. CASE Resume
    <2>1. i' \in 0..CalibrationRuns
      BY <1>2 DEF Resume, Entered
    <2>2. st' \in States /\ initialState' \in States
      BY <1>2, FreshType, FileKinds, StateUpdates DEF Resume, Entered, TypeOK
    <2>3. final' \in BOOLEAN
      BY <1>2 DEF Resume, Entered
    <2>4. QED
      BY <1>2, <2>1, <2>2, <2>3 DEF Resume, Entered, disk, Files, Steps, TypeOK, Running
  <1>3. CASE StartFails
    BY <1>3 DEF StartFails, disk, TypeOK, Running
  <1>4. CASE BeginRun
    <2>1. st.fwd \in Steps \cup {Guess} /\ st.step \in Steps
      BY DEF TypeOK, States
    <2>2. st' \in States /\ initialState' \in States
      BY <1>4, <2>1, StateUpdates DEF BeginRun, TypeOK
    <2>3. QED
      BY <1>4, <2>1, <2>2 DEF BeginRun, disk, TypeOK, Running
  <1>5. CASE StepSystem
    BY <1>5, StateUpdates DEF StepSystem, disk, TypeOK, Running
  <1>6. CASE GetLikelihood
    <2>1. CASE Improves
      <3>1. st.step \in 1..NStep
        BY <1>6 DEF GetLikelihood, TypeOK, LastStepInv, States, Steps
      <3>2. like[st.step] \in -1..(Worst + 1)
        BY <3>1 DEF TypeOK
      <3>3. Clamp(like[st.step]) \in 0..Worst
        BY <3>2, ClampType
      <3>4. QED
        BY <1>6, <2>1, <3>3, StateUpdates DEF GetLikelihood, TypeOK, Running
    <2>2. CASE ~Improves
      BY <1>6, <2>2 DEF GetLikelihood, TypeOK, Running
    <2>3. QED
      BY <2>1, <2>2
  <1>7. CASE WriteHistogram
    BY <1>7 DEF WriteHistogram, States, TypeOK, Running
  <1>8. CASE CheckStatus
    BY <1>8 DEF CheckStatus, disk, TypeOK, Running
  <1>9. CASE TimeToCheckpoint
    BY <1>9 DEF TimeToCheckpoint, disk, TypeOK, Running
  <1>10. CASE FinalCheckpoint
    BY <1>10 DEF FinalCheckpoint, disk, TypeOK, Running
  <1>11. CASE CheckpointFails
    BY <1>11 DEF CheckpointFails, disk, TypeOK, Running
  <1>12. CASE OpenTmp
    BY <1>12 DEF OpenTmp, Files, TypeOK, Running
  <1>13. CASE FreezeState
    BY <1>13, FileKinds DEF FreezeState, TypeOK, Running
  <1>14. CASE RenameTmp
    BY <1>14 DEF RenameTmp, Files, TypeOK, Running
  <1>15. CASE CheckpointCompleted
    BY <1>15 DEF CheckpointCompleted, disk, States, TypeOK, Running
  <1>16. CASE NextCalibrationRun
    <2>1. st.time \in Steps
      BY DEF TypeOK, States
    <2>2. st' \in States
      BY <1>16, <2>1, StateUpdates DEF NextCalibrationRun, TypeOK
    <2>3. QED
      BY <1>16, <2>2 DEF NextCalibrationRun, disk, TypeOK, Running
  <1>17. CASE EndRuns
    BY <1>17 DEF EndRuns, disk, TypeOK, Running
  <1>18. CASE OpenBodies
    BY <1>18 DEF OpenBodies, disk, TypeOK, Running
  <1>19. CASE OutputBodies
    BY <1>19 DEF OutputBodies, OutputTab, States, TypeOK, Running
  <1>20. CASE ReportResults
    BY <1>20 DEF ReportResults, disk, TypeOK, Running
  <1>21. CASE RewriteHistogram
    BY <1>21 DEF RewriteHistogram, States, TypeOK, Running
  <1>22. CASE PrintLikelihood
    <2>1. st.step = NStep /\ like[st.step] \in Likelihoods
      BY <1>22 DEF PrintLikelihood, TypeOK, LastStepInv, Reporting
    <2>2. like[st.step] # NaN => EndLikelihood \in 0..Worst
      BY <2>1, EndType DEF EndLikelihood
    <2>3. like[st.step] = NaN => EndLikelihood = NaN
      BY <2>1 DEF EndLikelihood, NaN
    <2>4. st.best \in 0..Worst
      BY DEF TypeOK, States
    <2>5. reported' \in 0..Worst
      BY <1>22, <2>2, <2>3, <2>4 DEF PrintLikelihood
    <2>6. QED
      BY <1>22, <2>5 DEF PrintLikelihood, disk, TypeOK, Running
  <1>23. CASE RemoveCheckpoint
    BY <1>23 DEF RemoveCheckpoint, Files, Steps, TypeOK, Running
  <1>24. CASE Finish
    BY <1>24 DEF Finish, disk, TypeOK, Running
  <1>25. CASE Crash
    <2>1. i' \in 0..CalibrationRuns
      BY <1>25 DEF Crash
    <2>2. st' \in States /\ initialState' \in States
      BY <1>25, FreshType DEF Crash, TypeOK
    <2>3. final' \in BOOLEAN
      BY <1>25 DEF Crash
    <2>4. QED
      BY <1>25, <2>1, <2>2, <2>3 DEF Crash, disk, Files, Steps, TypeOK, Running
  <1>26. CASE Done
    BY <1>26 DEF Done, vars, TypeOK
  <1>27. CASE UNCHANGED vars
    BY <1>27 DEF vars, TypeOK
  <1>28. QED
    BY <1>1, <1>2, <1>3, <1>4, <1>5, <1>6, <1>7, <1>8, <1>9, <1>10, <1>11, <1>12, <1>13, <1>14,
       <1>15, <1>16, <1>17, <1>18, <1>19, <1>20, <1>21, <1>22, <1>23, <1>24, <1>25, <1>26,
       <1>27 DEF Next, Start, Evolve, Checkpoint, Report

\* The checkpoint on the disk is whole, because only a whole temporary file is renamed.
LEMMA FilesStep ==
    ASSUME TypeOK, CheckpointWhole, TmpInv, AckInv, [Next]_vars
    PROVE  (CheckpointWhole /\ TmpInv /\ AckInv)'
  <1>1. CASE NewRun
    BY <1>1 DEF NewRun, Entered, disk, CheckpointWhole, TmpInv, AckInv
  <1>2. CASE Resume
    BY <1>2 DEF Resume, Entered, disk, CheckpointWhole, TmpInv, AckInv
  <1>3. CASE StartFails
    BY <1>3 DEF StartFails, disk, CheckpointWhole, TmpInv, AckInv
  <1>4. CASE BeginRun
    BY <1>4 DEF BeginRun, disk, CheckpointWhole, TmpInv, AckInv
  <1>5. CASE StepSystem
    BY <1>5 DEF StepSystem, disk, CheckpointWhole, TmpInv, AckInv
  <1>6. CASE GetLikelihood
    BY <1>6 DEF GetLikelihood, disk, CheckpointWhole, TmpInv, AckInv
  <1>7. CASE WriteHistogram
    BY <1>7 DEF WriteHistogram, disk, CheckpointWhole, TmpInv, AckInv
  <1>8. CASE CheckStatus
    BY <1>8 DEF CheckStatus, disk, CheckpointWhole, TmpInv, AckInv
  <1>9. CASE TimeToCheckpoint
    BY <1>9 DEF TimeToCheckpoint, disk, CheckpointWhole, TmpInv, AckInv
  <1>10. CASE FinalCheckpoint
    BY <1>10 DEF FinalCheckpoint, disk, CheckpointWhole, TmpInv, AckInv
  <1>11. CASE CheckpointFails
    BY <1>11 DEF CheckpointFails, disk, CheckpointWhole, TmpInv, AckInv
  <1>12. CASE OpenTmp
    BY <1>12 DEF OpenTmp, disk, CheckpointWhole, TmpInv, AckInv
  <1>13. CASE FreezeState
    BY <1>13 DEF FreezeState, disk, CheckpointWhole, TmpInv, AckInv
  <1>14. CASE RenameTmp
    BY <1>14, FileKinds DEF RenameTmp, TypeOK, CheckpointWhole, TmpInv, AckInv
  <1>15. CASE CheckpointCompleted
    BY <1>15 DEF CheckpointCompleted, disk, CheckpointWhole, TmpInv, AckInv
  <1>16. CASE NextCalibrationRun
    BY <1>16 DEF NextCalibrationRun, disk, CheckpointWhole, TmpInv, AckInv
  <1>17. CASE EndRuns
    BY <1>17 DEF EndRuns, disk, CheckpointWhole, TmpInv, AckInv
  <1>18. CASE OpenBodies
    BY <1>18 DEF OpenBodies, disk, CheckpointWhole, TmpInv, AckInv
  <1>19. CASE OutputBodies
    BY <1>19 DEF OutputBodies, disk, CheckpointWhole, TmpInv, AckInv
  <1>20. CASE ReportResults
    BY <1>20 DEF ReportResults, disk, CheckpointWhole, TmpInv, AckInv
  <1>21. CASE RewriteHistogram
    BY <1>21 DEF RewriteHistogram, disk, CheckpointWhole, TmpInv, AckInv
  <1>22. CASE PrintLikelihood
    BY <1>22 DEF PrintLikelihood, disk, CheckpointWhole, TmpInv, AckInv
  <1>23. CASE RemoveCheckpoint
    BY <1>23 DEF RemoveCheckpoint, NoFile, Torn, CheckpointWhole, TmpInv, AckInv
  <1>24. CASE Finish
    BY <1>24 DEF Finish, disk, CheckpointWhole, TmpInv, AckInv
  <1>25. CASE Crash
    BY <1>25 DEF Crash, disk, CheckpointWhole, TmpInv, AckInv
  <1>26. CASE Done
    BY <1>26 DEF Done, vars, CheckpointWhole, TmpInv, AckInv
  <1>27. CASE UNCHANGED vars
    BY <1>27 DEF vars, CheckpointWhole, TmpInv, AckInv
  <1>28. QED
    BY <1>1, <1>2, <1>3, <1>4, <1>5, <1>6, <1>7, <1>8, <1>9, <1>10, <1>11, <1>12, <1>13, <1>14,
       <1>15, <1>16, <1>17, <1>18, <1>19, <1>20, <1>21, <1>22, <1>23, <1>24, <1>25, <1>26,
       <1>27 DEF Next, Start, Evolve, Checkpoint, Report

\* A run leaves its loop without a fatal status only at the last step.
LEMMA LastStepStep ==
    ASSUME TypeOK, LastStepInv, [Next]_vars
    PROVE  LastStepInv'
  <1>1. CASE NewRun
    BY <1>1 DEF NewRun, Entered, disk, LastStepInv, Reporting
  <1>2. CASE Resume
    BY <1>2 DEF Resume, Entered, disk, LastStepInv, Reporting
  <1>3. CASE StartFails
    BY <1>3 DEF StartFails, disk, LastStepInv, Reporting
  <1>4. CASE BeginRun
    BY <1>4 DEF BeginRun, Reset, NBodyState, LastStepInv, Reporting
  <1>5. CASE StepSystem
    BY <1>5 DEF StepSystem, Stepped, NBodyState, TypeOK, States, Steps, LastStepInv, Reporting
  <1>6. CASE GetLikelihood
    BY <1>6 DEF GetLikelihood, Improved, NBodyState, LastStepInv, Reporting
  <1>7. CASE WriteHistogram
    BY <1>7 DEF WriteHistogram, disk, LastStepInv, Reporting
  <1>8. CASE CheckStatus
    BY <1>8 DEF CheckStatus, disk, LastStepInv, Reporting
  <1>9. CASE TimeToCheckpoint
    BY <1>9 DEF TimeToCheckpoint, disk, LastStepInv, Reporting
  <1>10. CASE FinalCheckpoint
    BY <1>10 DEF FinalCheckpoint, disk, LastStepInv, Reporting
  <1>11. CASE CheckpointFails
    BY <1>11 DEF CheckpointFails, disk, LastStepInv, Reporting
  <1>12. CASE OpenTmp
    BY <1>12 DEF OpenTmp, disk, LastStepInv, Reporting
  <1>13. CASE FreezeState
    BY <1>13 DEF FreezeState, disk, LastStepInv, Reporting
  <1>14. CASE RenameTmp
    BY <1>14 DEF RenameTmp, disk, LastStepInv, Reporting
  <1>15. CASE CheckpointCompleted
    BY <1>15 DEF CheckpointCompleted, disk, LastStepInv, Reporting
  <1>16. CASE NextCalibrationRun
    BY <1>16 DEF NextCalibrationRun, disk, LastStepInv, Reporting
  <1>17. CASE EndRuns
    BY <1>17 DEF EndRuns, disk, TypeOK, LastStepInv, Reporting
  <1>18. CASE OpenBodies
    BY <1>18 DEF OpenBodies, disk, LastStepInv, Reporting
  <1>19. CASE OutputBodies
    BY <1>19 DEF OutputBodies, disk, LastStepInv, Reporting
  <1>20. CASE ReportResults
    BY <1>20 DEF ReportResults, disk, LastStepInv, Reporting
  <1>21. CASE RewriteHistogram
    BY <1>21 DEF RewriteHistogram, disk, LastStepInv, Reporting
  <1>22. CASE PrintLikelihood
    BY <1>22 DEF PrintLikelihood, disk, LastStepInv, Reporting
  <1>23. CASE RemoveCheckpoint
    BY <1>23 DEF RemoveCheckpoint, disk, LastStepInv, Reporting
  <1>24. CASE Finish
    BY <1>24 DEF Finish, disk, LastStepInv, Reporting
  <1>25. CASE Crash
    BY <1>25 DEF Crash, disk, LastStepInv, Reporting
  <1>26. CASE Done
    BY <1>26 DEF Done, vars, LastStepInv, Reporting
  <1>27. CASE UNCHANGED vars
    BY <1>27 DEF vars, LastStepInv, Reporting
  <1>28. QED
    BY <1>1, <1>2, <1>3, <1>4, <1>5, <1>6, <1>7, <1>8, <1>9, <1>10, <1>11, <1>12, <1>13, <1>14,
       <1>15, <1>16, <1>17, <1>18, <1>19, <1>20, <1>21, <1>22, <1>23, <1>24, <1>25, <1>26,
       <1>27 DEF Next, Start, Evolve, Checkpoint, Report

\* What the client was told of is on the disk.
LEMMA DurableStep ==
    ASSUME TypeOK, AckInv, TmpInv, CheckpointDurable, [Next]_vars
    PROVE  CheckpointDurable'
  <1>1. CASE NewRun
    BY <1>1, FileKinds DEF NewRun, Entered, Fresh, NBodyState, TypeOK, Steps, disk, CheckpointDurable, Running
  <1>2. CASE Resume
    BY <1>2, FileKinds DEF Resume, Entered, Thawed, NBodyState, TypeOK, States, Steps, disk, CheckpointDurable, Running
  <1>3. CASE StartFails
    BY <1>3 DEF StartFails, disk, CheckpointDurable, Running
  <1>4. CASE BeginRun
    BY <1>4 DEF BeginRun, Reset, NBodyState, disk, CheckpointDurable, Running
  <1>5. CASE StepSystem
    BY <1>5 DEF StepSystem, Stepped, NBodyState, TypeOK, States, Steps, disk, CheckpointDurable, Running
  <1>6. CASE GetLikelihood
    BY <1>6 DEF GetLikelihood, Improved, NBodyState, CheckpointDurable, Running
  <1>7. CASE WriteHistogram
    BY <1>7 DEF WriteHistogram, disk, CheckpointDurable, Running
  <1>8. CASE CheckStatus
    BY <1>8 DEF CheckStatus, disk, CheckpointDurable, Running
  <1>9. CASE TimeToCheckpoint
    BY <1>9 DEF TimeToCheckpoint, disk, CheckpointDurable, Running
  <1>10. CASE FinalCheckpoint
    BY <1>10 DEF FinalCheckpoint, disk, CheckpointDurable, Running
  <1>11. CASE CheckpointFails
    BY <1>11 DEF CheckpointFails, disk, CheckpointDurable, Running
  <1>12. CASE OpenTmp
    BY <1>12 DEF OpenTmp, disk, CheckpointDurable, Running
  <1>13. CASE FreezeState
    BY <1>13 DEF FreezeState, disk, CheckpointDurable, Running
  <1>14. CASE RenameTmp
    BY <1>14 DEF RenameTmp, TmpInv, TypeOK, States, Steps, CheckpointDurable, Running
  <1>15. CASE CheckpointCompleted
    BY <1>15 DEF CheckpointCompleted, AckInv, TypeOK, States, Steps, disk, CheckpointDurable, Running
  <1>16. CASE NextCalibrationRun
    BY <1>16 DEF NextCalibrationRun, TypeOK, CheckpointDurable, Running
  <1>17. CASE EndRuns
    BY <1>17 DEF EndRuns, disk, CheckpointDurable, Running
  <1>18. CASE OpenBodies
    BY <1>18 DEF OpenBodies, disk, CheckpointDurable, Running
  <1>19. CASE OutputBodies
    BY <1>19 DEF OutputBodies, disk, CheckpointDurable, Running
  <1>20. CASE ReportResults
    BY <1>20 DEF ReportResults, disk, CheckpointDurable, Running
  <1>21. CASE RewriteHistogram
    BY <1>21 DEF RewriteHistogram, disk, CheckpointDurable, Running
  <1>22. CASE PrintLikelihood
    BY <1>22 DEF PrintLikelihood, disk, CheckpointDurable, Running
  <1>23. CASE RemoveCheckpoint
    BY <1>23 DEF RemoveCheckpoint, disk, CheckpointDurable, Running
  <1>24. CASE Finish
    BY <1>24 DEF Finish, disk, CheckpointDurable, Running
  <1>25. CASE Crash
    BY <1>25 DEF Crash, disk, CheckpointDurable, Running
  <1>26. CASE Done
    BY <1>26 DEF Done, vars, CheckpointDurable, Running
  <1>27. CASE UNCHANGED vars
    BY <1>27 DEF vars, CheckpointDurable
  <1>28. QED
    BY <1>1, <1>2, <1>3, <1>4, <1>5, <1>6, <1>7, <1>8, <1>9, <1>10, <1>11, <1>12, <1>13, <1>14,
       <1>15, <1>16, <1>17, <1>18, <1>19, <1>20, <1>21, <1>22, <1>23, <1>24, <1>25, <1>26,
       <1>27 DEF Next, Start, Evolve, Checkpoint, Report

LEMMA LikeTypes ==
    ASSUME TypeOK, NEW s \in 1..NStep
    PROVE  like[s] \in Likelihoods /\ Clamp(like[s]) \in 1..Worst
  <1>1. like[s] \in Likelihoods /\ like[s] \in -1..(Worst + 1)
    BY DEF TypeOK
  <1>2. QED
    BY <1>1, ClampType

LEMMA StateTypes ==
    ASSUME TypeOK
    PROVE  st.step \in 0..NStep /\ st.tab \in 0..NStep /\ st.best \in 0..Worst /\ base \in 0..NStep
  BY DEF TypeOK, States, Steps

\* The best likelihood kept is the best of the steps since the run began.
LEMMA BestStep ==
    ASSUME TypeOK, LastStepInv, BestInv, [Next]_vars
    PROVE  BestInv'
  <1>1. CASE NewRun
    BY <1>1 DEF NewRun, Entered, disk, BestInv, Tracked, Tracking, Window
  <1>2. CASE Resume
    BY <1>2 DEF Resume, Entered, disk, BestInv, Tracked, Tracking, Window
  <1>3. CASE StartFails
    BY <1>3 DEF StartFails, disk, BestInv, Tracked, Tracking, Window
  <1>4. CASE BeginRun
    BY <1>4, StateTypes DEF BeginRun, Reset, NBodyState, BestInv, Tracked, Tracking, Window
  <1>5. CASE StepSystem
    <2>1. st'.step = st.step + 1 /\ st'.best = st.best /\ st'.tab = st.tab
      BY <1>5 DEF StepSystem, Stepped, NBodyState
    <2>2. Tracked /\ pc # "like"
      BY <1>5 DEF StepSystem, Tracked, Tracking
    <2>3. QED
      BY <1>5, <2>1, <2>2, StateTypes DEF StepSystem, BestInv, Window
  <1>6. CASE GetLikelihood
    <2> DEFINE n == st.step
    <2>1. /\ n \in 1..NStep /\ base < n /\ base \in 0..NStep
          /\ Clamp(like[n]) \in 1..Worst
      BY <1>6, LikeTypes, StateTypes DEF GetLikelihood, LastStepInv, BestInv, Tracked, Tracking
    <2>2. \A s \in Window(base) : s \in 1..NStep /\ Clamp(like[s]) \in 1..Worst
      BY LikeTypes DEF Window
    <2>3. /\ st.best < Worst => /\ useBestLike
                                /\ st.tab \in Window(base)
                                /\ st.tab <= n
                                /\ Clamp(like[st.tab]) = st.best
          /\ useBestLike => \A s \in Window(base) : s < n => st.best <= Clamp(like[s])
      BY <1>6, <2>1, <2>2 DEF GetLikelihood, BestInv, Tracked, Tracking
    <2>4. CASE Improves
      <3>1. st'.step = n /\ st'.best = Clamp(like[n]) /\ st'.tab = n
        BY <1>6, <2>4 DEF GetLikelihood, Improved, NBodyState
      <3>2. n \in Window(base) /\ useBestLike /\ Clamp(like[n]) < st.best
        BY <2>1, <2>4 DEF Improves, InWindow, Window
      <3>3. ASSUME NEW s \in Window(base), s <= n PROVE Clamp(like[n]) <= Clamp(like[s])
        BY <2>1, <2>2, <2>3, <3>2, <3>3, StateTypes
      <3>4. UNCHANGED <<like, base, useBestLike>> /\ pc' = "hist"
        BY <1>6, <2>4 DEF GetLikelihood
      <3>5. Window(base)' = Window(base)
        BY <3>4 DEF Window
      <3> HIDE DEF n
      <3>6. QED
        BY <2>1, <3>1, <3>2, <3>3, <3>4, <3>5 DEF BestInv, Clamp
    <2>5. CASE ~Improves
      <3>1. ASSUME NEW s \in Window(base), s <= n, useBestLike PROVE st.best <= Clamp(like[s])
        BY <2>1, <2>2, <2>3, <2>5, <3>1, StateTypes DEF Improves, InWindow, Window
      <3>2. UNCHANGED <<like, base, useBestLike, st>> /\ pc' = "check"
        BY <1>6, <2>5 DEF GetLikelihood
      <3>3. Window(base)' = Window(base)
        BY <3>2 DEF Window
      <3>4. QED
        BY <2>1, <2>3, <3>1, <3>2, <3>3 DEF BestInv, Clamp
    <2>6. QED
      BY <2>4, <2>5
  <1>7. CASE WriteHistogram
    BY <1>7 DEF WriteHistogram, disk, BestInv, Tracked, Tracking, Window
  <1>8. CASE CheckStatus
    BY <1>8 DEF CheckStatus, disk, BestInv, Tracked, Tracking, Window
  <1>9. CASE TimeToCheckpoint
    BY <1>9 DEF TimeToCheckpoint, disk, BestInv, Tracked, Tracking, Window
  <1>10. CASE FinalCheckpoint
    BY <1>10 DEF FinalCheckpoint, disk, BestInv, Tracked, Tracking, Window
  <1>11. CASE CheckpointFails
    BY <1>11 DEF CheckpointFails, disk, BestInv, Tracked, Tracking, Window
  <1>12. CASE OpenTmp
    BY <1>12 DEF OpenTmp, disk, BestInv, Tracked, Tracking, Window
  <1>13. CASE FreezeState
    BY <1>13 DEF FreezeState, disk, BestInv, Tracked, Tracking, Window
  <1>14. CASE RenameTmp
    BY <1>14 DEF RenameTmp, disk, BestInv, Tracked, Tracking, Window
  <1>15. CASE CheckpointCompleted
    BY <1>15 DEF CheckpointCompleted, disk, BestInv, Tracked, Tracking, Window
  <1>16. CASE NextCalibrationRun
    BY <1>16 DEF NextCalibrationRun, disk, BestInv, Tracked, Tracking, Window
  <1>17. CASE EndRuns
    BY <1>17 DEF EndRuns, disk, TypeOK, BestInv, Tracked, Tracking, Window
  <1>18. CASE OpenBodies
    BY <1>18 DEF OpenBodies, disk, BestInv, Tracked, Tracking, Window
  <1>19. CASE OutputBodies
    BY <1>19 DEF OutputBodies, disk, BestInv, Tracked, Tracking, Window
  <1>20. CASE ReportResults
    BY <1>20 DEF ReportResults, disk, BestInv, Tracked, Tracking, Window
  <1>21. CASE RewriteHistogram
    BY <1>21 DEF RewriteHistogram, disk, BestInv, Tracked, Tracking, Window
  <1>22. CASE PrintLikelihood
    BY <1>22 DEF PrintLikelihood, disk, BestInv, Tracked, Tracking, Window
  <1>23. CASE RemoveCheckpoint
    BY <1>23 DEF RemoveCheckpoint, disk, BestInv, Tracked, Tracking, Window
  <1>24. CASE Finish
    BY <1>24 DEF Finish, disk, BestInv, Tracked, Tracking, Window
  <1>25. CASE Crash
    BY <1>25 DEF Crash, disk, BestInv, Tracked, Tracking, Window
  <1>26. CASE Done
    BY <1>26 DEF Done, vars, BestInv, Tracked, Tracking, Window
  <1>27. CASE UNCHANGED vars
    BY <1>27 DEF vars, BestInv, Tracked, Tracking, Window
  <1>28. QED
    BY <1>1, <1>2, <1>3, <1>4, <1>5, <1>6, <1>7, <1>8, <1>9, <1>10, <1>11, <1>12, <1>13, <1>14,
       <1>15, <1>16, <1>17, <1>18, <1>19, <1>20, <1>21, <1>22, <1>23, <1>24, <1>25, <1>26,
       <1>27 DEF Next, Start, Evolve, Checkpoint, Report

\* The output files hold what the report is of.
LEMMA FileStep ==
    ASSUME TypeOK, LastStepInv, BestInv, FileInv, [Next]_vars
    PROVE  FileInv'
  <1>1. CASE NewRun
    BY <1>1 DEF NewRun, Entered, disk, FileInv, Tracked, Tracking
  <1>2. CASE Resume
    BY <1>2 DEF Resume, Entered, disk, FileInv, Tracked, Tracking
  <1>3. CASE StartFails
    BY <1>3 DEF StartFails, disk, FileInv, Tracked, Tracking
  <1>4. CASE BeginRun
    BY <1>4 DEF BeginRun, Reset, NBodyState, FileInv, Tracked, Tracking
  <1>5. CASE StepSystem
    BY <1>5 DEF StepSystem, Stepped, NBodyState, disk, FileInv, Tracked, Tracking
  <1>6. CASE GetLikelihood
    <2>1. CASE Improves
      <3>1. Clamp(like[st.step]) \in 1..Worst
        BY <1>6, LikeTypes, StateTypes DEF GetLikelihood, LastStepInv
      <3>2. QED
        BY <1>6, <2>1, <3>1, StateTypes DEF GetLikelihood, Improved, NBodyState, Improves, FileInv, Tracked, Tracking
    <2>2. CASE ~Improves
      BY <1>6, <2>2 DEF GetLikelihood, FileInv, Tracked, Tracking
    <2>3. QED
      BY <2>1, <2>2
  <1>7. CASE WriteHistogram
    BY <1>7 DEF WriteHistogram, disk, FileInv, Tracked, Tracking
  <1>8. CASE CheckStatus
    BY <1>8 DEF CheckStatus, disk, FileInv, Tracked, Tracking
  <1>9. CASE TimeToCheckpoint
    BY <1>9 DEF TimeToCheckpoint, disk, FileInv, Tracked, Tracking
  <1>10. CASE FinalCheckpoint
    BY <1>10 DEF FinalCheckpoint, disk, FileInv, Tracked, Tracking
  <1>11. CASE CheckpointFails
    BY <1>11 DEF CheckpointFails, disk, FileInv, Tracked, Tracking
  <1>12. CASE OpenTmp
    BY <1>12 DEF OpenTmp, disk, FileInv, Tracked, Tracking
  <1>13. CASE FreezeState
    BY <1>13 DEF FreezeState, disk, FileInv, Tracked, Tracking
  <1>14. CASE RenameTmp
    BY <1>14 DEF RenameTmp, disk, FileInv, Tracked, Tracking
  <1>15. CASE CheckpointCompleted
    BY <1>15 DEF CheckpointCompleted, disk, FileInv, Tracked, Tracking
  <1>16. CASE NextCalibrationRun
    BY <1>16 DEF NextCalibrationRun, disk, FileInv, Tracked, Tracking
  <1>17. CASE EndRuns
    BY <1>17 DEF EndRuns, disk, TypeOK, FileInv, Tracked, Tracking
  <1>18. CASE OpenBodies
    BY <1>18 DEF OpenBodies, disk, FileInv, Tracked, Tracking
  <1>19. CASE OutputBodies
    BY <1>19 DEF OutputBodies, OutputTab, FileInv, Tracked, Tracking
  <1>20. CASE ReportResults
    <2>1. st.step = NStep
      BY <1>20 DEF ReportResults, LastStepInv, Reporting
    <2>2. /\ EndIsWorse' = EndIsWorse
          /\ OutputTab' = OutputTab
      BY <1>20 DEF ReportResults, EndIsWorse, EndLikelihood, OutputTab
    <2>3. EndIsWorse => st.best < Worst
      <3>1. NStep \in 1..NStep /\ like[NStep] \in Likelihoods
        BY LikeTypes
      <3>2. like[NStep] # NaN => EndLikelihood \in 0..Worst
        BY <2>1, <3>1, EndType DEF EndLikelihood
      <3>3. like[NStep] = NaN => EndLikelihood = NaN
        BY <2>1 DEF EndLikelihood, NaN
      <3>4. QED
        BY <3>2, <3>3, StateTypes DEF EndIsWorse
    <2>4. QED
      BY <1>20, <2>2, <2>3 DEF ReportResults, FileInv, Tracked, Tracking
  <1>21. CASE RewriteHistogram
    <2>1. /\ EndIsWorse' = EndIsWorse
          /\ OutputTab' = OutputTab
      BY <1>21 DEF RewriteHistogram, EndIsWorse, EndLikelihood, OutputTab
    <2>2. QED
      BY <1>21, <2>1 DEF RewriteHistogram, FileInv, Tracked, Tracking
  <1>22. CASE PrintLikelihood
    BY <1>22 DEF PrintLikelihood, disk, FileInv, Tracked, Tracking
  <1>23. CASE RemoveCheckpoint
    BY <1>23 DEF RemoveCheckpoint, disk, FileInv, Tracked, Tracking
  <1>24. CASE Finish
    BY <1>24 DEF Finish, disk, FileInv, Tracked, Tracking
  <1>25. CASE Crash
    BY <1>25 DEF Crash, disk, FileInv, Tracked, Tracking
  <1>26. CASE Done
    BY <1>26 DEF Done, vars, FileInv, Tracked, Tracking, EndIsWorse, EndLikelihood, OutputTab
  <1>27. CASE UNCHANGED vars
    BY <1>27 DEF vars, FileInv, Tracked, Tracking, EndIsWorse, EndLikelihood, OutputTab
  <1>28. QED
    BY <1>1, <1>2, <1>3, <1>4, <1>5, <1>6, <1>7, <1>8, <1>9, <1>10, <1>11, <1>12, <1>13, <1>14,
       <1>15, <1>16, <1>17, <1>18, <1>19, <1>20, <1>21, <1>22, <1>23, <1>24, <1>25, <1>26,
       <1>27 DEF Next, Start, Evolve, Checkpoint, Report

\* The report, the histogram and the bodies agree.
LEMMA ReportStep ==
    ASSUME TypeOK, LastStepInv, BestInv, FileInv,
           BestSinceResume, HistMatchesReport, OutMatchesReport, [Next]_vars
    PROVE  (BestSinceResume /\ HistMatchesReport /\ OutMatchesReport)'
  <1>1. CASE NewRun
    BY <1>1 DEF NewRun, Entered, disk, BestSinceResume, HistMatchesReport, OutMatchesReport, Reported
  <1>2. CASE Resume
    BY <1>2 DEF Resume, Entered, disk, BestSinceResume, HistMatchesReport, OutMatchesReport, Reported
  <1>3. CASE StartFails
    BY <1>3 DEF StartFails, disk, BestSinceResume, HistMatchesReport, OutMatchesReport, Reported
  <1>4. CASE BeginRun
    BY <1>4 DEF BeginRun, disk, BestSinceResume, HistMatchesReport, OutMatchesReport, Reported
  <1>5. CASE StepSystem
    BY <1>5 DEF StepSystem, disk, BestSinceResume, HistMatchesReport, OutMatchesReport, Reported
  <1>6. CASE GetLikelihood
    BY <1>6 DEF GetLikelihood, disk, BestSinceResume, HistMatchesReport, OutMatchesReport, Reported
  <1>7. CASE WriteHistogram
    BY <1>7 DEF WriteHistogram, disk, BestSinceResume, HistMatchesReport, OutMatchesReport, Reported
  <1>8. CASE CheckStatus
    BY <1>8 DEF CheckStatus, disk, BestSinceResume, HistMatchesReport, OutMatchesReport, Reported
  <1>9. CASE TimeToCheckpoint
    BY <1>9 DEF TimeToCheckpoint, disk, BestSinceResume, HistMatchesReport, OutMatchesReport, Reported
  <1>10. CASE FinalCheckpoint
    BY <1>10 DEF FinalCheckpoint, disk, BestSinceResume, HistMatchesReport, OutMatchesReport, Reported
  <1>11. CASE CheckpointFails
    BY <1>11 DEF CheckpointFails, disk, BestSinceResume, HistMatchesReport, OutMatchesReport, Reported
  <1>12. CASE OpenTmp
    BY <1>12 DEF OpenTmp, disk, BestSinceResume, HistMatchesReport, OutMatchesReport, Reported
  <1>13. CASE FreezeState
    BY <1>13 DEF FreezeState, disk, BestSinceResume, HistMatchesReport, OutMatchesReport, Reported
  <1>14. CASE RenameTmp
    BY <1>14 DEF RenameTmp, disk, BestSinceResume, HistMatchesReport, OutMatchesReport, Reported
  <1>15. CASE CheckpointCompleted
    BY <1>15 DEF CheckpointCompleted, disk, BestSinceResume, HistMatchesReport, OutMatchesReport, Reported
  <1>16. CASE NextCalibrationRun
    BY <1>16 DEF NextCalibrationRun, disk, BestSinceResume, HistMatchesReport, OutMatchesReport, Reported
  <1>17. CASE EndRuns
    BY <1>17 DEF EndRuns, disk, TypeOK, BestSinceResume, HistMatchesReport, OutMatchesReport, Reported
  <1>18. CASE OpenBodies
    BY <1>18 DEF OpenBodies, disk, BestSinceResume, HistMatchesReport, OutMatchesReport, Reported
  <1>19. CASE OutputBodies
    BY <1>19 DEF OutputBodies, disk, BestSinceResume, HistMatchesReport, OutMatchesReport, Reported
  <1>20. CASE ReportResults
    BY <1>20 DEF ReportResults, disk, BestSinceResume, HistMatchesReport, OutMatchesReport, Reported
  <1>21. CASE RewriteHistogram
    BY <1>21 DEF RewriteHistogram, disk, BestSinceResume, HistMatchesReport, OutMatchesReport, Reported
  <1>22. CASE PrintLikelihood
    <2> DEFINE e == Clamp(like[NStep])
    <2>1. st.step = NStep /\ Tracked
      BY <1>22 DEF PrintLikelihood, LastStepInv, Reporting, Tracked, Tracking
    <2>2. NStep \in 1..NStep /\ like[NStep] \in Likelihoods /\ e \in 1..Worst
      BY LikeTypes
    <2>3. like[NStep] # NaN => EndLikelihood = e /\ e # NaN
      BY <2>1, <2>2, EndType DEF EndLikelihood
    <2>4. like[NStep] = NaN => EndLikelihood = NaN /\ ~EndIsWorse /\ e = Worst
      BY <2>1, <2>2 DEF EndLikelihood, EndIsWorse, NaN, Clamp
    <2>5. /\ st.best < Worst => /\ useBestLike
                                /\ st.tab \in Window(base)
                                /\ Clamp(like[st.tab]) = st.best
          /\ useBestLike => \A s \in Window(base) : st.best <= Clamp(like[s])
      BY <1>22, <2>1 DEF PrintLikelihood, BestInv, Window
    <2>6. /\ hist = IF EndIsWorse THEN st.tab ELSE NStep
          /\ out = OutputTab
      BY <1>22, <2>1 DEF PrintLikelihood, FileInv
    <2>7. EndIsWorse => /\ useBestLike /\ like[NStep] # NaN
                        /\ st.best < e
                        /\ st.best < Worst
                        /\ reported' = st.best
      BY <1>22, <2>2, <2>3, <2>4, StateTypes DEF PrintLikelihood, EndIsWorse
    <2>8. ~EndIsWorse => /\ reported' = e
                         /\ useBestLike /\ like[NStep] # NaN => e <= st.best
      BY <1>22, <2>2, <2>3, <2>4, StateTypes DEF PrintLikelihood, EndIsWorse
    <2>9. UNCHANGED <<like, useBestLike, st, base, hist, out>>
      BY <1>22 DEF PrintLikelihood, disk
    <2>10. \A s \in Window(base) : s \in 1..NStep /\ Clamp(like[s]) \in 1..Worst
      BY LikeTypes DEF Window
    <2>11. HistMatchesReport'
      <3>1. hist \in 1..NStep /\ Clamp(like[hist]) = reported'
        BY <2>2, <2>5, <2>6, <2>7, <2>8, <2>10
      <3>2. QED
        BY <3>1, <2>9 DEF HistMatchesReport, Clamp
    <2>12. ASSUME like[NStep] # NaN PROVE out \in 1..NStep /\ Clamp(like[out]) = reported'
      <3>1. CASE ~useBestLike \/ st.best = Worst
        BY <2>1, <2>2, <2>6, <2>7, <2>8, <3>1 DEF OutputTab
      <3>2. CASE useBestLike /\ st.best # Worst
        <4>1. st.best < Worst /\ out = st.tab
          BY <2>6, <3>2, StateTypes DEF OutputTab
        <4>2. NStep \in Window(base)
          BY <2>2, <2>5, <4>1, StateTypes DEF Window
        <4>3. st.best <= e
          BY <2>5, <3>2, <4>2
        <4>4. reported' = st.best
          BY <2>2, <2>7, <2>8, <2>12, <3>2, <4>3, StateTypes
        <4>5. QED
          BY <2>5, <2>10, <4>1, <4>4
      <3>3. QED
        BY <3>1, <3>2
    <2>13. OutMatchesReport'
      BY <2>9, <2>12 DEF OutMatchesReport, Clamp
    <2>14. ASSUME useBestLike, like[NStep] # NaN
           PROVE  IsBestOf(reported', Window(base))
      <3>1. \A s \in Window(base) \cup {NStep} : reported' <= Clamp(like[s])
        BY <2>2, <2>5, <2>7, <2>8, <2>10, <2>14, StateTypes
      <3>2. \E s \in Window(base) \cup {NStep} : reported' = Clamp(like[s])
        BY <2>5, <2>7, <2>8
      <3>3. QED
        BY <3>1, <3>2 DEF IsBestOf
    <2>15. BestSinceResume'
      BY <2>9, <2>14 DEF BestSinceResume, IsBestOf, Window, Clamp
    <2>16. QED
      BY <2>11, <2>13, <2>15
  <1>23. CASE RemoveCheckpoint
    BY <1>23 DEF RemoveCheckpoint, BestSinceResume, HistMatchesReport, OutMatchesReport, Reported, IsBestOf, Window, Clamp
  <1>24. CASE Finish
    BY <1>24 DEF Finish, disk, BestSinceResume, HistMatchesReport, OutMatchesReport, Reported, IsBestOf, Window, Clamp
  <1>25. CASE Crash
    BY <1>25 DEF Crash, disk, BestSinceResume, HistMatchesReport, OutMatchesReport, Reported
  <1>26. CASE Done
    BY <1>26 DEF Done, vars, BestSinceResume, HistMatchesReport, OutMatchesReport, Reported, IsBestOf, Window, Clamp
  <1>27. CASE UNCHANGED vars
    BY <1>27 DEF vars, BestSinceResume, HistMatchesReport, OutMatchesReport, Reported, IsBestOf, Window, Clamp
  <1>28. QED
    BY <1>1, <1>2, <1>3, <1>4, <1>5, <1>6, <1>7, <1>8, <1>9, <1>10, <1>11, <1>12, <1>13, <1>14,
       <1>15, <1>16, <1>17, <1>18, <1>19, <1>20, <1>21, <1>22, <1>23, <1>24, <1>25, <1>26,
       <1>27 DEF Next, Start, Evolve, Checkpoint, Report

LEMMA InitInv == Init => IInv
  <1> SUFFICES ASSUME Init PROVE IInv
    OBVIOUS
  <1>1. st = Fresh /\ pc = "down" /\ acked = 0 /\ ckpt = NoFile /\ tmp = NoFile
    BY DEF Init
  <1>2. useBestLike \in BOOLEAN /\ final \in BOOLEAN
    BY Zenon DEF Init
  <1>3. 0 \in 0..CalibrationRuns /\ 0 \in Steps
    BY DEF Steps
  <1>4. TypeOK
    BY <1>1, <1>2, <1>3, FreshType DEF Init, TypeOK, Files
  <1>5. CheckpointWhole /\ CheckpointDurable
    BY <1>1 DEF CheckpointWhole, CheckpointDurable, NoFile, Torn, Running
  <1>6. LastStepInv /\ TmpInv /\ AckInv /\ BestInv /\ FileInv
    BY <1>1 DEF LastStepInv, Reporting, TmpInv, AckInv, BestInv, Tracked, Tracking, FileInv
  <1>7. BestSinceResume /\ HistMatchesReport /\ OutMatchesReport
    BY <1>1 DEF BestSinceResume, HistMatchesReport, OutMatchesReport, Reported
  <1>8. QED
    BY <1>4, <1>5, <1>6, <1>7 DEF IInv

\* IInv is an invariant: each part is kept by the lemma about it.
THEOREM RunInvariant == Spec => []IInv
  <1>1. IInv /\ [Next]_vars => IInv'
    <2> SUFFICES ASSUME IInv, [Next]_vars PROVE IInv'
      OBVIOUS
    <2> USE DEF IInv
    <2>1. TypeOK'
      BY TypeStep
    <2>2. CheckpointWhole' /\ TmpInv' /\ AckInv'
      BY FilesStep
    <2>3. LastStepInv'
      BY LastStepStep
    <2>4. CheckpointDurable'
      BY DurableStep
    <2>5. BestInv'
      BY BestStep
    <2>6. FileInv'
      BY FileStep
    <2>7. BestSinceResume' /\ HistMatchesReport' /\ OutMatchesReport'
      BY ReportStep
    <2>8. QED
      BY <2>1, <2>2, <2>3, <2>4, <2>5, <2>6, <2>7
  <1>2. QED
    BY <1>1, InitInv, PTL DEF Spec

\* Every variable of the run keeps its type: no step leaves 0..nStep, and only
\* numbers between the best and the worst case are reported.
THEOREM TypeCorrect == Spec => []TypeOK
  BY RunInvariant, PTL DEF IInv

\* A kill at any point of nbWriteCheckpointWithTmpFile leaves a whole checkpoint.
THEOREM WholeCheckpoints == Spec => []CheckpointWhole
  BY RunInvariant, PTL DEF IInv

\* No incarnation works on a step before the last checkpoint the client was
\* told of through mw_checkpoint_completed.
THEOREM DurableCheckpoints == Spec => []CheckpointDurable
  BY RunInvariant, PTL DEF IInv

\* The reported likelihood is the best of the steps since the last resume
\* (get_likelihood and nbReportResults).
THEOREM ReportsBest == Spec => []BestSinceResume
  BY RunInvariant, PTL DEF IInv

\* The histogram nbReportResults leaves on the disk is the reported likelihood's.
THEOREM HistogramAgrees == Spec => []HistMatchesReport
  BY RunInvariant, PTL DEF IInv

\* The bodies nbWriteBodies leaves on the disk are the reported likelihood's.
THEOREM BodiesAgree == Spec => []OutMatchesReport
  BY RunInvariant, PTL DEF IInv

\* Bodies at step 0 are untouched, and an evolution from there has one forward time.
LEMMA ForwardStep ==
    ASSUME TypeOK, LastStepInv, ForwardInv, [Next]_vars
    PROVE  ForwardInv'
  <1>1. CASE NewRun
    BY <1>1 DEF NewRun, Entered, disk, Fresh, NBodyState, ForwardInv, Untouched, Tracked, Tracking, Reported
  <1>2. CASE Resume
    <2>1. st'.step = ckpt.st.step /\ st'.fwds = ckpt.st.fwds /\ initialState' = Fresh
      BY <1>2 DEF Resume, Entered, Thawed, NBodyState
    <2>2. Untouched(Fresh)
      BY DEF Fresh, NBodyState, Untouched
    <2>3. QED
      BY <1>2, <2>1, <2>2 DEF Resume, disk, ForwardInv, Untouched, Tracked, Tracking, Reported
  <1>3. CASE StartFails
    BY <1>3 DEF StartFails, disk, ForwardInv, Untouched, Tracked, Tracking, Reported
  <1>4. CASE BeginRun
    <2>1. Untouched(initialState)'
      BY <1>4 DEF BeginRun, Cloned, NBodyState, ForwardInv, Untouched
    <2>2. ckpt' = ckpt /\ tmp' = tmp
      BY <1>4 DEF BeginRun, disk
    <2>3. CASE st' = Reset(st) /\ base' = st.step /\ pc' = "step"
      <3>1. st'.step = st.step /\ st'.fwds = st.fwds
        BY <2>3 DEF Reset, NBodyState
      <3>2. QED
        BY <2>1, <2>2, <2>3, <3>1 DEF ForwardInv, Untouched, Reported
    <2>4. CASE st' = st /\ pc' = "end" /\ rc' = "fatal"
      BY <2>1, <2>2, <2>4 DEF ForwardInv, Untouched, Tracked, Reported
    <2>5. QED
      BY <1>4, <2>3, <2>4 DEF BeginRun
  <1>5. CASE StepSystem
    <2>1. st'.step = st.step + 1 /\ st'.fwds = st.fwds \cup {st.fwd} /\ st'.fwd = st.fwd
      BY <1>5 DEF StepSystem, Stepped, NBodyState
    <2>2. st.step \in Nat /\ st.step + 1 # 0
      BY DEF TypeOK, States, Steps
    <2>3. base = 0 => st.fwds \cup {st.fwd} = {st.fwd}
      BY <1>5 DEF StepSystem, ForwardInv, Tracked, Tracking
    <2>4. QED
      BY <1>5, <2>1, <2>2, <2>3 DEF StepSystem, disk, ForwardInv, Untouched, Tracked, Tracking, Reported
  <1>6. CASE GetLikelihood
    <2>1. st'.step = st.step /\ st'.fwds = st.fwds /\ st'.fwd = st.fwd
      BY <1>6 DEF GetLikelihood, Improved, NBodyState
    <2>2. QED
      BY <1>6, <2>1 DEF GetLikelihood, ForwardInv, Untouched, Tracked, Tracking, Reported
  <1>7. CASE WriteHistogram
    BY <1>7 DEF WriteHistogram, disk, ForwardInv, Untouched, Tracked, Tracking, Reported
  <1>8. CASE CheckStatus
    BY <1>8 DEF CheckStatus, disk, ForwardInv, Untouched, Tracked, Tracking, Reported
  <1>9. CASE TimeToCheckpoint
    BY <1>9 DEF TimeToCheckpoint, disk, ForwardInv, Untouched, Tracked, Tracking, Reported
  <1>10. CASE FinalCheckpoint
    BY <1>10 DEF FinalCheckpoint, disk, ForwardInv, Untouched, Tracked, Tracking, Reported
  <1>11. CASE CheckpointFails
    BY <1>11 DEF CheckpointFails, disk, ForwardInv, Untouched, Tracked, Tracking, Reported
  <1>12. CASE OpenTmp
    BY <1>12 DEF OpenTmp, Torn, ForwardInv, Untouched, Tracked, Tracking, Reported
  <1>13. CASE FreezeState
    BY <1>13 DEF FreezeState, disk, ForwardInv, Untouched, Tracked, Tracking, Reported
  <1>14. CASE RenameTmp
    BY <1>14 DEF RenameTmp, NoFile, ForwardInv, Untouched, Tracked, Tracking, Reported
  <1>15. CASE CheckpointCompleted
    BY <1>15 DEF CheckpointCompleted, disk, ForwardInv, Untouched, Tracked, Tracking, Reported
  <1>16. CASE NextCalibrationRun
    BY <1>16 DEF NextCalibrationRun, disk, Cloned, NBodyState, ForwardInv, Untouched, Tracked, Tracking, Reported
  <1>17. CASE EndRuns
    BY <1>17 DEF EndRuns, disk, TypeOK, ForwardInv, Untouched, Tracked, Tracking, Reported
  <1>18. CASE OpenBodies
    BY <1>18 DEF OpenBodies, disk, ForwardInv, Untouched, Tracked, Tracking, Reported
  <1>19. CASE OutputBodies
    BY <1>19 DEF OutputBodies, disk, ForwardInv, Untouched, Tracked, Tracking, Reported
  <1>20. CASE ReportResults
    BY <1>20 DEF ReportResults, disk, ForwardInv, Untouched, Tracked, Tracking, Reported
  <1>21. CASE RewriteHistogram
    BY <1>21 DEF RewriteHistogram, disk, ForwardInv, Untouched, Tracked, Tracking, Reported
  <1>22. CASE PrintLikelihood
    BY <1>22 DEF PrintLikelihood, disk, LastStepInv, Reporting, ForwardInv, Untouched, Tracked, Tracking, Reported
  <1>23. CASE RemoveCheckpoint
    BY <1>23 DEF RemoveCheckpoint, NoFile, ForwardInv, Untouched, Tracked, Tracking, Reported
  <1>24. CASE Finish
    BY <1>24 DEF Finish, disk, ForwardInv, Untouched, Tracked, Tracking, Reported
  <1>25. CASE Crash
    BY <1>25 DEF Crash, Fresh, NBodyState, NoFile, ForwardInv, Untouched, Tracked, Tracking, Reported
  <1>26. CASE Done
    BY <1>26 DEF Done, vars, ForwardInv, Untouched, Tracked, Tracking, Reported
  <1>27. CASE UNCHANGED vars
    BY <1>27 DEF vars, ForwardInv, Untouched, Tracked, Tracking, Reported
  <1>28. QED
    BY <1>1, <1>2, <1>3, <1>4, <1>5, <1>6, <1>7, <1>8, <1>9, <1>10, <1>11, <1>12, <1>13, <1>14,
       <1>15, <1>16, <1>17, <1>18, <1>19, <1>20, <1>21, <1>22, <1>23, <1>24, <1>25, <1>26,
       <1>27 DEF Next, Start, Evolve, Checkpoint, Report

\* The bodies nbReportResults reports were integrated with one forward time, if
\* their evolution began at step 0 in the reporting process, however many
\* calibration runs set it back to the clone of the initial state before.
THEOREM OneForwardTime == Spec => []ForwardTimeOfRun
  <1>1. Init => ForwardInv
    BY DEF Init, Fresh, NBodyState, NoFile, ForwardInv, Untouched, Tracked, Tracking, Reported
  <1>2. IInv /\ ForwardInv /\ [Next]_vars => ForwardInv'
    BY ForwardStep DEF IInv
  <1>3. ForwardInv => ForwardTimeOfRun
    <2> SUFFICES ASSUME ForwardInv, base = 0, Reported PROVE Cardinality(st.fwds) = 1
      BY DEF ForwardTimeOfRun
    <2>1. st.fwds = {st.fwd}
      BY DEF ForwardInv
    <2>2. QED
      BY <2>1, FS_Singleton
  <1>4. QED
    BY <1>1, <1>2, <1>3, RunInvariant, PTL DEF Spec

=============================================================================
