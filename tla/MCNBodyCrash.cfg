SPECIFICATION Spec
CONSTANTS
  NStep = 3
  StartStep = 2
  Worst = 3
  Likelihoods <- AllLikelihoods
  CalibrationRuns = 0
  MayCrash = TRUE
  MayFail = TRUE
INVARIANTS CheckpointWhole CheckpointDurable BestSinceResume HistMatchesReport OutMatchesReport
