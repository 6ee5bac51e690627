SPECIFICATION FairSpec
CONSTANTS
  NStep = 3
  StartStep = 2
  Worst = 2
  Likelihoods <- FewLikelihoods
  CalibrationRuns = 1
  MayCrash = TRUE
  MayFail = FALSE
INVARIANT ForwardTimeOfRun
PROPERTY Completes
