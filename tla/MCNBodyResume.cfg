SPECIFICATION Spec
CONSTANTS
  NStep = 3
  StartStep = 1
  Worst = 3
  Likelihoods <- FiniteLikelihoods
  CalibrationRuns = 0
  MayCrash = TRUE
  MayFail = FALSE
INVARIANT BestOfWindow
