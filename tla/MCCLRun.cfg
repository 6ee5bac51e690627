CONSTANTS
  NStep = 3
  MaxKills = 2
  Options <- Every
  MayFail = TRUE
SPECIFICATION FairSpec
INVARIANTS StepsAccounted KicksAccounted FaultsNoticed
PROPERTIES ProgressKept RunEnds
CHECK_DEADLOCK FALSE
