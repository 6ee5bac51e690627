CONSTANTS
  NStep = 3
  MaxKills = 1
  Options <- Plain
  MayFail = FALSE
SPECIFICATION FairSpec
INVARIANT SameAsUninterrupted
CHECK_DEADLOCK FALSE
