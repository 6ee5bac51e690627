CONSTANTS
  Vis = {v1, v2}
  NoPid = NoPid
  SimPid = SimPid
  Capacity = 1
  WaitPeriods = 1
  NSteps = 2
  BlockModes = {TRUE, FALSE}
  PeriodModes = {TRUE}
  Launched = {v1, NoPid}
  MaxKills = 1
  MaxSignals = 1
SPECIFICATION SimFairSpec
INVARIANT CasExclusive
PROPERTIES BlockedOnlyByPause DeadNeverBlock LaunchReturns WaitEnds GraphicsQuit
CHECK_DEADLOCK FALSE
