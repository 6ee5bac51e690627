CONSTANTS
  Vis = {v1, v2, v3}
  NoPid = NoPid
  SimPid = SimPid
  Capacity = 1
  WaitPeriods = 1
  NSteps = 1
  BlockModes = {FALSE}
  PeriodModes = {FALSE}
  Launched = {NoPid}
  MaxKills = 1
  MaxSignals = 0
SPECIFICATION Spec
INVARIANTS ExclusiveAccess
SYMMETRY VisSymmetry
CHECK_DEADLOCK FALSE
