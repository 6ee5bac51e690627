CONSTANTS
  NBody = 4
  NNode = 9
  MaxDepth = 3
  Placements <- MCPlacements
  Modes <- MCModes
  MaxSteps = 2
  NotReady = NotReady
SPECIFICATION FairSpec
INVARIANTS LoadedStay BuiltTree SummedExactly EachMassOnce StackBounded FaultReported
PROPERTIES StepsEnd
CHECK_DEADLOCK FALSE
