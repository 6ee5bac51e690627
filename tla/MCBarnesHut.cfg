CONSTANTS
  NBody = 3
  NDim = 2
  Places <- MCPlaces
  Masses <- MCMasses
  RSize = 8
  Epsilon = 2
  Theta <- MCTheta
  Contexts <- MCContexts
  MaxCells = 9
  MaxSteps = 2
SPECIFICATION Spec
INVARIANTS ActsOnce CellsKept OwnCellOpened CrowdedOnly
CHECK_DEADLOCK FALSE
