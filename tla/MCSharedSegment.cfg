CONSTANTS
  Sim = {1, 2}
  Pid = {1, 2}
  MaxInstances = 2
  Geometry <- MCGeometry
  Runs <- MCRuns
  Tolerated = {"blind", "refused", "killed"}
  Seg = {1, 2, 3, 4}
  NoSeg = 0
SPECIFICATION Spec
INVARIANTS SceneIsMine MappedWhole DisownedRemoved
CHECK_DEADLOCK FALSE
