SPECIFICATION Spec
CONSTANTS
  TotalWUs = 2
  NCuts = 2
  NuSteps = 2
  MuSteps = 2
  CheckpointSpacing = 1
  UIntMod = 256
  Tasks <- AllTasks
  MaxPrints = 2
INVARIANTS ResultsExact NothingSkipped FirstPrintedOnce
PROPERTY ProgressKept
