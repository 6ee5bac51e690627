CONSTANTS
  QueueSize = 3
  NSteps = 5
  Bodies = {b1, b2}
  MaxKills = 1
SPECIFICATION FairSpec
INVARIANT NoTornSnapshot
PROPERTIES ShownInOrder ImplementsFIFO PublishedIsShown
