SPECIFICATION FairSpec
CONSTANTS
  Sizes <- MCSizes
  MostFillers = 5
  MaxThreads = 3
  MaxHashes = 1
INVARIANTS
  EachItemOnce
  HandlesLive
  HandlesReleased
  StartTogether
  ResultIsComplete
  BestPoint
PROPERTIES
  EndsIfVmsCreated
CHECK_DEADLOCK FALSE
