SPECIFICATION FairMinerSpec
CONSTANTS
  k1 = k1
  k2 = k2
  Keys = {k1, k2}
  NoKey = NoKey
  NoJob = NoJob
  ThreadCount = 2
  Workers = {0, 1}
  Jobs <- MCSeedJobs
  LoSize = 2
  HiSize = 2
  BatchSize = 2
  PipelineSize = 2
  MinedCap = 1
INVARIANTS
  VmOfItsJob
PROPERTIES
  FollowsLatest
CHECK_DEADLOCK FALSE
