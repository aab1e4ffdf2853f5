SPECIFICATION FairMinerSpec
CONSTANTS
  k1 = k1
  k2 = k2
  Keys = {k1, k2}
  NoKey = NoKey
  NoJob = NoJob
  ThreadCount = 1
  Workers = {0}
  Jobs <- MCOneJob
  LoSize = 2
  HiSize = 2
  BatchSize = 2
  PipelineSize = 2
  MinedCap = 1
PROPERTIES
  LightModeFallback
CHECK_DEADLOCK FALSE
