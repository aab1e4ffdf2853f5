SPECIFICATION HistorySpec
CONSTANTS
  k1 = k1
  k2 = k2
  Keys = {k1, k2}
  NoKey = NoKey
  NoJob = NoJob
  ThreadCount = 2
  Workers = {0, 1}
  Jobs <- MCZeroJobs
  LoSize = 4
  HiSize = 2
  BatchSize = 4
  PipelineSize = 2
  MinedCap = 1
INVARIANTS
  ReservedKept
CHECK_DEADLOCK FALSE
