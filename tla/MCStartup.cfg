SPECIFICATION FairSpec
CONSTANTS
  Absent = Absent
  Blank = Blank
  poolA = poolA
  poolB = poolB
  front = front
  own = own
  Inputs <- MCInputs
  Messages <- MCMessages
INVARIANTS
  StartupTypeOK
  EnabledPoolUsed
  ThreadsSpread
  NameSurvivesDoh
  ParsesWhatItGot
PROPERTIES
  ConnectsAnyway
CHECK_DEADLOCK FALSE
