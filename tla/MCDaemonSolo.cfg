SPECIFICATION FairSpec
CONSTANTS
  Threads = {t1}
  Templates <- MCTemplates
  NoTemplate = NoTemplate
  MinedCap = 1
  MaxFound = 2
INVARIANTS
  TemplateOnFile
  BlockOfItsCandidate
  SoloTally
PROPERTIES
  SoloStopsOnCtrlC
  FollowsDaemon
