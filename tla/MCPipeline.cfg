SPECIFICATION FairSpec
CONSTANTS
  MinedCap = 1
  SubmitCap = 2
  EventCap = 1
  own = own
  other = other
  Certs = {own, other}
  NoCert = NoCert
  BadPin = BadPin
  Configs <- MCConfigs
  MaxName = 2
  MaxShares = 3
INVARIANTS
  AnswersTally
  LoginKnown
  PinnedCertificate
  LinkAsConfigured
PROPERTIES
  SharesDelivered
  StopsUnlessQueueFull
  ReconnectsUnlessStuck
CHECK_DEADLOCK FALSE
