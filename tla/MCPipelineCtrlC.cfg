SPECIFICATION FairSpec
CONSTANTS
  MinedCap = 1
  SubmitCap = 1
  EventCap = 1
  own = own
  other = other
  Certs = {own, other}
  NoCert = NoCert
  BadPin = BadPin
  Configs <- MCMining
  MaxName = 2
  MaxShares = 3
PROPERTIES
  StopsOnCtrlC
CHECK_DEADLOCK FALSE
