SPECIFICATION Spec
CONSTANTS
  ByteBase = 4
  DefaultTarget <- MCDefaultTarget
  Messages <- MCMessages
  Missing = Missing
  NotHex = NotHex
  None = None
INVARIANTS
  GoodSharesSubmitted
  NoShareInVain
  AnnouncedIsHashed
CHECK_DEADLOCK FALSE
