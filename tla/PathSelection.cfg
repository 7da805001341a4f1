CONSTANTS
  DirectTimeout = 4
  HeadStart = 1
  Grace = 1
  Wait = 4
  MaxDelay = 1
  QuicDelay = 1
  DirectOnly = {"dialer"}
  MaxSkew = 1
  MaxLost = 1
SPECIFICATION FairSpec
CHECK_DEADLOCK FALSE
INVARIANTS
  PathsAgree
  DirectHasPeer
  ConnectsInTime
PROPERTIES
  ConnectDecides
