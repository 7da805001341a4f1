CONSTANTS
  PlayCap = 2
  CaptCap = 3
  SendFrames = 2
  StallWrites = 1
  MaxFaults = 1
SPECIFICATION FairSpec
INVARIANTS
  PlayedOnce
  SentOnce
  
PROPERTIES
  StallHeals
CHECK_DEADLOCK FALSE
