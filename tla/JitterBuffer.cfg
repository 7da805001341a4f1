CONSTANTS
  SeqMod = 64
  HalfWindow = 13
  ResetDistance = 6
  MaxDepth = 3
  MinDepth = 2
  First = 60
  MaxSenders = 3
  MaxEmitted = 10
  Reach = 3
SPECIFICATION JitterSpec
INVARIANTS
  PlayoutNotAhead
PROPERTIES
  PlayedInOrder
CHECK_DEADLOCK FALSE
