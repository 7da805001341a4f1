CONSTANTS
  Relay = {ra, rb}
  NoRelay = NoRelay
  NoConn = NoConn
  MaxCommands = 3
  MaxConns = 6
  MaxFaults = 2
SPECIFICATION FairSpec
CHECK_DEADLOCK FALSE
INVARIANTS
  TransportServed
  GuardHeld
PROPERTIES
  KeepsConnected
