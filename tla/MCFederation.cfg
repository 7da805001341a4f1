CONSTANTS
  hub = hub
  east = east
  west = west
  ann = ann
  bob = bob
  cyd = cyd
  raw = raw
  hashed = hashed
  NoLink = NoLink
  Relay = {hub, east, west}
  Client = {bob}
  RoomName = {raw}
  Home <- MCHome
  NameOf <- MCNameOf
  Canonical <- MCCanonical
  Peers <- MCMixed
  MaxConns = 2
  MaxJoins = 2
  MaxFaults = 2
  EventCap = 1
SPECIFICATION Spec
CHECK_DEADLOCK FALSE
INVARIANTS
  LinksServed
  
PROPERTIES
  SweepSparesTheHeard
