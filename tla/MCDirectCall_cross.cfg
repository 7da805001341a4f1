SPECIFICATION Spec
CONSTANTS
  r1 = r1
  r2 = r2
  ann = ann
  bob = bob
  cat = cat
  a1 = a1
  a2 = a2
  b1 = b1
  c1 = c1
  k1 = k1
  k2 = k2
  NoRelay = NoRelay
  NoConn = NoConn
  NoCall = NoCall
  Relay = {r1, r2}
  Fp = {ann, cat}
  Conn = {a1, a2, c1}
  Call = {k1}
  Home <- TwoHome
  ConnFp <- TwoConnFp
  Caller <- TwoCaller
  Callee <- TwoCallee
  LossyLinks = TRUE
  OldClients = {ann, cat}
INVARIANTS
  HubEntriesServed
  RejectedNeverConnects
  ActiveCallsRouted
PROPERTIES
  ImplementsCallLife
