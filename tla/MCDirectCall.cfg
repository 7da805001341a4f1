SPECIFICATION FairSpec
CONSTANTS
  r1 = r1
  r2 = r2
  ann = ann
  bob = bob
  cat = cat
  a1 = a1
  a2 = a2
  b1 = b1
  c1 = c1
  k1 = k1
  k2 = k2
  NoRelay = NoRelay
  NoConn = NoConn
  NoCall = NoCall
  Relay = {r1}
  Fp = {ann, bob}
  Conn = {a1, b1}
  Call = {k1, k2}
  Home <- OneHome
  ConnFp <- OneConnFp
  Caller <- OneCaller
  Callee <- OneCallee
  LossyLinks = TRUE
  OldClients = {bob}
INVARIANTS
  CallsHaveAnEnder
PROPERTIES
  RingingStops
  AcceptConnects
