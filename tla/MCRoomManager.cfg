CONSTANTS
  q1 = q1
  q2 = q2
  q3 = q3
  w1 = w1
  alice = alice
  bob = bob
  carol = carol
  callRoom = callRoom
  openRoom = openRoom
  NoFp = NoFp
  Conn = {q1, q2, q3, w1}
  WsConn = {w1}
  Fp = {alice, bob, carol}
  Room = {callRoom}
  CallRoom = {callRoom}
  Caller <- MCCaller
  Callee <- MCCallee
  MaxSessions = 3
  AuthEnabled = FALSE
SPECIFICATION Spec
SYMMETRY ConnSymmetry
INVARIANTS
  NoGhosts
  OnePerFingerprint
  QualitiesMatchRoster
  CallRoomLimit
  SessionAccounting
