CONSTANTS
  q1 = q1
  q2 = q2
  q3 = q3
  w1 = w1
  alice = alice
  bob = bob
  carol = carol
  callRoom = callRoom
  openRoom = openRoom
  NoFp = NoFp
  Conn = {q1, q2, w1}
  WsConn = {w1}
  Fp = {alice, bob}
  Room = {openRoom}
  CallRoom = {}
  Caller <- MCNone
  Callee <- MCNone
  MaxSessions = 2
  AuthEnabled = TRUE
SPECIFICATION FairSpec
PROPERTIES
  EvictedTasksEnd
