\* Sessions that reach the server in order, a user's LEAVE before its next JOIN,
\* one session to a connection.
CONSTANTS
  c1 = c1  c2 = c2  c3 = c3
  alice = alice  bob = bob
  r1 = r1  r2 = r2
  Conns = {c1, c2, c3}
  Users = {alice, bob}
  Rooms = {r1, r2}
  NoConn = NoConn  NoRoom = NoRoom  NoSeat = NoSeat
  OneRoom = TRUE
  OwnSeat = TRUE
SPECIFICATION Spec
INVARIANTS TypeOK NoDanglingTcp SeatHeard NoGhostVoice RecordingFollowsUsers
PROPERTY RegistrySpec
SYMMETRY Symmetry
