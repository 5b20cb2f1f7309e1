\* One punctual client, one that may fall silent.
CONSTANTS
  c1 = c1  c2 = c2  c3 = c3
  alice = alice  bob = bob
  r1 = r1  r2 = r2  p1 = p1
  Conns = {c1, c2}
  Users = {alice}
  Rooms = {r1}
  Passwords = {p1}
  NoConn = NoConn  NoUser = NoUser  NoRoom = NoRoom  NoPwd = NoPwd
  Escape <- PlainEscape
  Timeout = 3
  IdleLimit = 2
  OneUser = TRUE  OneRoom = TRUE  SoleCreate = TRUE
  HbPeriod = 1
  Punctual = {c1}
SPECIFICATION TFairSpec
PROPERTIES BeatingSurvives SilentSeatGivenUp EmptyRoomReaped
