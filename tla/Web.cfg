\* Two tabs, of one user or of two, whose users wait for reconnects.
CONSTANTS
  c1 = c1  c2 = c2  c3 = c3
  alice = alice  bob = bob
  r1 = r1  r2 = r2  p1 = p1
  t1 = t1  t2 = t2
  Conns = {c1, c2, c3}
  Users = {alice, bob}
  Rooms = {r1}
  Passwords = {p1}
  Logins <- LoginsOfTwo
  Tabs = {t1, t2}
  NoConn = NoConn  NoUser = NoUser  NoRoom = NoRoom  NoPwd = NoPwd  NoTab = NoTab
  Escape <- PlainEscape
  Timeout = 0
  IdleLimit = 0
  OneUser = TRUE  OneRoom = TRUE  SoleCreate = TRUE
  Patient = TRUE
  MaxAsks = 2
  MaxFaults = 1
SPECIFICATION WFairSpec
INVARIANTS WTypeOK ReplacedByOther HeartbeatRuns NoMissingPeer
PROPERTIES Rejoined NoGhost TugEnds
CHECK_DEADLOCK FALSE
