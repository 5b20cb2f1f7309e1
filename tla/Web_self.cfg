\* One tab whose user does not wait for a reconnect.
CONSTANTS
  c1 = c1  c2 = c2  c3 = c3
  alice = alice  bob = bob
  r1 = r1  r2 = r2  p1 = p1
  t1 = t1  t2 = t2
  Conns = {c1, c2, c3}
  Users = {alice, bob}
  Rooms = {r1}
  Passwords = {p1}
  Logins <- LoginOfOne
  Tabs = {t1}
  NoConn = NoConn  NoUser = NoUser  NoRoom = NoRoom  NoPwd = NoPwd  NoTab = NoTab
  Escape <- PlainEscape
  Timeout = 0
  IdleLimit = 0
  OneUser = TRUE  OneRoom = FALSE  SoleCreate = TRUE
  Patient = FALSE
  MaxAsks = 2
  MaxFaults = 1
SPECIFICATION WSpec
INVARIANT ReplacedByOther
CHECK_DEADLOCK FALSE
