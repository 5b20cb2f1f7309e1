\* A room is created while an older connection of the user is still up.
CONSTANTS
  c1 = c1  c2 = c2  c3 = c3
  alice = alice  bob = bob
  r1 = r1  r2 = r2  p1 = p1
  Conns = {c1, c2}
  Users = {alice}
  Rooms = {r1, r2}
  Passwords = {p1}
  NoConn = NoConn  NoUser = NoUser  NoRoom = NoRoom  NoPwd = NoPwd
  Escape <- PlainEscape
  Timeout = 0
  IdleLimit = 0
  OneUser = TRUE  OneRoom = FALSE  SoleCreate = FALSE
SPECIFICATION Spec
PROPERTY CloseSparesSessions
