\* Clients that keep all three disciplines, and what they show.
CONSTANTS
  c1 = c1  c2 = c2  c3 = c3
  alice = alice  bob = bob
  r1 = r1  r2 = r2  p1 = p1
  Conns = {c1, c2, c3}
  Users = {alice, bob}
  Rooms = {r1, r2}
  Passwords = {p1}
  NoConn = NoConn  NoUser = NoUser  NoRoom = NoRoom  NoPwd = NoPwd
  Escape <- PlainEscape
  Timeout = 1
  IdleLimit = 1
  OneUser = TRUE  OneRoom = TRUE  SoleCreate = TRUE
SPECIFICATION PSpec
INVARIANTS TypeOK TablesAgree NoDanglingCtx SeatKept MemberHasSession PeersAgree
PROPERTY RegistrySpec
SYMMETRY Symmetry
