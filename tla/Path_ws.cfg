CONSTANTS
  s1 = s1  s2 = s2  s3 = s3  s4 = s4
  NoSock = NoSock
  r1 = r1  r2 = r2
  NoRoom = NoRoom
  k1 = k1
  Sockets = {s1, s2, s3, s4}
  Rooms = {r1, r2}
  Runs = {k1}
  Attempts = 2
  Mic = TRUE
  Waits = TRUE
  Prompt = TRUE
  MaxVisits = 2
  MaxFaults = 2
SPECIFICATION Spec
PROPERTY EntryKept
CHECK_DEADLOCK FALSE
