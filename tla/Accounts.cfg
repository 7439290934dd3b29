\* Two users, one of whom signs in at a browser, two requests or commands in flight.
SPECIFICATION Spec
CONSTANTS
  Null = Null
  u1 = u1
  u2 = u2
  Users = {u1, u2}
  NewUsers <- MCNewUsers
  SignedIn = {u1}
  Browsers = {b1}
  Slots = {s1, s2}
  MaxFailed = 2
  MaxBumps = 1
  MaxTries = 3
SYMMETRY Symmetric
INVARIANTS TypeOK BumpsEndSessions TemporaryMustChange LockedInTime
PROPERTIES AdminRemains
CHECK_DEADLOCK FALSE
