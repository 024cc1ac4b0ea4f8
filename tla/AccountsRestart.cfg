SPECIFICATION Spec
CONSTANTS
  admin = admin
  u1 = u1
  u2 = u2
  n1 = n1
  n2 = n2
  p1 = p1
  p2 = p2
  s1 = s1
  s2 = s2
  short = short
  long = long
  empty = empty
  zero = zero
  Users = {admin, u1, u2}
  AdminID = admin
  Names = {n1, n2}
  Passwords = {p1, p2, long}
  Secrets = {s1, s2}
  Environments <- Generated
  Texts <- MCTexts
  Empty = empty
  Number <- MCNumber
  Length <- MCLength
  Random = {n1, n2, p2, s2}
  Handlers = {h1, h2}
  SerialAdmin = TRUE
  MaxFaults = 0
  MaxCrashes = 1
  None = None
SYMMETRY AccountsSymmetry
INVARIANTS BootSucceeds
CHECK_DEADLOCK FALSE
