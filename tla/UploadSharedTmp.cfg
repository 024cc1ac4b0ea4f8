SPECIFICATION Spec
CONSTANTS
  s1 = s1
  s2 = s2
  s3 = s3
  d1 = d1
  d2 = d2
  Sessions = {s1, s2}
  Dests = {d1}
  Target <- SameTarget
  NumParts = 2
  Handlers = {h1, h2}
  SerialChunks = TRUE
  SharedDest = TRUE
  ActiveExpiry = FALSE
  MaxFaults = 0
  MaxCrashes = 0
  None = None
SYMMETRY HandlerSymmetry
INVARIANTS WholeFile
CHECK_DEADLOCK FALSE
