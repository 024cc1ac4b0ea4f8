SPECIFICATION Spec
CONSTANTS
  s1 = s1
  s2 = s2
  s3 = s3
  d1 = d1
  d2 = d2
  Sessions = {s1, s2, s3}
  Dests = {d1, d2}
  Target <- TwoTargets
  NumParts = 2
  Handlers = {h1, h2}
  SerialChunks = TRUE
  SharedDest = FALSE
  ActiveExpiry = FALSE
  MaxFaults = 1
  MaxCrashes = 1
  None = None
SYMMETRY HandlerSymmetry
INVARIANTS TypeOK WholeFile OneAssembly PartsStay NoLeftovers
PROPERTIES ImplementsAtomicUpload
CHECK_DEADLOCK FALSE
