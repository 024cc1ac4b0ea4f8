SPECIFICATION LiveSpec
CONSTANTS
  f1 = f1
  f2 = f2
  Files = {f1, f2}
  Handlers = {h1}
  Main = main
  Titles = {"default", "custom"}
  DefaultTitle = "default"
  Vocabulary <- MCVocabulary
  Corrupt <- MCCorrupt
  Requests = {"status", "title", "delete", "upload"}
  Batches <- PairBatches
  MddKinds = {"good", "bad"}
  OperatorEdits = TRUE
  MaxVersion = 2
  MaxFaults = 1
  MaxCrashes = 1
  NoRow = NoRow
  NotLoaded = NotLoaded
  Free = Free
INVARIANTS MemoryMatchesRows
PROPERTIES RequestsFinish ServerComesUp
