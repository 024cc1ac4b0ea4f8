SPECIFICATION Spec
CONSTANTS
  f1 = f1
  f2 = f2
  Files = {f1}
  Handlers = {h1, h2}
  Main = main
  Titles = {"default", "custom"}
  DefaultTitle = "default"
  Vocabulary <- MCVocabulary
  Corrupt <- MCCorrupt
  Requests = {"title", "upload"}
  Batches <- MddBatches
  MddKinds = {"good"}
  OperatorEdits = FALSE
  MaxVersion = 2
  MaxFaults = 0
  MaxCrashes = 0
  NoRow = NoRow
  NotLoaded = NotLoaded
  Free = Free
PROPERTIES LoaderKeepsTitle
