SPECIFICATION Spec
CONSTANTS
  f1 = f1
  f2 = f2
  Files = {f1}
  Handlers = {h1, h2}
  Main = main
  Titles = {"default", "custom"}
  DefaultTitle = "default"
  Vocabulary <- MCVocabulary
  Corrupt <- MCCorrupt
  Requests = {"status", "title", "delete", "upload"}
  Batches <- MCBatches
  MddKinds = {"good"}
  OperatorEdits = TRUE
  MaxVersion = 3
  MaxFaults = 1
  MaxCrashes = 1
  NoRow = NoRow
  NotLoaded = NotLoaded
  Free = Free
SYMMETRY HandlerSymmetry
INVARIANTS TypeOK EnabledInSync SkipIsSafe SuggestionsResolve NoWordMissing CreateNeverConflicts
PROPERTIES OnlyDeleteUnloads DisabledSticks ImplementsCatalogue
