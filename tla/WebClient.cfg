SPECIFICATION FairSpec
CONSTANTS
  Chars <- MCChars
  Space <- MCSpace
  Lower <- MCLower
  DefaultPageSize = 20
  MaxPageSize = 100
  Users = {ann, bob}
  large = large
  small = small
  Dicts <- MCDicts
  Entries <- MCEntries
  Typed <- MCTyped
  SuggestSize = 1
  MaxTokens = 3
  None = None
PROPERTIES LoginEnds
INVARIANTS TypeOK SessionIsUsers ResultsAreOwn SuggestionsAreCurrent HistoryStaysWithAccount SignedOutIsClean
