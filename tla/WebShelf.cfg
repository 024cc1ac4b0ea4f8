SPECIFICATION Spec
CONSTANTS
  Chars <- MCChars
  Space <- MCSpace
  Lower <- MCLower
  DefaultPageSize = 20
  MaxPageSize = 100
  Users = {ann}
  large = large
  small = small
  Dicts <- MCDicts
  Entries <- MCEntries
  Typed <- MCTyped
  SuggestSize = 1
  MaxTokens = 2
  None = None
INVARIANTS EmptyShelfIsEmpty
