SPECIFICATION RevertsSpec
CONSTANTS
  s1 = s1
  s2 = s2
  i1 = i1
  i2 = i2
  Address = {a1, a2}
  StorageSlot = {s1, s2}
  AccountInfo = {i1, i2}
  NoAccount = NoAccount
  Value = {0, 1}
  Status = {"LoadedNotExisting", "Loaded", "Changed"}
  Account <- MCAccount
  MaxTransitions = 2
CHECK_DEADLOCK FALSE
INVARIANTS
  FlattenedUndoesTheBlock
  WipesAreReflected
