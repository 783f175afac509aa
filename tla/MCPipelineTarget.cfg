SPECIFICATION Spec
CONSTANTS
  Windows = {w1, w2}
  NoWindow = NoWindow
  Chunks = 2
  Depth = 2
  KeepNewest = 1
  Restoring = TRUE
  MaxPresses = 2
INVARIANTS PasteWherePressed
