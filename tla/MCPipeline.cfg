SPECIFICATION Spec
CONSTANTS
  Windows = {w1, w2}
  NoWindow = NoWindow
  Chunks = 2
  Depth = 2
  KeepNewest = 1
  Restoring = TRUE
  MaxPresses = 3
INVARIANTS TypeOK NoExtraPaste SessionClean CaptureLifetime DirectoryFirst
PROPERTIES ImplementsDelivery
