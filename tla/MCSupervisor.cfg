SPECIFICATION FairSpec
CONSTANTS
  UploadDeadline = TRUE
  StoreBuffer = FALSE
  QueueBound = 4
INVARIANTS TypeOK ClientIffReady LeverIsLive TrayShowsHealth IdleMeansNoTimer
PROPERTIES LossAnnounced ShutdownCompletes UploadEnds BracketedHandshakeEnds PressServed
CHECK_DEADLOCK FALSE
