SPECIFICATION FairSpec
CONSTANTS
  UploadDeadline = TRUE
  StoreBuffer = FALSE
  QueueBound = 4
PROPERTY HandshakeEnds
CHECK_DEADLOCK FALSE
