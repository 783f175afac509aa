SPECIFICATION FairSpec
CONSTANTS
  UploadDeadline = TRUE
  StoreBuffer = TRUE
  QueueBound = 4
PROPERTY ShutdownCompletes
CHECK_DEADLOCK FALSE
