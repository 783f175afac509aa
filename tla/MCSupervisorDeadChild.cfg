SPECIFICATION FairSpec
CONSTANTS
  UploadDeadline = TRUE
  StoreBuffer = FALSE
  QueueBound = 4
PROPERTY DeadChannelNoticed
CHECK_DEADLOCK FALSE
