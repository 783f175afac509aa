SPECIFICATION FairSpec
CONSTANTS
  Launches = 3
  None = None
  Other = Other
  MaxPolls = 2
  OwnerAttempts = 2
INVARIANTS TypeOK OneInstance OwnerReportTrue HotkeyAliveOrSaid
PROPERTY RestartCompletes
CHECK_DEADLOCK FALSE
