SPECIFICATION Spec
CONSTANTS
  NoTime = NoTime
  Hole = Hole
  MaxFaults = 2
  Cap = 2
  MaxOps = 3
  MaxEdits = 1
  Uploads = {1, 2, 3}
  Foreign = {0}
  Times = {0, 1, 2}
  Policies <- Rules
  ListCap = 2
  FrameSize = 2
  Wrap = 8
  MaxOthers = 1
INVARIANTS TypeOK SettingsRecoverable OutcomeIsTrue ListingTrue PolicyApplied
PROPERTY RemovalsJustified
CHECK_DEADLOCK FALSE
