SPECIFICATION Spec
CONSTANTS
  BackoffBase = 1
  BackoffMax = 6
  StableReset = 3
  MaxAttempt = 5
  Horizon = 8
INVARIANTS TypeOK GreenIffLinkUp NoZeroWait
PROPERTY RampKeptByFlapping
