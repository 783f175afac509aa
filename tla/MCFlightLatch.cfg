SPECIFICATION Spec
CONSTANTS
  r1 = r1
  r2 = r2
  Runners = {r1, r2}
  Timeout = 2
  MaxFlights = 2
  Horizon = 4
INVARIANT CountedFlightsFail
CHECK_DEADLOCK FALSE
