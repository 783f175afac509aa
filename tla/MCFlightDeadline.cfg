SPECIFICATION FairSpec
CONSTANTS
  r1 = r1
  r2 = r2
  Runners = {r1, r2}
  Timeout = 2
  MaxFlights = 2
  Horizon = 4
INVARIANTS TypeOK SingleFlight OnlyOverdueLatched CountedOncePerFlight
PROPERTY FlightEnds
CHECK_DEADLOCK FALSE
