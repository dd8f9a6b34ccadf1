\* Every timetable of three of the nine trips, and of all of them.
SPECIFICATION Spec
CONSTANTS
  a = a
  b = b
  c = c
  d = d
  Stop = {a, b, c, d}
  TripId = {1, 2, 3, 4, 5, 6, 7, 8, 9}
  Infinity = 20
  MaxDelay = 4
  Window = 6
  Limit = 2
  Timetables <- MCTimetables
  Asks <- MCAsks
INVARIANTS
  ParetoFront
  JourneysAreWhole
  EarliestArrival
  DirectServicesKept
CHECK_DEADLOCK FALSE
