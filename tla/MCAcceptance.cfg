CONSTANTS
  Nodes = {0, 1, 2, 3, 4, 5}
  Callers = {1, 2, 3, 4, 5, 6}
  Horizon = 30
  Never = 999
  Requests = {half, mincut, incidents}
  half = half
  mincut = mincut
  incidents = incidents
SPECIFICATION AcceptanceSpec
CHECK_DEADLOCK FALSE
INVARIANT ChecksPass
PROPERTY SuiteEnds
