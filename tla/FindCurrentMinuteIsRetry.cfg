CONSTANTS
  Nodes = {n1, n2}
  Callers = {c1, c2}
  Horizon = 2
  Never = 9
SPECIFICATION EventSpec
PROPERTY CurrentMinuteIsRetry
