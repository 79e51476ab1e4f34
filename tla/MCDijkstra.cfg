CONSTANTS
  Nodes = {n1, n2, n3}
  Traversals = {1, 3}
  Minutes = {0, 2}
  MaxPipes = 3
  MaxReleases = 2
  Never = 99
SPECIFICATION FairSpec
CHECK_DEADLOCK FALSE
INVARIANTS TypeOK DistIsEarliest DistIsTight
PROPERTIES SettledIsFinal Terminates
