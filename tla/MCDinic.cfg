CONSTANTS
  Costs = {1, 2}
  MaxEdges = 3
  Networks <- MCNetworks
SPECIFICATION FairSpec
CHECK_DEADLOCK FALSE
INVARIANTS TypeOK FlowConserved PassedArcsAreUseless PhasesGetLonger FlowIsMinCut
PROPERTIES PairsKeepTheirSum Terminates
