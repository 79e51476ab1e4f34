CONSTANT Requests = {r1, r2}
SPECIFICATION ProcFairSpec
CHECK_DEADLOCK FALSE
PROPERTIES DrainedGateWinsTie SignalEndsProcess
