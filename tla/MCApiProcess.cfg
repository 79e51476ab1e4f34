CONSTANT Requests = {r1, r2, r3}
SPECIFICATION ProcSpec
SYMMETRY Symmetry
CHECK_DEADLOCK FALSE
INVARIANTS
  ProcTypeOK InflightCountsHandlers ShutdownAfterLastLease CleanExitLosesNothing
  CutOnlyAfterTimeout BarrierVisible
PROPERTY KeepsGateContract
