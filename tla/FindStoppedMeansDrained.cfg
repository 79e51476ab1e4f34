CONSTANT Requests = {r1, r2}
SPECIFICATION ProcSpec
CHECK_DEADLOCK FALSE
INVARIANT StoppedMeansDrained
