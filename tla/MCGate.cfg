CONSTANT Requests = {r1, r2, r3, r4}
SPECIFICATION GateFairSpec
INVARIANTS GateTypeOK InflightCountsLeases DrainedExactly NoDoubleClose
PROPERTIES ImplementsBarrier DrainCompletes
