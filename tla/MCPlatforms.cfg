CONSTANTS
    r1 = r1
    r2 = r2
    None = None
    Run = {r1, r2}
    TTL = 1
    MaxTime = 2
    MaxRow = 2
    Contracts <- SomeContracts
    WindowPlans <- SomePlans
SPECIFICATION Spec
SYMMETRY AllRuns
CHECK_DEADLOCK FALSE
INVARIANTS WatermarkCoversDelivery GateHolds SuccessAccountsForItsRows CheckpointLosesOnlyLostRuns CopiesNeedOverlapOrReset WindowsPassOverOpenly
PROPERTIES LeaseSpec BookmarkDelivers
