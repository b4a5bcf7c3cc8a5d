CONSTANTS
    Run = {e1, e2, e3}
    None = None
    TTL = 1
    MaxRow = 3
    MaxBatch = 2
    OptionsKey = None
    Policy = "always_run"
    DryRun = {}
    MayFail = TRUE
SPECIFICATION Spec
SYMMETRY Executions
INVARIANTS EveryCopyCostsAFailure SuccessMeansCaughtUp
PROPERTIES DeliverySpec
