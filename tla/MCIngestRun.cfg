CONSTANTS
    r1 = r1
    r2 = r2
    r3 = r3
    None = None
    Valueless = Valueless
    Run = {r1, r2, r3}
    TTL = 1
    MaxTime = 0
    MaxRow = 2
    KeyOf <- NoKeys
    Policy = "always_run"
    LockEnabled = FALSE
    DryRun = {}
    Cached = {r1, r2}
    MayRaise = TRUE
SPECIFICATION Spec
SYMMETRY FirstTwo
INVARIANTS WatermarkCoversDelivery DuplicatesNeedOverlapOrReset
