CONSTANTS
    r1 = r1
    r2 = r2
    r3 = r3
    None = None
    Valueless = Valueless
    Run = {r1, r2, r3}
    TTL = 1
    MaxTime = 0
    MaxRow = 1
    KeyOf <- SameKey
    Policy = "skip_if_success"
    LockEnabled = TRUE
    DryRun = {r3}
    Cached = {}
    MayRaise = TRUE
SPECIFICATION FairSpec
INVARIANTS ReplayDeliversNothing
PROPERTIES EveryRunEnds
