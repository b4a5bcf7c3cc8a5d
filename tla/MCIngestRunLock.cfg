CONSTANTS
    r1 = r1
    r2 = r2
    r3 = r3
    None = None
    Valueless = Valueless
    Run = {r1, r2}
    TTL = 1
    MaxTime = 3
    MaxRow = 2
    KeyOf <- NoKeys
    Policy = "always_run"
    LockEnabled = TRUE
    DryRun = {}
    Cached = {}
    MayRaise = TRUE
SPECIFICATION Spec
SYMMETRY FirstTwo
PROPERTIES SuccessesMoveForward LockSpec
