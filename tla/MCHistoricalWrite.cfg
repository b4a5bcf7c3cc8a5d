SPECIFICATION Spec
CONSTANTS
    r1 = r1
    r2 = r2
    r3 = r3
    k1 = k1
    k2 = k2
    a = a
    b = b
    Key = {k1, k2}
    Hash = {a, b}
    Run = {r1, r2, r3}
    NullKey = NullKey
    MaxSeq = 2
    Batch <- Batches
    Preflight = TRUE
    MaxAttempts <- OneRetries
    MayRaise = TRUE
    None = None
SYMMETRY OtherTwo
INVARIANTS OneVersionAtATime AppliedBatchIsCurrent
PROPERTIES VersionsEndByNewerRows ReplayAddsNothing
CHECK_DEADLOCK FALSE
