CONSTANTS
    Run = {r1, r2, r3}
    None = None
    TTL = 2
    MaxTime = 6
SPECIFICATION FairSpec
INVARIANTS Exclusion
PROPERTIES DeadOwnerYields LeaseSpec
