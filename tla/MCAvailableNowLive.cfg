CONSTANTS
    Run = {e1, e2}
    None = None
    TTL = 1
    MaxRow = 2
    MaxBatch = 1
    OptionsKey = k
    Policy = "skip_if_success"
    DryRun = {e1}
    MayFail = TRUE
SPECIFICATION FairSpec
PROPERTIES EveryStreamEnds
