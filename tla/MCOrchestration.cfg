CONSTANTS
    c1 = c1
    c2 = c2
    Caller = {c1, c2}
    Step = {s1, s2}
    s1 = s1
    s2 = s2
    None = none
    Projects <- MCProjects
SPECIFICATION Spec
CHECK_DEADLOCK FALSE
INVARIANTS SuccessIsOurs NothingRunsAfterAVerdict RunsWhatItDeployed EvidenceTellsTheOutcome
PROPERTIES StepsRunOnceInOrder
