CONSTANTS
    r1 = r1
    r2 = r2
    k1 = k1
    k2 = k2
    a = a
    b = b
    p = p
    q = q
    Null = Null
    Run = {r1, r2}
    Key = {k1, k2, Null}
    Val = {a, b, Null}
    Partition <- PartitionOf
    Sources <- SourcesWithNullPartition
    Contracts <- SomeContracts
    MaxChange = 2
    MaxStart = 3
    MaxAttempts = 2
    Layouts <- SomeLayouts
    Tables <- SomeTables
    Ignored <- SomeIgnored
    Agreements <- SomeAgreements
    MaxRedefine = 1
    MaxBegin = 3
SPECIFICATION Spec
SYMMETRY AllRuns
CHECK_DEADLOCK FALSE
INVARIANTS ValuesKeepTheirColumn EvidenceIsOwn
PROPERTIES RowsAreKeptOnce CommitMeansMode ReplayWritesNothing SchemaFollowsPolicy
