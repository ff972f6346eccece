SPECIFICATION RunnersSpec
CONSTANTS
    n1 = n1
    n2 = n2
    Name = {n1, n2}
    script = script
    file = file
    link = link
    job1 = job1
    Job = {job1}
    Entry <- MCEntry
    RunScript = script
    Link <- MCLink
INVARIANTS
    TypesOK
    NothingStale
    ContainersOwned
    SuccessIsReal
    VerifiedRunnerIsWhole
PROPERTIES
    CancelledRemoved
    CacheRecovers
CHECK_DEADLOCK FALSE
