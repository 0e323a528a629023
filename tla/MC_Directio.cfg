CONSTANTS
    What = {"basic", "hole", "crash", "chunk"}
    num_children = 2
    Chars = {"A", "B"}
    MaxTime = 2
    IOFaults = TRUE
    SysrqFails = TRUE
    Chunk = {0, 1}
    Stamps = {1, 2}
    Fills = {"A", "B"}
SPECIFICATION MCFairSpec
INVARIANTS TypeOK FileMatchesRecords AlarmMeansLoss VerifyFileIsRight
PROPERTY TestEnds
\* With -d a child whose reset is denied waits for the semaphore it holds.
CHECK_DEADLOCK FALSE
