CONSTANTS
    What = {"mmap", "inject", "flock", "directio", "append"}
    CommSizes = {1, 2, 3}
    ChunkCounts = {0, 1, 3}
    Rounds = 2
    ChunkBytes = 8192
    AppendJobs <- MCAppendJobs
    ReadBufSize = 6
    num_procs = 3
    max_passes = 4
    injection_pass <- MCNever
    LastChar = 4
    Zero = Zero
SPECIFICATION MCFairSpec
INVARIANTS NoFalseAlarm LossIsNoticed LocksAsExpected NobodyLeftBehind AppendJudgedRight
PROPERTIES JobsEnd
CHECK_DEADLOCK FALSE
