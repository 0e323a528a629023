SPECIFICATION MCFairSpec
CONSTANTS
    What = {"script", "chunks", "few", "logs", "punch", "trunc"}
    Chars = {"A", "B"}
    MAX_WRITE_SIZE = 4
    TWO_GIGA_BYTE = 4
    LenMod = 16
    MaxLog = 2
    BadWrites = FALSE
    clustersize = 2
    clusters = 4
    iter = 2
INVARIANTS FileFollowsLog ChunkSchedule Disjoint VerdictIsExact FailureMeansDamage PunchFollowsLog TruncateVerdict
PROPERTIES LastRecordWins ProgramsEnd
