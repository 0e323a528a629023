SPECIFICATION MCSpec
CONSTANTS
    What = {"logs"}
    Chars = {"A", "B"}
    MAX_WRITE_SIZE = 4
    TWO_GIGA_BYTE = 4
    LenMod = 3
    BadWrites = FALSE
    MaxLog = 1
    clustersize = 2
    clusters = 4
    iter = 2
INVARIANT HolesAreChecked
