CONSTANTS
    What = {"chunk"}
    num_children = 2
    Chars = {"A", "B"}
    MaxTime = 2
    IOFaults = TRUE
    SysrqFails = TRUE
    Chunk = {0, 1}
    Stamps = {1, 2}
    Fills = {"A", "B"}
SPECIFICATION MCSpec
INVARIANT AcceptedIsIntact
