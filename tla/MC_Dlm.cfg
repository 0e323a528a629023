CONSTANTS
    Nodes = {"n1", "n2"}
    lg_num_locks = 2
    lg_min_held = 0
    lg_max_held = 2
    MaxExTries = 2
    RandMax = 3
    NULL = NULL
    DefNum = 6
    DefMin = 0
    DefMax = 3
    MaxArg = 8
    NotGiven = NotGiven
    num_procs = 3
    max_iter = 4
    LeftOver = {0, 7}
    Signals = TRUE
SPECIFICATION MCFairSpec
INVARIANTS NeverEmptyChoice ListsMatchDlm NoWaitCycle AcceptedArgsAreSane NoFalseFailure Lockstep
PROPERTIES NodesGetOn UserInputIsKept LvbCounts RanksEnd
