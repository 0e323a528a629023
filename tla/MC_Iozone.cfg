CONSTANTS
    What = {"threads", "cluster", "auto"}
SPECIFICATION FairSpec
INVARIANTS BarrierHolds FilesAreWhole ResultsComplete NobodyLeftBehind ReportLinesUp
PROPERTIES Termination
