CONSTANTS
    What = {"report"}
SPECIFICATION Spec
INVARIANTS ReportShowsResults
