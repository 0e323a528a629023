CONSTANTS
    What = {"index_grow_two"}
SPECIFICATION Spec
INVARIANTS PassedMeansVerified
