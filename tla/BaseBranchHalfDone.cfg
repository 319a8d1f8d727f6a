CONSTANTS
    Tasks = {t1, t2}
    BoardSyncs = {s1}
    CliSyncs = {c1}
    MaxTries = 2
    MaxOutside = 2
    None = None
SPECIFICATION Spec
INVARIANTS
    OnlyAFailedAbortLeaves
SYMMETRY TaskSymmetry
CHECK_DEADLOCK FALSE
