CONSTANTS
    Manual = {R, M}
    Roots = {R}
    Repos = {r1, r2}
    Tasks = {t1, t2}
    Calls = {c1, c2}
    None = None
SPECIFICATION Spec
INVARIANTS
    AcyclicUnlessRaced
    NoDanglingEpic
    CleanupLosesNoTask
    EpicsInStep
SYMMETRY TreeSymmetry
CHECK_DEADLOCK FALSE
