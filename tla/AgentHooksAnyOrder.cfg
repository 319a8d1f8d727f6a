SPECIFICATION Spec
CONSTANTS
    a1 = a1
    a2 = a2
    sh1 = sh1
    AgentIds = {a1, a2}
    ShellIds = {sh1}
    MaxSession = 2
    MaxTime = 2
    MaxInFlight = 3
    Awaited = FALSE
SYMMETRY AgentSymmetry
INVARIANTS
    TypeOK
    LiveCountsMatchEntries
    NoStrandedStop
    PendingStopOnlyWhileRunning
PROPERTY
    WithheldStopIsHonoured
