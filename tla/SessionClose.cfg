CONSTANTS
    Exits = {e1, e2}
    Marks = {m1}
    Sets = {u1}
    Deletes = {d1}
    Watchers = {w1}
    Actions = {"rebase", "pr"}
    Siblings = 1
    MaxCalls = 2
    MaxTokens = 2
    MaxSessions = 2
SPECIFICATION Spec
INVARIANTS
    FlagIsTheReceipt
    OneSuccessorUnlessOverlapped
    WatchersAreServed
    NoOrphanSession
    ChainFollowsAClose
PROPERTIES
    OneCloseForAToken
CONSTRAINTS
    Flagged
    TwoTokens
SYMMETRY CallSymmetry
CHECK_DEADLOCK FALSE
