CONSTANTS
    Items = {i1, i2}
    Cycles = {c1, c2}
    Parent = Parent
    My = My
    Team = Team
    Out = Out
    None = None
    Roles = {"none", "cve", "reviews_parent"}
    MaxCopies = 2
    MaxActs = 2
SPECIFICATION Spec
INVARIANTS
    GuardIsHeld
    FeedIsMirrored
    CollisionNeedsAUser
    NoOrphanWorktree
PROPERTIES
    CyclesSpareRows
SYMMETRY FeedSymmetry
CHECK_DEADLOCK FALSE
