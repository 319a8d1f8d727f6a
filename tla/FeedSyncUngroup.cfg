CONSTANTS
    Items = {i1}
    Cycles = {c1, c2}
    Parent = Parent
    My = My
    Team = Team
    Out = Out
    None = None
    Roles = {"none"}
    MaxCopies = 2
    MaxActs = 1
SPECIFICATION Spec
INVARIANT UngroupingHeals
CHECK_DEADLOCK FALSE
