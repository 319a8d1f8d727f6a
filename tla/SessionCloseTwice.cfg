CONSTANTS
    Exits = {e1}
    Marks = {m1}
    Sets = {u1}
    Deletes = {}
    Watchers = {}
    Actions = {"rebase"}
    Siblings = 0
    MaxCalls = 3
    MaxTokens = 1
    MaxSessions = 1
SPECIFICATION Spec
INVARIANT OneSuccessor
CHECK_DEADLOCK FALSE
