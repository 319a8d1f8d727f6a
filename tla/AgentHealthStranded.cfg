SPECIFICATION HealthSpec
CONSTANTS
    a1 = a1
    sh1 = sh1
    board = board
    mcp = mcp
    AgentIds = {a1}
    ShellIds = {sh1}
    BoardCallers = {board}
    McpCallers = {}
    MaxSession = 2
    MaxTime = 1
    MaxInFlight = 2
    Awaited = TRUE
INVARIANT
    NoStrandedStop
