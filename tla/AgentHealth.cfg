SPECIFICATION HealthSpec
CONSTANTS
    a1 = a1
    sh1 = sh1
    board = board
    mcp = mcp
    AgentIds = {}
    ShellIds = {sh1}
    BoardCallers = {board}
    McpCallers = {mcp}
    MaxSession = 1
    MaxTime = 1
    MaxInFlight = 1
    Awaited = FALSE
PROPERTY
    OnlyRacesBreakTheStop
