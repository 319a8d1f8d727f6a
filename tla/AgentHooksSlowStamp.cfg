SPECIFICATION NoLossSpec
CONSTANTS
    a1 = a1
    a2 = a2
    sh1 = sh1
    AgentIds = {a1, a2}
    ShellIds = {sh1}
    MaxSession = 2
    MaxTime = 3
    MaxInFlight = 3
    Awaited = FALSE
PROPERTY
    PromptSparesItsOwnTurn
