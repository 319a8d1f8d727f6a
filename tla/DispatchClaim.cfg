SPECIFICATION FairClaimSpec
CONSTANTS
    b1 = b1
    b2 = b2
    m1 = m1
    m2 = m2
    c1 = c1
    BoardCalls = {b1, b2}
    McpCalls = {m1}
    ChainCalls = {c1}
    Kept = {FALSE}
INVARIANTS
    DispatchClaimExclusive
    SettledTaskHasItsAgent
    AgentKeepsItsWorktree
PROPERTIES
    FailureRestoresBacklog
    ImplementsLease
    UnprovisionedIsTransient
