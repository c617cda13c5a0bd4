SPECIFICATION WsSpec
CONSTANTS
    a1 = a1
    a2 = a2
    o1 = o1
    o2 = o2
    id1 = id1
    None = None
    MaxEnvelopes = 1
    Agent <- OneAgent
    Observer <- TwoObservers
    AgentId <- MCAgentId
    Kind <- MCKind
    Command <- MCCommand
INVARIANT
    ObserverIdsDistinct
CHECK_DEADLOCK FALSE
