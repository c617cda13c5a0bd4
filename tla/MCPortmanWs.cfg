SPECIFICATION WsSpec
CONSTANTS
    a1 = a1
    a2 = a2
    o1 = o1
    o2 = o2
    id1 = id1
    None = None
    MaxEnvelopes = 2
    Agent <- TwoAgents
    Observer <- OneObserver
    AgentId <- MCAgentId
    Kind <- MCKind
    Command <- FilteredCommands
CONSTRAINT FewEnvelopes
SYMMETRY AgentSymmetry
INVARIANTS
    WsTypeOK
    ConnectionsTracked
    NoOrphanEntries
    AgentOrderKept
PROPERTY
    ImplementsBulletin
CHECK_DEADLOCK FALSE
