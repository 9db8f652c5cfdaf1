SPECIFICATION Spec
CONSTANTS
    AgentConns <- MCAgentConns
    GatewayConns <- MCGatewayConns
    None = None
    a1 = a1
    a2 = a2
    g1 = g1
    g2 = g2
INVARIANTS
    TypeOK
    NeverBothWait
    StreamsHaveOneOwner
    WaitersCanBeFound
PROPERTIES
    ImplementsRendezvous
    PairsUpIfBothRedial
CHECK_DEADLOCK FALSE
