SPECIFICATION TunnelSpec
CONSTANTS
    AgentAddrs <- MCAgentAddrs
    GatewayAddr = gateway
    Nobody = Nobody
    port1 = port1
    port2 = port2
INVARIANTS
    TunnelTypeOK
PROPERTIES
    GatewayMarksPeerLostOrStranded
    ReconnectsOrStranded
CHECK_DEADLOCK FALSE
