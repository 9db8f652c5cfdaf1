SPECIFICATION Spec
CONSTANTS
    Ips <- MCIps
    Ports <- MCPorts
    Options <- MCOptions
    NoPeer = NoPeer
    ReadableFlags = {TRUE, FALSE}
    LinkStates = {TRUE, FALSE}
    host1 = host1
    host2 = host2
    tunnelPort = tunnelPort
    otherPort = otherPort
INVARIANTS
    TypeOK
    ConnectionCoherent
    StatusHonest
PROPERTIES
    ImplementsSession
