SPECIFICATION Spec
CONSTANTS
    Pairings <- MCPairings
    None = None
    old = old
    new = new
    MaxHandlers = 2
    MaxQueue = 2
INVARIANTS
    TypeOK
    StaleTunnelIsRestarted
    StopIsFinal
PROPERTIES
    RequestsTakeEffect
