SPECIFICATION Spec
CONSTANTS
    Pairings <- MCPairings
    None = None
    old = old
    new = new
    MaxHandlers = 1
    MaxQueue = 1
PROPERTIES
    UpdateSparesSession
