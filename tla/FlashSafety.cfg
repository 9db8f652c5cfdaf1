SPECIFICATION SafetySpec
CONSTANTS
    MaxPlausibleGap = 2
    MaxSent = 4
    MaxRestarts = 1
    MaxInFlight = 2
    MinSamples = 2
    LimitNum = 1
    LimitDen = 3
    gui = gui
    browser = browser
    Viewers <- MCViewers
SYMMETRY Symmetric
INVARIANTS
    TypeOK
    LossIsAccounted
PROPERTIES
    SafeMeansFewLosses
CHECK_DEADLOCK FALSE
