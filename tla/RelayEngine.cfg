SPECIFICATION EngineSpec
CONSTANTS
    Capacity = 1
INVARIANTS
    EngineTypeOK
PROPERTIES
    WritesEndOrGridlock
    StopsClaimingOrStuck
    ClosingIsNoticedOrOvertaken
CHECK_DEADLOCK FALSE
