SPECIFICATION Spec
CONSTANTS
    a = a
    b = b
    c = c
    d = d
    e = e
    Codes <- MCCodes
    None = None
    Cut = Cut
    MaxFaults = 2
INVARIANTS
    TypeOK
    PairCodesAgree
PROPERTIES
    SetupEnds
    HostComesUp
CHECK_DEADLOCK FALSE
