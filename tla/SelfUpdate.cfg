SPECIFICATION Spec
CONSTANTS
    agent = agent
    gui = gui
    loop = loop
    r1 = r1
    Files <- MCFiles
    ZipOrder <- MCZipOrder
    Exe = agent
    Gui = gui
    Requests <- MCRequests
    Loop = loop
    IsClient = TRUE
    Absent = Absent
    Cut = Cut
    MaxRelease = 2
    MaxFaults = 1
INVARIANTS
    TypeOK
    ExeRecoverable
    CopyKept
PROPERTIES
    RestartsWhole
    UpdatesOrStranded
CHECK_DEADLOCK FALSE
