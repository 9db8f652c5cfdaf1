SPECIFICATION MCSpec
CONSTANTS
    d1 = d1
    d2 = d2
    laptop = laptop
    a = a
    b = b
    Desktops <- MCDesktops
    Laptop = laptop
    Codes <- MCCodes
    AnyCode = AnyCode
    Wanted <- MCWanted
    Lan = 5
    LanHosts <- MCLanHosts
    LaptopHost = 2
    Layouts <- MCLayouts
    None = None
    MaxChanges = 2
INVARIANTS
    TypeOK
    FoundReachable
PROPERTIES
    HostIsDialled
