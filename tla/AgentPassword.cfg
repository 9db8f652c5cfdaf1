SPECIFICATION Spec
CONSTANTS
    Addrs <- MCAddrs
    Codes <- MCNew
    Passwords <- MCCodes
    HostCode = new
    HostPassword = new
    ArgCode = None
    None = None
    Handlers <- MCHandlers
    MaxRequests = 1
    h1 = h1
    h2 = h2
    old = old
    new = new
    r1 = r1
PROPERTIES
    PasswordSticks
