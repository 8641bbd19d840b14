SPECIFICATION AccessSpec
CONSTANTS
    c1 = c1
    c2 = c2
    Clients = {c1, c2}
    Limit = 2
    Window = 2
    SessionLife = 2
    FlashLife = 1
    CookieLife = 1
    LogSize = 2
    ListLimit = 2
    MaxEntries = 5
    MaxFaults = 1
    MaxTime = 2
    MaxRequests = 5
SYMMETRY ClientSymmetry
CHECK_DEADLOCK FALSE
INVARIANTS
    ThrottleHolds
    ResultShownOnce
    NewestKept
    ListRecovers
