CONSTANTS
    Keys = {k1}
    Workers = {w1, w2}
    Savers = {st}
    StoreThread = st
    Format = "xml"
    KeyExpire = 1
    HourLen = 2
    StartTime = 3
    MaxTime = 6
    MaxStall = 1
    MaxFails = 0
    MaxCrashes = 1
    Data = Data
    Detached = Detached
    Reader = Reader
    None = None
SPECIFICATION FreshSpec
INVARIANTS
    Freshness
PROPERTIES
    DataUnderLock
