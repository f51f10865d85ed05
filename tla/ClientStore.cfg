CONSTANTS
    Keys = {k1}
    Workers = {w1}
    Savers = {st, c1}
    StoreThread = st
    Format = "xml"
    KeyExpire = 0
    HourLen = 2
    StartTime = 3
    MaxTime = 4
    MaxStall = 1
    MaxFails = 1
    MaxCrashes = 1
    Data = Data
    Detached = Detached
    Reader = Reader
    None = None
SPECIFICATION Spec
PROPERTIES
    DataUnderLock
