CONSTANTS
    Keys = {k1, k2}
    Workers = {w1}
    Savers = {st}
    StoreThread = st
    Format = "xml"
    KeyExpire = 0
    HourLen = 5
    StartTime = 3
    MaxTime = 4
    MaxStall = 0
    MaxFails = 1
    MaxCrashes = 1
    Data = Data
    Detached = Detached
    Reader = Reader
    None = None
SPECIFICATION WatchedSpec
SYMMETRY KeySymmetry
INVARIANTS
    DataIntact
    NearSnapshot
PROPERTIES
    NoSilentLoss
    ImplementsStore
