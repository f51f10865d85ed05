CONSTANTS
    Keys = {k1}
    Workers = {w1}
    Savers = {st, main}
    StoreThread = st
    Handler = main
    Format = "xml"
    KeyExpire = 0
    HourLen = 1
    StartTime = 3
    MaxTime = 3
    MaxStall = 0
    MaxFails = 1
    MaxCrashes = 1
    Data = Data
    Detached = Detached
    Reader = Reader
    None = None
SPECIFICATION FairWatchedSpec
INVARIANTS
    TypeOK
    StorePublishes
    StopsKeep
PROPERTIES
    Durable
    StopEnds
