CONSTANTS
    Keys = {k1}
    Workers = {w1}
    StoreThread = st
    Format = "xml"
    KeyExpire = 0
    HourLen = 1
    StartTime = 3
    MaxTime = 3
    MaxStall = 0
    MaxFails = 1
    MaxCrashes = 1
    Data = Data
    Detached = Detached
    MaxVersion = 3
    Size <- SomeSizes
    MaxLoadFails = 1
    Delay = 1
    Reader = Reader
    Writer = Writer
    None = None
SPECIFICATION FairSpec
INVARIANTS
    ServesWhole
PROPERTIES
    WriterAsModelled
    ReaderAsModelled
    StableWhileLoading
    IngestResumes
