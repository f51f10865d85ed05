CONSTANTS
    Queries = {q1, q2}
    MaxVersion = 3
    Size <- SomeSizes
    Delay = 2
    InPlace = TRUE
    MaxFails = 1
    Reader = Reader
    Writer = Writer
    None = None
SPECIFICATION FairSpec
INVARIANTS
    TypeOK
    DisturbedOnlyByFlip
PROPERTIES
    NeverOlder
    KeepsServing
    LockReturned
    CatchesUp
