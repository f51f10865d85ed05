CONSTANTS
    Size <- SomeSizes
    Known = {2}
    Quits = {3}
    ReplyLen = 2
    SendSpace = 1
SPECIFICATION FairSpec
CHECK_DEADLOCK FALSE
INVARIANTS
    TypeOK
    RanAsSent
    RepliesOnce
    WholeKeys
PROPERTIES
    Answered
    InnerLinesHeard
