CONSTANTS
    Size <- SomeSizes
    Known = {2}
    Quits = {3}
    ReplyLen = 2
    SendSpace = 1
SPECIFICATION Spec
CHECK_DEADLOCK FALSE
INVARIANTS
    OnlySentRun
