CONSTANTS
    a = a
    b = b
    c = c
    Keys <- SomeKeys
    Requests <- SomeRequests
    Split = 1
    ExpireTime = 1
    MaxTime = 5
SPECIFICATION Spec
INVARIANTS
    TypeOK
    BrowsingFindsAll
    DeepTreeCountsAll
    QueriesAgree
    DeepTreeInTime
PROPERTIES
    ImplementsTable
