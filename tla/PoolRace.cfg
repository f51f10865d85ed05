CONSTANTS
    N = 3
    CmdClients = {c1}
    DataClients = {d1}
    MaxReads = 1
    MaxErrors = 2
    MaxResets = 1
    Other = Other
    None = None
SPECIFICATION Spec
INVARIANT
    IndexInPool
