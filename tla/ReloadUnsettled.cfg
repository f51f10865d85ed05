CONSTANTS
    Queries = {q1}
    MaxVersion = 3
    Size <- SomeSizes
    Delay = 2
    InPlace = FALSE
    MaxFails = 0
    Reader = Reader
    Writer = Writer
    None = None
SPECIFICATION Spec
PROPERTIES
    SettledLoad
