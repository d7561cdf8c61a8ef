CONSTANTS
    Contents <- SmallContents
    Links <- OneLink
    Configs = {"c"}
    MaxId = 3
    MaxDepth = 2
    MaxFaults = 2
    MaxStops = 1
SPECIFICATION Spec
INVARIANTS TypeOK FreeChainSound DiskChainSound NoBlockLeaks
PROPERTIES ImplementsStorage
CHECK_DEADLOCK FALSE
