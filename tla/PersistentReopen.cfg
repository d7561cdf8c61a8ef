CONSTANTS
    Contents <- OneContent
    Links <- OneLink
    Configs = {"c", "d"}
    MaxId = 1
    MaxDepth = 1
    MaxFaults = 0
    MaxStops = 1
SPECIFICATION Spec
INVARIANTS OwnFileOpens
CHECK_DEADLOCK FALSE
