CONSTANTS
    Contents <- OneContent
    Links <- OneLink
    Configs = {"c"}
    MaxId = 4
    MaxDepth = 1
    MaxFaults = 1
    MaxStops = 0
    Names = {n1, n2, n3, n4}
SPECIFICATION DefragSpec
INVARIANT SuccessKeepsTree
CHECK_DEADLOCK FALSE
