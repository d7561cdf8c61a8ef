CONSTANTS
    Contents <- OneContent
    Links <- OneLink
    Configs = {"c"}
    MaxId = 4
    MaxDepth = 1
    MaxFaults = 3
    MaxStops = 0
    Names = {n1, n2, n3, n4}
SPECIFICATION DefragSpec
INVARIANTS DefragmentKeepsTree NoNodeLost FileIsCompact FreeChainKept
CHECK_DEADLOCK FALSE
