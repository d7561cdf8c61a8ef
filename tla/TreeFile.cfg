CONSTANTS
    Keys = {1, 2, 3, 4}
    Values = {"x"}
    a = 2
    b = 3
    Backend = "file"
    MaxFaults = 0
    Ids = {0, 1, 2, 3, 4, 5, 6, 7, 8, 9}
    rootId = 0
    NextIds <- LowestFree
SPECIFICATION Spec
INVARIANTS DeleteDeletes
