CONSTANTS
    Keys = {1, 2, 3, 4, 5, 6, 7, 8, 9, 10}
    Values = {"x"}
    a = 2
    b = 3
    Backend = "file"
    MaxFaults = 1
    Ids = {0, 1, 2, 3, 4, 5, 6, 7, 8, 9, 10, 11, 12}
    rootId = 0
    NextIds <- LowestFree
SPECIFICATION Spec
ACTION_CONSTRAINTS FromOneEnd NineFirst OnlyChanges FaultsAscending
CHECK_DEADLOCK FALSE
INVARIANTS ErrorFree KeyStoredOnce NothingLost WellFormed OneTupleChanges
