CONSTANTS
    Keys = {1, 2, 3, 4, 5, 6, 7}
    Values = {"x", "y"}
    a = 2
    b = 3
    Backend = "memory"
    MaxFaults = 0
    Ids = {0, 1, 2, 3, 4, 5, 6, 7, 8, 9, 10}
    rootId = 0
    NextIds <- LowestFree
SPECIFICATION FairSpec
ACTION_CONSTRAINT OneKeyChanges
INVARIANTS TypeOK PanicFree ErrorFree KeyStoredOnce ValuesFit ChildrenFit NothingLost WellFormed
PROPERTIES ImplementsMap RespectsStorage OperationsReturn
