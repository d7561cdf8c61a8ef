CONSTANTS
    Contents <- SmallContents
    MaxId = 4
    MaxDepth = 2
SPECIFICATION Spec
INVARIANTS TypeOK IdsPartitioned
PROPERTIES ImplementsStorage
