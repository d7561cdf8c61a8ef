CONSTANTS
    Bs = {0, 1, 2, 3, 4, 5, 7, 8}
    As = {0, 1, 2, 3, 4}
    EntrySizes = {1, 2, 5, 9}
    BlockSizes = {0, 1, 2, 7, 8, 12, 16, 32, 48, 63, 64, 96, 128, 256}
    WordSize = 2
    MaxUint32 = 8
    UintSpan = 16
    Ids = {0, 1, 2, 3}
SPECIFICATION Spec
INVARIANTS TypeOK NodeFits SmallestPadding BlocksApart
CHECK_DEADLOCK FALSE
