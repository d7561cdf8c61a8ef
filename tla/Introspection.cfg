CONSTANTS
    Callers = {"c1", "c2"}
    Types <- TypesHere
    Requests <- RequestsHere
    Numerals <- NumeralsHere
    UintSize = 64
    MaxStack = 8
SPECIFICATION FairSpec
INVARIANTS ResultIsTheTypes RecursiveRefused
PROPERTIES CreatesReturn
CHECK_DEADLOCK FALSE
