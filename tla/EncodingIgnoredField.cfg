CONSTANTS
    Base = 2
    Runes <- RunesHere
    Width <- Widths
    RuneError = "error"
    Texts <- Valid
    Schemas <- Versions
SPECIFICATION EncodingSpec
INVARIANT HeaderGuardsData
CHECK_DEADLOCK FALSE
