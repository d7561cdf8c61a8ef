CONSTANTS
    Base = 2
    Runes <- RunesHere
    Width <- Widths
    RuneError = "error"
    Texts <- ValidAndInvalid
    Schemas <- AllSchemas
SPECIFICATION EncodingSpec
INVARIANTS RoundTrip OnlyInvalidTextOverruns SignatureFixesParts
CHECK_DEADLOCK FALSE
