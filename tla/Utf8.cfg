SPECIFICATION utf8Spec
CONSTANTS
    MaxUnits = 3
    MaxBytes = 5
    Texts <- MCTexts
    Inputs <- MCInputs
INVARIANTS
    EncodesWellFormed
    RoundTrip
    DecodesByPattern
    Resynchronises
CHECK_DEADLOCK FALSE
