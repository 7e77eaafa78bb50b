\* two calls for one slot, readable and unreadable files around the limits
SPECIFICATION FairSpec
CONSTANTS
    Calls = {c1, c2}
    Slots = 1
    Documents <- MCDocuments
    MaxBytes = 2
    MaxChars = 4
    MarkerChars = 2
    None = None
CHECK_DEADLOCK FALSE
INVARIANTS
    ExtractionInv
    WorkersWithinSlots
    ExtractionAnswers
PROPERTY
    ReadsEnd
