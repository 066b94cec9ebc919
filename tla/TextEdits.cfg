SPECIFICATION Spec
CONSTANTS
    Newline = newline
    letters = letters
    new = new
    Texts <- MCTexts
    NewTexts <- MCNewTexts
    MaxEdits = 3
INVARIANTS
    AppliedTogether
    PositionsKept
CHECK_DEADLOCK FALSE
