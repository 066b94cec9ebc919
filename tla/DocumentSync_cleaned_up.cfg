SPECIFICATION Spec
CONSTANTS
    URIs = {u1, u2}
    Contexts = {c1, c2}
    Writers = {w1}
    Contents = {w1, original, emptied}
    Original = original
    Emptied = emptied
    Missing = missing
    NotOpen = NotOpen
    Regimes <- ReadFailureOnly
INVARIANTS
    CleanedUp
CHECK_DEADLOCK FALSE
