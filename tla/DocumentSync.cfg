SPECIFICATION Spec
CONSTANTS
    URIs = {u1, u2}
    Contexts = {c1, c2, c3}
    Writers = {w1, w2}
    Contents = {w1, w2, original, emptied}
    Original = original
    Emptied = emptied
    Missing = missing
    NotOpen = NotOpen
    Regimes <- AnyRegime
SYMMETRY Symmetry
INVARIANTS
    TypeOK
    ReferencesCounted
    HoldersTracked
    ServerInStep
    TextOfFile
PROPERTIES
    SpeaksTextSync
CHECK_DEADLOCK FALSE
