SPECIFICATION EditsSpec
CONSTANTS
    a = a
    b = b
    dir = dir
    edited = edited
    URIs = {a, b}
    Contexts = {c1, c2}
    Writers = {w1}
    Editors = {e1}
    Contents = {w1, edited, original, emptied}
    Original = original
    Emptied = emptied
    Missing = missing
    NotOpen = NotOpen
    Regimes <- AnyRegime
    Edits <- AllEdits
    Dirs = {dir}
    Inside <- MCInside
    Layouts = {{a}, {a, b}}
SYMMETRY Symmetry
INVARIANTS
    EditsTypeOK
    CountsConfined
    InStepConfined
PROPERTIES
    VersionedEditsLand
    EditsKeepPromises
CHECK_DEADLOCK FALSE
