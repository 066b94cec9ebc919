SPECIFICATION CallsFairSpec
CONSTANTS
    Classes <- MCClasses
    Used = {"editor"}
    Contexts = {t1, t2}
    Items = {i1, i2}
    URIs = {file}
    Contents = {text}
    Original = text
    Emptied = text
    Missing = Missing
    NotOpen = NotOpen
    Writers = {}
    Regimes <- MCRegimes
INVARIANTS
    CallsTypeOK
    DeclaresAll
    AnswersWhatItDeclares
    OpenWhileAsked
    NothingOutlivesCall
    NothingLeftOpen
PROPERTY
    CallsEnd
CHECK_DEADLOCK FALSE
