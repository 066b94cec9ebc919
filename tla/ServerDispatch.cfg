SPECIFICATION FairSpec
CONSTANTS
    req1 = req1
    req2 = req2
    note1 = note1
    note2 = note2
    ServerRequests = {req1, req2}
    Notifications = {note1, note2}
    Registries <- MCRegistries
    Capacity = 1
INVARIANTS
    TypeOK
    NotificationsInOrder
    RequestsInOrder
    StalledOnlyWhenFull
PROPERTIES
    HandlersEnd
CHECK_DEADLOCK FALSE
