SPECIFICATION Spec
CONSTANTS
    Computers = {a, b}
    a = a
    b = b
    Asks <- MCAsks
    HEADER = 2
    BODY = 1
    Backlog = 2
    Files <- MCFiles
INVARIANTS
    TypeOK
    RequestIsWhole
    RequestsAreGranted
PROPERTY
    WaitingIsAnswered
CHECK_DEADLOCK FALSE
