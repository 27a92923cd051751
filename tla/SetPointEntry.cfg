SPECIFICATION Spec
CONSTANTS
    Channels = 2
    Entries <- MCEntries
    Increments <- MCIncrements
INVARIANT TypeOK
INVARIANT OfflineIsLastOrdered
INVARIANT EnteredIsOrdered
CHECK_DEADLOCK FALSE
