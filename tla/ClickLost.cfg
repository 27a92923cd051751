SPECIFICATION Spec
CONSTANTS
    Channels = 2
    Entries <- MCEntries
    Increments <- MCIncrements
PROPERTY ClicksAddUp
CHECK_DEADLOCK FALSE
