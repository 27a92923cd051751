SPECIFICATION Spec
CONSTANTS
    Channels = 2
    TableStates <- MCTableStates
PROPERTY WarningIsShown
