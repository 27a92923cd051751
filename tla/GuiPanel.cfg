SPECIFICATION Spec
CONSTANTS
    Channels = 2
    TableStates <- MCTableStates
INVARIANT TypeOK
INVARIANT NothingOverlaps
INVARIANT WarningMeansTimeout
INVARIANT ErrorMessageStandsAlone
PROPERTY PanelSettles
PROPERTY TitleTellsControl
