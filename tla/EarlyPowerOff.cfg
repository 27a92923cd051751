SPECIFICATION SafetySpec
CONSTANTS
    Timeout = 2
    CounterMax = 4
    WarningTolerance = 1
    ErrorsTolerance = 2
    MaxErrors = 4
    SetPoints <- MCSetPoints
    Skips <- AllTicks
    Controllers <- MCGui
PROPERTY NoPowerOffBeforeTimeoutIsKnown
