SPECIFICATION Spec
CONSTANTS
    Timeout = 1
    CounterMax = 2
    WarningTolerance = 0
    ErrorsTolerance = 1
    MaxErrors = 2
    SetPoints <- MCOneSetPoint
    Skips <- AllTicks
    Controllers <- MCBoth
INVARIANT TypeOK
INVARIANT ReportedStateMatchesMachine
INVARIANT ReportedHealthMatchesErrors
INVARIANT HealthyMeansRightSupply
INVARIANT OnlyPrimitiveOrdersAreSent
PROPERTY ImplementsProtocol
PROPERTY PowerOffGoesOut
PROPERTY LostPortIsNoticed
PROPERTY OrdersLeaveTheMailbox
