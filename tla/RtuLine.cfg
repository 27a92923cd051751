SPECIFICATION Spec
CONSTANTS
    Channels = 2
    Disturbed <- FirstLine
    PowerOrders <- PowerOff
    SetPoints <- MCSetPoints
    Skips <- Overruns
    MaxBehind = 2
    MaxBuffered = 2
INVARIANT TypeOK
PROPERTY AnswersAreJudged
PROPERTY BackInStep
PROPERTY AnsweredAgain
