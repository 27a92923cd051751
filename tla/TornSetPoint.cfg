SPECIFICATION Spec
CONSTANTS
    GuiCodes <- MCGuiCodes
    TcpCodes <- MCTcpCodes
    Bytes <- MCBytes
    SetPoints <- MCSetPoints
    MaxOwed = 1
PROPERTY SetPointsAreWritten
