SPECIFICATION Spec
CONSTANTS
    GuiCodes <- MCGuiCodes
    TcpCodes <- MCTcpCodes
    Bytes <- MCBytes
    SetPoints <- MCSetPoints
    MaxOwed = 1
INVARIANT TypeOK
INVARIANT NoOrderFromNowhere
PROPERTY GuiOrderArrives
PROPERTY TcpOrderArrives
