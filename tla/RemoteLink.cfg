SPECIFICATION Spec
CONSTANTS
    Channels = 2
    MaxOrders = 2
    MaxRequests = 2
INVARIANT TypeOK
PROPERTY ImplementsDelivery
PROPERTY ControlIsLearned
PROPERTY ChannelsReturn
PROPERTY OrderIsCarriedOut
