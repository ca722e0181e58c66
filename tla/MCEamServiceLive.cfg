SPECIFICATION FairSpec
CONSTANTS
    c1 = c1
    c2 = c2
    Clients <- TwoClients
    NoClient = NoClient
    MaxTx = 1
    MaxComplete = 1
    Timeout = 1
    BusyModulus = 256
PROPERTIES
    VanishedSenderReleased
    KeepsPromiseInTime
    RequestAnswered
    QuitsWhenAbandoned
CHECK_DEADLOCK FALSE
