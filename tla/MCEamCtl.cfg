SPECIFICATION CtlFairSpec
CONSTANTS
    c1 = c1
    c2 = c2
    Clients <- TwoClients
    NoClient = NoClient
    MaxTx = 2
    MaxComplete = 2
    Timeout = 1
    BusyModulus = 256
    Commands <- AllCommands
INVARIANTS
    CtlTypeOK
    CompletedOnce
    ExitTruthful
    CancelFindsNothing
PROPERTIES
    SessionEnds
    DaemonEnds
CHECK_DEADLOCK FALSE
