SPECIFICATION CtlSpec
CONSTANTS
    c1 = c1
    c2 = c2
    Clients <- OneClient
    NoClient = NoClient
    MaxTx = 1
    MaxComplete = 2
    Timeout = 1
    BusyModulus = 256
    Commands <- AllCommands
INVARIANTS
    AuthorizedNotRefused
CHECK_DEADLOCK FALSE
