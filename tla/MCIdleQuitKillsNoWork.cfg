SPECIFICATION Spec
CONSTANTS
    c1 = c1
    c2 = c2
    Clients <- OneClient
    NoClient = NoClient
    MaxTx = 2
    MaxComplete = 1
    Timeout = 1
    BusyModulus = 256
PROPERTIES
    IdleQuitKillsNoWork
CHECK_DEADLOCK FALSE
