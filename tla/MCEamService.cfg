SPECIFICATION Spec
CONSTANTS
    c1 = c1
    c2 = c2
    Clients <- TwoClients
    NoClient = NoClient
    MaxTx = 2
    MaxComplete = 1
    Timeout = 1
    BusyModulus = 256
SYMMETRY Symmetry
INVARIANTS
    TypeOK
    BusyExact
    NoUseAfterFree
    NoCallAbandoned
    IInv
PROPERTIES
    AnsweredOnce
    IdleQuitServesNobody
    KeepsPromise
CHECK_DEADLOCK FALSE
