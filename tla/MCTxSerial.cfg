SPECIFICATION Spec
CONSTANTS
    s1 = s1
    s2 = s2
    w1 = w1
    w2 = w2
    Apps = Apps
    Primary = s1
    NoPrefix = NoPrefix
    Workers <- OneWorker
    Storages <- TwoStorages
    Versions <- BothVersions
    OneDevice <- OtherStorage
    Overlay <- OneStorage
    Kinds <- AllKinds
    UpdatePrefixes <- TwoStorages
    InPath = TRUE
    FaultSteps <- Handled
    MaxFaults = 1
    MaxOps = 4
    MaxCrashes = 0
INVARIANTS
    TypeOK
    QuietLinksLive
    QuietOneCopy
    QuietListed
PROPERTIES
    InstallFailureRestores
    UpdateFailureRestores
    SuccessAchieves
    AtomicVersions
CHECK_DEADLOCK FALSE
