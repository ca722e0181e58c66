SPECIFICATION Spec
CONSTANTS
    s1 = s1
    s2 = s2
    w1 = w1
    w2 = w2
    Apps = Apps
    Primary = s1
    NoPrefix = NoPrefix
    Workers <- OneWorker
    Storages <- TwoStorages
    Versions <- OneVersion
    OneDevice <- OneStorage
    Overlay <- Nowhere
    Kinds <- AndFarm
    UpdatePrefixes <- TwoStorages
    InPath = TRUE
    FaultSteps <- ButUpdateLinks
    MaxFaults = 2
    MaxOps = 4
    MaxCrashes = 2
INVARIANTS
    NeverLost
PROPERTIES
    FarmRepairs
VIEW NoGhosts
CHECK_DEADLOCK FALSE
