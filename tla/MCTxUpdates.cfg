SPECIFICATION Spec
CONSTANTS
    s1 = s1
    s2 = s2
    w1 = w1
    w2 = w2
    Apps = Apps
    Primary = s1
    NoPrefix = NoPrefix
    Workers <- TwoWorkers
    Storages <- OneStorage
    Versions <- BothVersions
    OneDevice <- OneStorage
    Overlay <- Nowhere
    Kinds <- OnlyUpdate
    UpdatePrefixes <- OneStorage
    InPath = FALSE
    FaultSteps <- Everything
    MaxFaults = 1
    MaxOps = 4
    MaxCrashes = 2
INVARIANTS
    NeverLost
    BackupExcludes
SYMMETRY Symmetry
VIEW NoGhosts
CHECK_DEADLOCK FALSE
