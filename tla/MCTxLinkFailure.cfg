SPECIFICATION Spec
CONSTANTS
    s1 = s1
    s2 = s2
    w1 = w1
    w2 = w2
    Apps = Apps
    Primary = s1
    NoPrefix = NoPrefix
    Workers <- OneWorker
    Storages <- OneStorage
    Versions <- BothVersions
    OneDevice <- OneStorage
    Overlay <- Nowhere
    Kinds <- OnlyUpdate
    UpdatePrefixes <- OneStorage
    InPath = FALSE
    FaultSteps <- LinkFailure
    MaxFaults = 1
    MaxOps = 2
    MaxCrashes = 0
PROPERTIES
    UpdateFailureRestores
CHECK_DEADLOCK FALSE
