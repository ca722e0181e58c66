SPECIFICATION Spec
CONSTANTS
    a = a
    b = b
    w1 = w1
    w2 = w2
    NoApp = NoApp
    AppIds <- TwoApps
    Workers <- TwoWorkers
    Versions <- BothVersions
    Bundle <- BundleFiles
    Exec <- Programs
    SystemPrograms <- System
    MaxOps = 5
INVARIANTS
    TypeOK
    NoDangling
    OwnNamesLinked
    NoEmptyDirectory
SYMMETRY Symmetry
CHECK_DEADLOCK FALSE
