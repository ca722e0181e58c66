SPECIFICATION Spec
CONSTANTS
    top = top
    dir = dir
    inner = inner
    file = file
    w1 = w1
    w2 = w2
    Nodes <- Tree
    Root = top
    Parent <- ParentOf
    Under <- SubtreeOf
    Walkers <- TwoWalkers
    NoNode = NoNode
    MaxFaults = 1
    MaxCrashes = 1
SYMMETRY Symmetry
INVARIANTS
    TypeOK
    CleanWalksFixAll
CHECK_DEADLOCK FALSE
