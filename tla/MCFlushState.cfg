SPECIFICATION Spec
CONSTANTS
    g = g
    a1 = a1
    a2 = a2
    a3 = a3
    Genesis = g
    Block <- ChainBlock
    Parent <- ChainParent
    Anc <- ChainAnc
    Height <- ChainHeight
    MaxFile = 2
    PerFile = 2
    Target = 3
    Keep = 1
    CheckDepth = 0
    MaxFailures = 1
    MaxRestarts = 1
INVARIANTS
    BestIndexed
    IndexTruthful
    StartsAgain
CHECK_DEADLOCK FALSE
