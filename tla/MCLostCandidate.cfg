CONSTANTS
    g = g
    a1 = a1
    a2 = a2
    a3 = a3
    b1 = b1
    b2 = b2
    Genesis = g
    Block = {g, a1, a2, b2}
    Parent <- LateForkParent
    Anc <- LateForkAnc
    Height <- LateForkHeight
    Work <- WorkOf
    Addr <- AddrOf
    WellFormed = {g, a1, a2, b2}
    Sound = {g, a1, a2, b2}
    Invalidatable = {a1, a2, b2}
    Reconsiderable = {a1, a2, b2}
    Keep = 1
    PruneBound = 0
    Thread = {t1}
SPECIFICATION Spec
INVARIANTS CandidatesCompleteAtRest
CHECK_DEADLOCK FALSE
