CONSTANTS
    g = g
    a1 = a1
    a2 = a2
    a3 = a3
    b1 = b1
    b2 = b2
    Genesis = g
    Block = {g, a1, a2, a3, b1, b2}
    Parent <- LongParent
    Anc <- LongAnc
    Height <- LongHeight
    Work <- WorkOf
    Addr <- AddrOf
    WellFormed = {g, a1, a2, b1, b2}
    Sound = {g, a1, a2, b1, b2}
    Invalidatable = {a1}
    Reconsiderable = {}
    Keep = 1
    PruneBound = 6
    Thread = {t1}
SPECIFICATION Spec
INVARIANTS TypeOK CandidatesKept BestChainAtRest
CHECK_DEADLOCK FALSE
