CONSTANTS
    g = g
    a1 = a1
    a2 = a2
    a3 = a3
    b1 = b1
    b2 = b2
    Genesis = g
    Block = {g, a1, a2, b1, b2}
    Parent <- ForkParent
    Anc <- ForkAnc
    Height <- ForkHeight
    Work <- WorkOf
    Addr <- AddrOf
    WellFormed = {g, a1, a2, b1, b2}
    Sound = {g, a1, a2, b1}
    Invalidatable = {a1}
    Reconsiderable = {b2}
    Keep = 1
    PruneBound = 0
    Thread = {t1, t2}
SPECIFICATION FairSpec
INVARIANTS ActiveChainValid CandidatesLinked CheckBlockIndex BestChainAtRest CandidatesSound
PROPERTIES ReorgImproves BetterChainAdopted
CHECK_DEADLOCK FALSE
