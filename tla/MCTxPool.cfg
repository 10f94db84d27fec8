SPECIFICATION Spec
CONSTANTS
    g = g
    a1 = a1
    a2 = a2
    a3 = a3
    a4 = a4
    a5 = a5
    b3 = b3
    Genesis = g
    Block <- MCBlock
    Parent <- MCParent
    Height <- MCHeight
    Body <- MCBody
    Tx <- MCTx
    Ins <- MCIns
    Outs <- MCOuts
    Size <- MCSize
    CoinBase = {1, 2, 3, 4}
    Unsound = {15}
    Disliked = {11, 13}
    Maturity = 2
    Peer = {p1, p2}
    MaxOrphans = 2
INVARIANTS
    UndoExact
    PoolChecked
    NoLostParents
    OrphansIndexed
PROPERTIES
    OrphansResolved
