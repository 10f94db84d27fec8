CONSTANTS
    x = x
    y = y
    c1 = c1
    c2 = c2
    h1 = h1
    h2 = h2
    h3 = h3
    Tx = {x, y}
    Coin = {c1, c2}
    Pruned = Pruned
    BlockHash = {h1, h2, h3}
    NoHash = NoHash
    UtxoAt <- UtxoOf
    Size <- SizeOf
SPECIFICATION Spec
INVARIANTS FlagsSound BatchWriteAssert UsageExact CoinsMatchBest
PROPERTY ImplementsStore
