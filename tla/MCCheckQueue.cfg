CONSTANTS
    Worker = {w1, w2}
    Master = m
    Check = {c1, c2, c3, c4}
    Bad = {c4}
    BatchSize = 2
SPECIFICATION FairSpec
INVARIANTS ControlFindsIdleQueue VerdictIsConjunction
PROPERTIES WaitReturns
