SPECIFICATION Spec
CONSTANTS
    Peer <- Two
    Nice = {"h", "s"}
    Honest = {"h"}
    Best <- BestOf
    Block <- Blocks
    Genesis = "g"
    Parent <- Parents
    Bad = {"x2"}
    Window = 1
    Transit = 1
INVARIANTS BooksExact CommonStored
PROPERTIES AskedOnce
CHECK_DEADLOCK FALSE
