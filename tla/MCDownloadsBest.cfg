SPECIFICATION FairSpec
CONSTANTS
    Peer <- Two
    Nice = {"h", "s"}
    Honest = {"h"}
    Best <- OneBlock
    Block <- OneBlocks
    Genesis = "g"
    Parent <- OneParent
    Bad = {}
    Window = 1
    Transit = 1
PROPERTY DownloadsBest
CHECK_DEADLOCK FALSE
