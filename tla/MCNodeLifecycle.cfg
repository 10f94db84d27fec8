SPECIFICATION FairSpec
CONSTANTS
    Node <- Three
    Outbound = 1
    MaxInbound = 1
INVARIANTS NodesLive SlotsKept
PROPERTY DroppedNodesDeleted
CHECK_DEADLOCK FALSE
