CONSTANTS
    p1 = p1
    p2 = p2
    e1 = e1
    e2 = e2
    e3 = e3
    e4 = e4
    Peers <- MCPeers
    Entries <- MCEntries
    Times = {1, 2, 3}
    PageSize = 2
    Second = 2
SPECIFICATION Spec
SYMMETRY Symmetry
INVARIANTS
    TypeOK
    OneConversation
    MissesOnlyLateOrTied
    RepeatsOnlyTheSecondOfAPost
CHECK_DEADLOCK FALSE
