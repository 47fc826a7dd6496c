CONSTANTS
    ann = ann
    bob = bob
    ours = ours
    other = other
    Ours = ours
    Peers <- OnePeer
    Sessions <- TwoSessions
SPECIFICATION FairSpec
INVARIANTS
    TypeOK
    LeavesNothingBehind
    GoodbyesPrecedeStop
    WholeUnlessOverlapping
PROPERTIES
    EndsWhenAsked
    LastSessionOwnsFile
CHECK_DEADLOCK FALSE
