CONSTANTS
    ann = ann
    bob = bob
    ours = ours
    other = other
    Ours = ours
    Peers <- TwoPeers
    Sessions <- TwoSessions
SPECIFICATION Spec
INVARIANT GoodbyeOnInterrupt
CHECK_DEADLOCK FALSE
