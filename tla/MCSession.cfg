CONSTANTS
    host = host
    ann = ann
    bob = bob
    eh = eh
    ea = ea
    eb = eb
    Host = host
    Joiners <- MCJoiners
    Former <- MCFormer
    Entries <- MCEntriesWithLeft
    AuthorOf <- MCAuthorOfWithLeft
    InCap = 1
    EventCap = 1
    MaxEnding = 1
    MaxLost = 1
SPECIFICATION FairSpec
INVARIANTS
    TypeOK
    UninvitedStayOut
    HostKnowsItsJoiners
    RosterCatchesUp
    NoGapBetweenReplayAndBroadcast
PROPERTIES
    PostsArrive
    GoodbyeIsFinal
CHECK_DEADLOCK FALSE
