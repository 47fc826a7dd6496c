CONSTANTS
    host = host
    ann = ann
    Host = host
    Joiners <- MCJoiners
    Screens <- MCJoiners
    MaxCalls = 2
    Unset = unset
    Absent = absent
    MaxPolls = 1
SPECIFICATION FairSpec
INVARIANTS
    TypeOK
    ToldAreUpToDate
    GoodbyeHolds
PROPERTIES
    StatusIsShown
    LeaversVanish
    HostIdShown
CHECK_DEADLOCK FALSE
