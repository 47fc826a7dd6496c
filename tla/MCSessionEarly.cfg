CONSTANTS
    host = host
    ann = ann
    bob = bob
    eh = eh
    ea = ea
    eb = eb
    Host = host
    Joiners = {ann}
    Former <- MCNobody
    Entries <- MCEntries
    AuthorOf <- MCAuthorOf
    InCap = 2
    EventCap = 2
    MaxEnding = 0
    MaxLost = 0
SPECIFICATION Spec
INVARIANT EarlyPostsArrive
CHECK_DEADLOCK FALSE
