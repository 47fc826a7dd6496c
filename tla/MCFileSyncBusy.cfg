CONSTANTS
    doc = doc
    empty = empty
    h1 = h1
    h2 = h2
    Absent = Absent
    Empty = empty
    Paths <- MCPaths
    Hashes <- MCHashes
    Times = {1, 2, 3, 4}
    Peers = {1, 2}
    Timers = {1, 2}
    Bounds <- MCBusy
    Host = 1
SPECIFICATION Spec
INVARIANT NothingSuppressed
CHECK_DEADLOCK FALSE
