CONSTANTS
    engine = engine
    mcp = mcp
    Engine = engine
    e1 = e1
    e2 = e2
    doc = doc
    h1 = h1
    Absent = Absent
    Writers <- MCWriters
    Entries <- MCEntries
    TimeOf <- MCTimeOf
    Paths <- MCPaths
    Hashes <- MCHashes
    Times = {1, 2}
    Peers = {1}
    ChanCap = 2
    MaxChanges = 4
SPECIFICATION Spec
INVARIANT NoPanic
CHECK_DEADLOCK FALSE
