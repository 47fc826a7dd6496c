CONSTANTS
    doc = doc
    h1 = h1
    h2 = h2
    Absent = Absent
    Paths <- MCPaths
    Hashes <- MCHashes
    Times = {1, 2}
    Peers = {1, 2, 3}
    MaxOps = 4
SPECIFICATION Spec
SYMMETRY Symmetry
INVARIANTS
    TypeOK
    StrongConvergence
    VersionsUnique
PROPERTY ShowsNewestKnown
CHECK_DEADLOCK FALSE
