---- MODULE MCSharedLog ----
(* An instance of SharedLog for TLC: two peers and four entries, answers   *)
(* of at most two.                                                         *)
EXTENDS SharedLog, TLC

CONSTANTS p1, p2, e1, e2, e3, e4

MCPeers == {p1, p2}
MCEntries == {e1, e2, e3, e4}
Symmetry == Permutations(MCPeers) \cup Permutations(MCEntries)
====
