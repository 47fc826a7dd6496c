---- MODULE MCReplicas ----
(* An instance of Replicas for TLC: three peers, one path, two contents.    *)
EXTENDS Replicas, TLC

CONSTANTS doc, h1, h2

MCPaths == {doc}
MCHashes == {h1, h2}
Symmetry == Permutations(MCHashes)
====
