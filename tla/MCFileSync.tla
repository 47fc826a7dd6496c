---- MODULE MCFileSync ----
(* Instances of FileSync for TLC: a host and a joiner, two contents and    *)
(* the empty file.  The slower the machines, the more a behaviour branches *)
(* and the less may happen in it.                                          *)
EXTENDS FileSync, TLC

CONSTANTS doc, empty, h1, h2

MCPaths == {doc}
MCHashes == {empty, h1, h2}
MCBounds ==
    [calm |-> [events |-> 4, failures |-> 2, times |-> 1 .. 5],
     busy |-> [events |-> 3, failures |-> 1, times |-> 1 .. 5],
     slow |-> [events |-> 2, failures |-> 1, times |-> 1 .. 4]]
MCBusy == [busy |-> [events |-> 2, failures |-> 0, times |-> 1 .. 4]]
====
