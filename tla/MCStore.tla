---- MODULE MCStore ----
(* An instance of Store for TLC: the engine and one other writer, two       *)
(* entries, one path and two versions of it.                                *)
EXTENDS Store, TLC

CONSTANTS engine, mcp, e1, e2, doc, h1

MCWriters == {engine, mcp}
MCEntries == {e1, e2}
MCTimeOf == (e1 :> 2) @@ (e2 :> 1)
MCPaths == {doc}
MCHashes == {h1}
====
