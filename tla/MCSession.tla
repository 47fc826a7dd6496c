---- MODULE MCSession ----
(* Instances of Session for TLC: a host and two joiners, one of which may  *)
(* have left already, and an entry of each.                                *)
EXTENDS Session, TLC

CONSTANTS host, ann, bob, eh, ea, eb

MCJoiners == {ann, bob}
MCFormer == {bob}
MCEntries == {eh, ea}
MCEntriesWithLeft == {eh, ea, eb}
MCAuthorOf == (eh :> host) @@ (ea :> ann)
MCAuthorOfWithLeft == (eh :> host) @@ (ea :> ann) @@ (eb :> bob)
MCNobody == {}
====
