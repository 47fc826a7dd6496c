---- MODULE MCLifecycle ----
(* Instances of Lifecycle for TLC: a transport that may know one peer or    *)
(* two, and another session on the machine or none.                        *)
EXTENDS Lifecycle, TLC

CONSTANTS ann, bob, ours, other

OnePeer == {ann}
TwoPeers == {ann, bob}
TwoSessions == {ours, other}
====
