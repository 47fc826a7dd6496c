---- MODULE MCPresence ----
(* An instance of Presence for TLC: a host and a joiner, and two calls of  *)
(* set_status by either.                                                   *)
EXTENDS Presence, TLC

CONSTANTS host, ann

MCJoiners == {ann}
====
