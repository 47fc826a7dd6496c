---- MODULE Replicas ----
(***************************************************************************)
(* The file indexes of the peers of a session, kept in step by file_chunk  *)
(* messages: the watcher of a peer turns a change on disk into a store     *)
(* call and a broadcast (internal/sync/sync.go, processFsEvent and         *)
(* handleLocalDelete), and the engine of another peer turns the message    *)
(* into a store call (applyInboundFileChunk).                              *)
(*                                                                         *)
(* The network may lose, delay, reorder and repeat messages, so the        *)
(* messages are a set that only grows and each peer takes from it what it  *)
(* is given.  A message Replay sends is one of the set again: it carries   *)
(* the version and the writer of the original.  Clocks are arbitrary: two  *)
(* peers may disagree and a peer's own clock may go back.                  *)
(***************************************************************************)
EXTENDS FileIndex, FiniteSets

CONSTANT MaxOps   \* bound: operations issued in one behaviour

ASSUME MaxOpsAssumption == MaxOps \in Nat

VARIABLES
    files,        \* peer -> path -> metadata or Absent
    tombstones,   \* peer -> path -> version of the last delete or Absent
    sent,         \* path -> the operations of all messages ever broadcast
    known         \* history: peer -> path -> the operations its store was given

vars == <<files, tombstones, sent, known>>

TypeOK ==
    /\ files \in [Peers -> [Paths -> Meta \cup {Absent}]]
    /\ tombstones \in [Peers -> [Paths -> Version \cup {Absent}]]
    /\ sent \in [Paths -> SUBSET Op]
    /\ known \in [Peers -> [Paths -> SUBSET Op]]

Init ==
    /\ files = [p \in Peers |-> [x \in Paths |-> Absent]]
    /\ tombstones = [p \in Peers |-> [x \in Paths |-> Absent]]
    /\ sent = [x \in Paths |-> {}]
    /\ known = [p \in Peers |-> [x \in Paths |-> {}]]

MetaOf(op) == [time |-> op.version.time, peer |-> op.version.peer, hash |-> op.hash]

\* The store's decision on op at peer p.
Accepted(p, x, op) ==
    IF op.deleted
    THEN DeleteAccepted(files[p][x], tombstones[p][x], op.version)
    ELSE UpsertAccepted(files[p][x], tombstones[p][x], op.version)

\* Mutation: the tombstone is given the metadata of the deleted file.
TombstoneKeepsMeta(p, x, op) ==
    /\ files' = [files EXCEPT ![p][x] = IF op.deleted THEN Absent ELSE MetaOf(op)]
    /\ tombstones' = [tombstones EXCEPT ![p][x] = IF op.deleted THEN files[p][x] ELSE Absent]

\* What an accepted call does to the index of p.
SetRegister(p, x, op) ==
    /\ files' = [files EXCEPT ![p][x] = IF op.deleted THEN Absent ELSE MetaOf(op)]
    /\ tombstones' = [tombstones EXCEPT ![p][x] = IF op.deleted THEN op.version ELSE Absent]

Given(p, x, op) == known' = [known EXCEPT ![p][x] = @ \cup {op}]

\* Mutation: the broadcast does not wait for the merge's decision.
BroadcastUnasked(p, x, op) ==
    /\ op.version.peer = p
    /\ Cardinality(sent[x]) < MaxOps
    /\ sent' = [sent EXCEPT ![x] = @ \cup {op}]
    /\ Given(p, x, op)
    /\ IF Accepted(p, x, op) THEN SetRegister(p, x, op) ELSE UNCHANGED <<files, tombstones>>

\* Peer p finds a changed or a missing file: it stamps it with its clock and its ID
\* and, only if its own store accepts that, broadcasts it.
LocalChange(p, x, op) ==
    /\ op.version.peer = p
    /\ Cardinality(sent[x]) < MaxOps
    /\ Accepted(p, x, op)
    /\ SetRegister(p, x, op)
    /\ sent' = [sent EXCEPT ![x] = @ \cup {op}]
    /\ Given(p, x, op)

\* Peer p is brought a message, its first copy or another; its own are echoes and are
\* dropped.
Apply(p, x, op) ==
    /\ op \in sent[x]
    /\ op.version.peer # p
    /\ IF Accepted(p, x, op) THEN SetRegister(p, x, op) ELSE UNCHANGED <<files, tombstones>>
    /\ Given(p, x, op)
    /\ UNCHANGED sent

Next == \E p \in Peers, x \in Paths, op \in Op : LocalChange(p, x, op) \/ Apply(p, x, op)

Spec == Init /\ [][Next]_vars

----
(* Properties.                                                             *)

\* The operation peer p's lookups of path x show.
Shown(p, x) == Register(files[p][x], tombstones[p][x])

\* Two peers whose stores were given the same operations on a path have the same
\* file or the same tombstone there, whatever the order, the repetitions and the
\* clocks (store.go 105-110: "deterministic convergence").
StrongConvergence ==
    \A p, q \in Peers, x \in Paths :
       known[p][x] = known[q][x] =>
          files[p][x] = files[q][x] /\ tombstones[p][x] = tombstones[q][x]

\* No two broadcasts write different contents under one version, although two timers
\* of a peer may read one clock value or the clock may go back: the store's refusal of
\* a version it has keeps versions unique (sync.go 357-369, store.go 115-126).
VersionsUnique ==
    \A x \in Paths : \A a, b \in sent[x] :
       a.version = b.version /\ a.deleted = b.deleted => a = b

\* The two maps of each store implement one register that always shows the newest
\* operation the peer was given.
Abstract == INSTANCE NewestWins WITH
    published <- sent,
    shown <- [p \in Peers |-> [x \in Paths |-> Shown(p, x)]]

ShowsNewestKnown == Abstract!Spec
====
