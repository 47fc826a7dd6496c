---- MODULE FileIndex ----
(***************************************************************************)
(* The merge rules of the store's file index (internal/store/store.go):    *)
(* a last-writer-wins register per path whose deletes leave tombstones.    *)
(* Modules that hold an index in a variable share these operators; they    *)
(* carry no state.                                                         *)
(*                                                                         *)
(* A peer ID is a string that the code only compares, so it is its rank in *)
(* the string order.  A hash stands for the content and its size.  The Go  *)
(* map entry a path does not have is Absent.                               *)
(***************************************************************************)
EXTENDS Integers

CONSTANTS Paths,    \* relative paths below the shared directory
          Peers,    \* peer IDs, by rank
          Times,    \* values of time.Now() the model tells apart
          Hashes,   \* file contents
          Absent    \* the result of a map lookup that finds nothing

Version == [time : Times, peer : Peers]
Meta == [time : Times, peer : Peers, hash : Hashes]

ASSUME VersionsOrdered == Times \subseteq Nat /\ Peers \subseteq Nat

\* What a call asks of the index, and the content a file_chunk message carries.
Write == [version : Version, deleted : {FALSE}, hash : Hashes]
Delete == [version : Version, deleted : {TRUE}, hash : {Absent}]
Op == Write \cup Delete

ASSUME AbsentIsNoRecord == Absent \notin Version \cup Meta \cup Op

\* Mutation: ties are not broken by the peer.
LaterThanOnTimeOnly(a, b) == a.time > b.time

\* Is version a later than version b, lexicographically on (ModTime, PeerID)?
LaterThan(a, b) ==
    a.time > b.time \/ (a.time = b.time /\ a.peer > b.peer)

VersionOf(meta) == [time |-> meta.time, peer |-> meta.peer]

\* Mutation: the tombstone is not looked at.
UpsertIgnoringTombstone(file, tombstone, meta) ==
    file # Absent => LaterThan(meta, file)

\* UpsertFile's merge decision for a path that holds `file` and `tombstone`.
UpsertAccepted(file, tombstone, meta) ==
    /\ tombstone # Absent => LaterThan(meta, tombstone)
    /\ file # Absent => LaterThan(meta, file)

\* Mutation: a file is deleted whatever its version.
DeleteIgnoringVersion(file, tombstone, meta) ==
    (file = Absent /\ tombstone # Absent) => ~LaterThan(tombstone, meta)

\* DeleteFile's merge decision: a delete yields only to a strictly later version,
\* and the tombstone is looked at only when there is no file.
DeleteAccepted(file, tombstone, meta) ==
    /\ file # Absent => ~LaterThan(file, meta)
    /\ (file = Absent /\ tombstone # Absent) => ~LaterThan(tombstone, meta)

----
(* The order the two decisions implement between them, for properties.     *)

\* The operation a path's lookups show: its file, its tombstone or neither.
Register(file, tombstone) ==
    IF file # Absent THEN [version |-> VersionOf(file), deleted |-> FALSE, hash |-> file.hash]
    ELSE IF tombstone # Absent THEN [version |-> tombstone, deleted |-> TRUE, hash |-> Absent]
    ELSE Absent

\* Register a outranks b: a later version, or at one version a delete over a write.
Outranks(a, b) ==
    \/ LaterThan(a.version, b.version)
    \/ a.version = b.version /\ a.deleted /\ ~b.deleted
====
