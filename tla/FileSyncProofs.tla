---- MODULE FileSyncProofs ----
(***************************************************************************)
(* Theorems about FileSync for every set of peers and contents, every      *)
(* number of timers and all bounds.                                        *)
(*                                                                         *)
(*   IndexInv  at any pace: every version a joiner lacks is on its way, or *)
(*             to be replayed, missed or another joiner's; every version   *)
(*             the host lacks is on its way to it.                         *)
(*   CalmInv   at a calm pace: an edit is saved, then one timer has it,    *)
(*             then it spreads, and while it spreads every event is marked.*)
(***************************************************************************)
EXTENDS FileSync, FileIndexProofs, FiniteSetTheorems

----
(* Types.                                                                  *)

Timer == {Idle, [at |-> "read"]} \cup [at : {"merge", "send"}, op : Op]
Applier == {Idle} \cup [at : {"mark", "mirror", "fill"}, op : Op]

LEMMA TimerShapes ==
    ASSUME NEW s \in Timer
    PROVE  /\ s.at \in {"idle", "read", "merge", "send"}
           /\ s.at = "idle" <=> s = Idle
           /\ s.at \in {"merge", "send"} => s.op \in Op /\ s = [at |-> s.at, op |-> s.op]
BY DEF Timer, Idle

LEMMA ApplierShapes ==
    ASSUME NEW s \in Applier
    PROVE  /\ s.at \in {"idle", "mark", "mirror", "fill"}
           /\ s.at = "idle" <=> s = Idle
           /\ s.at # "idle" => s.op \in Op /\ s = [at |-> s.at, op |-> s.op]
BY DEF Applier, Idle

\* Where Replay is.
LEMMA ReplayShapes ==
    ASSUME TypeOK, replay # Idle
    PROVE  /\ replay.at \in {"read", "send"}
           /\ replay.at = "read" => /\ replay.to \in late /\ replay.meta \in Meta
                                    /\ replay = [at |-> "read", to |-> replay.to, meta |-> replay.meta]
           /\ replay.at = "send" => /\ replay.chunk \in Chunk
                                    /\ replay = [at |-> "send", chunk |-> replay.chunk]
<1>1. \/ replay \in [at : {"read"}, to : late, meta : Meta]
      \/ replay \in [at : {"send"}, chunk : Chunk]
  BY DEF TypeOK
<1> QED BY <1>1

LEMMA ChunkShapes ==
    ASSUME NEW m \in Chunk
    PROVE  /\ m.to \in Peers /\ m.op \in Op /\ m.content \in Contents
           /\ m = [to |-> m.to, op |-> m.op, content |-> m.content]
BY DEF Chunk

\* What an accepted operation makes of the index.
LEMMA RecordTypes ==
    ASSUME TypeOK, NEW p \in Peers, NEW op \in Op, Record(p, op)
    PROVE  /\ files' \in [Peers -> Meta \cup {Absent}]
           /\ tombstones' \in [Peers -> Version \cup {Absent}]
<1>1. /\ op.version \in Version /\ op.deleted \in BOOLEAN
      /\ ~op.deleted => op.hash \in Hashes
  BY OpFields
<1>2. ~op.deleted => MetaOf(op) \in Meta
  BY <1>1 DEF MetaOf, Meta, Version
<1> QED BY <1>1, <1>2 DEF Record, TypeOK

Typed == TypeOK /\ IsFiniteSet(late)

LEMMA TypeInit == Init => Typed
<1> SUFFICES ASSUME Init PROVE Typed
  OBVIOUS
<1>1. pace \in DOMAIN Bounds /\ Bounds[pace].events \in Nat /\ Bounds[pace].failures \in Nat
  BY BoundsAssumption DEF Init
<1>2. edits \in 0 .. Bounds[pace].events /\ failures \in 0 .. Bounds[pace].failures
  BY <1>1 DEF Init
<1>3. IsFiniteSet(late)
  BY FS_EmptySet DEF Init
<1> QED BY <1>1, <1>2, <1>3 DEF Init, TypeOK, Typed, Contents

LEMMA TypeUser ==
    ASSUME Typed, NEW p \in Peers, (\E content \in Contents : Edit(p, content)) \/ Join(p)
    PROVE  Typed'
<1>1. Cardinality(late) \in Nat
  BY FS_CardinalityType DEF Typed
<1>2. /\ pace \in DOMAIN Bounds /\ edits \in Nat /\ Bounds[pace].events \in Nat
  BY BoundsAssumption DEF Typed, TypeOK
<1>3. ASSUME NEW content \in Contents, Edit(p, content)
      PROVE  Typed'
  <2>1. edits' \in 0 .. Bounds[pace].events
    BY <1>1, <1>2, <1>3 DEF Edit, MoreMayHappen
  <2> QED BY <1>3, <2>1 DEF Edit, Typed, TypeOK, tracker, index
<1>4. ASSUME Join(p)
      PROVE  Typed'
  <2>1. IsFiniteSet(late')
    BY <1>4, FS_AddElement DEF Join, Typed
  <2>2. replay' \in {Idle} \cup [at : {"read"}, to : late', meta : Meta]
                        \cup [at : {"send"}, chunk : Chunk]
    BY <1>4 DEF Join, Typed, TypeOK
  <2> QED BY <1>4, <2>1, <2>2 DEF Join, Typed, TypeOK, index, watcher
<1> QED BY <1>3, <1>4

LEMMA TypeWatcher ==
    ASSUME Typed, NEW p \in Peers, Expire(p) \/ WatchStep(p)
    PROVE  Typed'
<1>1. CASE Watch(p)
  BY <1>1 DEF Watch, Typed, TypeOK, history, tracker, index
<1>2. CASE Expire(p)
  BY <1>2 DEF Expire, Typed, TypeOK, history, tracker, index, watcher
<1>3. ASSUME NEW t \in Timers, Fire(p, t)
      PROVE  Typed'
  BY <1>3 DEF Fire, Typed, TypeOK, history, tracker, index
<1> QED BY <1>1, <1>2, <1>3 DEF WatchStep

LEMMA TypeTimer ==
    ASSUME Typed, NEW p \in Peers, NEW t \in Timers, TimerStep(p, t)
    PROVE  Typed'
<1> USE DEF Typed
<1>0. timers[p][t] \in Timer
  BY DEF TypeOK, Timer
<1>1. CASE Read(p, t)
  <2>1. clock \in Times /\ clock' \in Times
    BY <1>1, BoundsAssumption DEF Read, TypeOK
  <2>2. [version |-> [time |-> clock, peer |-> p], deleted |-> disk[p] = Absent, hash |-> disk[p]] \in Op
    <3>1. [time |-> clock, peer |-> p] \in Version /\ disk[p] \in Hashes \cup {Absent}
      BY <2>1 DEF Version, TypeOK, Contents
    <3> QED BY <3>1, ContentsAssumption DEF Op, Write, Delete
  <2> QED BY <1>1, <2>1, <2>2 DEF Read, TypeOK, history, tracker, index, watcher
<1>2. CASE ReadFails(p, t)
  <2>1. failures' \in 0 .. Bounds[pace].failures
    BY <1>2, BoundsAssumption DEF ReadFails, Fails, TypeOK
  <2> QED BY <1>2, <2>1 DEF ReadFails, TypeOK, tracker, index, watcher, Calm
<1>3. CASE Merge(p, t)
  <2>1. timers[p][t].op \in Op
    BY <1>0, <1>3, TimerShapes DEF Merge
  <2>2. /\ files' \in [Peers -> Meta \cup {Absent}]
        /\ tombstones' \in [Peers -> Version \cup {Absent}]
    BY <1>3, <2>1, RecordTypes DEF Merge, TypeOK, index
  <2>3. timers' \in [Peers -> [Timers -> Timer]]
    <3>1. [at |-> "send", op |-> timers[p][t].op] \in Timer /\ Idle \in Timer
      BY <2>1 DEF Timer
    <3>2. \E s \in Timer : timers' = [timers EXCEPT ![p][t] = s]
      BY <1>3, <3>1 DEF Merge
    <3> QED BY <3>2 DEF TypeOK, Timer
  <2> QED BY <1>3, <2>2, <2>3 DEF Merge, TypeOK, history, tracker, watcher, Timer
<1>4. CASE Send(p, t)
  <2>1. timers[p][t].op \in Op /\ timers[p][t].op.hash \in Contents
    BY <1>0, <1>4, TimerShapes, OpFields DEF Send, Contents
  <2>2. Targets(p) \subseteq Peers
    BY HostAssumption DEF Targets, TypeOK
  <2>3. net' \subseteq Chunk
    BY <1>4, <2>1, <2>2 DEF Send, TypeOK, Chunk
  <2> QED BY <1>4, <2>3 DEF Send, TypeOK, history, tracker, index, watcher
<1> QED BY <1>1, <1>2, <1>3, <1>4 DEF TimerStep

LEMMA TypeEngine ==
    ASSUME Typed, NEW p \in Peers, EngineStep(p)
    PROVE  Typed'
<1> USE DEF Typed
<1>0. applying[p] \in Applier
  BY DEF TypeOK, Applier
<1>1. CASE Mark(p)
  <2>1. [applying[p] EXCEPT !.at = "mirror"] \in Applier
    BY <1>0, <1>1, ApplierShapes DEF Mark, Applier
  <2>2. applying' = [applying EXCEPT ![p] = [@ EXCEPT !.at = "mirror"]]
    BY <1>1 DEF Mark
  <2>3. applying' \in [Peers -> Applier]
    BY <2>1, <2>2 DEF TypeOK, Applier
  <2> QED BY <1>1, <2>3 DEF Mark, TypeOK, history, tracker, index, watcher, Applier
<1>2. CASE Mirror(p)
  <2>1. applying[p].op.deleted \in BOOLEAN /\ [applying[p] EXCEPT !.at = "fill"] \in Applier
    BY <1>0, <1>2, ApplierShapes, OpFields DEF Mirror, Applier
  <2>2. applying' \in [Peers -> Applier]
    BY <1>2, <2>1 DEF Mirror, TypeOK, Applier
  <2>3. disk' \in [Peers -> Contents]
    BY <1>2, ContentsAssumption DEF Mirror, TypeOK, Contents
  <2>4. notified' \in [Peers -> BOOLEAN]
    BY <1>2, <2>1 DEF Mirror, TypeOK
  <2> QED BY <1>2, <2>2, <2>3, <2>4 DEF Mirror, TypeOK, tracker, index, Applier
<1>3. CASE Fill(p)
  <2>1. applying[p].op.hash \in Contents
    BY <1>0, <1>3, ApplierShapes, OpFields DEF Fill, Contents
  <2> QED BY <1>3, <2>1 DEF Fill, TypeOK, tracker, index
<1>4. CASE MirrorFails(p)
  <2>1. failures' \in 0 .. Bounds[pace].failures
    BY <1>4, BoundsAssumption DEF MirrorFails, Fails, TypeOK
  <2> QED BY <1>4, <2>1 DEF MirrorFails, TypeOK, tracker, index, watcher
<1>5. ASSUME NEW m \in net, Apply(p, m)
      PROVE  Typed'
  <2>1. m.op \in Op
    BY <1>5, ChunkShapes DEF TypeOK
  <2>2. /\ files' \in [Peers -> Meta \cup {Absent}]
        /\ tombstones' \in [Peers -> Version \cup {Absent}]
    BY <1>5, <2>1, RecordTypes DEF Apply, TypeOK, index
  <2>3. applying' \in [Peers -> Applier]
    BY <1>5, <2>1 DEF Apply, TypeOK, Applier
  <2> QED BY <1>5, <2>2, <2>3 DEF Apply, TypeOK, history, tracker, watcher, Applier
<1> QED BY <1>1, <1>2, <1>3, <1>4, <1>5 DEF EngineStep

LEMMA TypeTracker == ASSUME Typed, TrackStep PROVE Typed'
<1> USE DEF Typed
<1>1. CASE ReadListed
  <2>1. /\ replay.at = "read" /\ replay.to \in late /\ replay.meta \in Meta
        /\ VersionOf(replay.meta) \in Version /\ replay.meta.hash \in Hashes
    BY <1>1, ReplayShapes DEF ReadListed, Meta, Version, VersionOf
  <2>2. [to |-> replay.to, content |-> disk[Host],
         op |-> [version |-> VersionOf(replay.meta), deleted |-> FALSE, hash |-> replay.meta.hash]] \in Chunk
    BY <2>1, HostAssumption DEF Chunk, Op, Write, TypeOK
  <2>3. replay' \in {Idle} \cup [at : {"send"}, chunk : Chunk]
    BY <1>1, <2>2 DEF ReadListed
  <2>4. missed' \subseteq late
    BY <1>1 DEF ReadListed, TypeOK
  <2> QED BY <1>1, <2>3, <2>4 DEF ReadListed, TypeOK, index, watcher
<1>2. CASE SendListed
  <2>1. replay.chunk \in Chunk
    BY <1>2, ReplayShapes DEF SendListed
  <2> QED BY <1>2, <2>1 DEF SendListed, TypeOK, history, index, watcher
<1>3. ASSUME NEW q \in due, List(q)
      PROVE  Typed'
  <2>1. q \in late
    BY DEF TypeOK
  <2>2. replay' \in {Idle} \cup [at : {"read"}, to : late, meta : Meta]
    BY <1>3, <2>1, HostAssumption DEF List, TypeOK
  <2>3. missed' \subseteq late
    BY <1>3 DEF List, TypeOK
  <2> QED BY <1>3, <2>2, <2>3 DEF List, TypeOK, index, watcher
<1> QED BY <1>1, <1>2, <1>3 DEF TrackStep

----
(* What the operations under way may be, and where they have got to.       *)

\* What the index of p shows.
Shown(p) == Register(files[p], tombstones[p])

\* A register that shows version v, or a later one.
AtLeast(reg, v) == reg # Absent /\ ~LaterThan(v, reg.version)

ListedOp(meta) == [version |-> VersionOf(meta), deleted |-> FALSE, hash |-> meta.hash]

Replays(q, op) ==
    /\ replay # Idle
    /\ \/ replay.at = "read" /\ replay.to = q /\ ListedOp(replay.meta) = op
       \/ replay.at = "send" /\ replay.chunk.to = q /\ replay.chunk.op = op

\* Operation op has been merged somewhere, and is in an index or on its way.
Merged(op) ==
    \/ \E p \in Peers : Shown(p) = op \/ Replays(p, op)
    \/ \E p \in Peers, t \in Timers : timers[p][t].at = "send" /\ timers[p][t].op = op
    \/ \E m \in net : m.op = op

Present(op) ==
    Merged(op) \/ \E p \in Peers, t \in Timers : timers[p][t].at = "merge" /\ timers[p][t].op = op

FileOrTombstone == \A p \in Peers : files[p] = Absent \/ tombstones[p] = Absent

\* Nothing happens in a directory before its peer has joined.
Outsiders ==
    \A p \in Peers \ Members :
       /\ files[p] = Absent /\ tombstones[p] = Absent /\ disk[p] = Absent /\ applying[p] = Idle
       /\ ~notified[p] /\ ~pending[p] /\ \A t \in Timers : timers[p][t] = Idle

\* A timer has an operation of its own peer's.
TimersOwn ==
    \A p \in Peers, t \in Timers :
       timers[p][t].at \in {"merge", "send"} => timers[p][t].op.version.peer = p

\* The clock has been read once for each operation.
InThePast == \A op \in Op : Present(op) => op.version.time < clock
VersionsUnique ==
    \A a, b \in Op : Present(a) /\ Present(b) /\ a.version = b.version => a = b

\* Who wrote an operation shows it, or a later one.
AuthorsAhead == \A op \in Op : Merged(op) => AtLeast(Shown(op.version.peer), op.version)

\* What goes to a joiner the host shows, or a later one; what goes to the host is
\* something it has not written.
HostAhead ==
    /\ \A m \in net : IF m.to = Host THEN m.op.version.peer # Host /\ m.content = m.op.hash
                      ELSE m.to \in joined /\ AtLeast(Shown(Host), m.op.version)
    /\ \A q \in Peers, op \in Op : Replays(q, op) => q \in late /\ AtLeast(Shown(Host), op.version)

\* What the host shows is on its way to p.
Coming(p) ==
    \/ \E t \in Timers : timers[Host][t].at = "send" /\ timers[Host][t].op = Shown(Host)
    \/ \E m \in net : m.to = p /\ m.op = Shown(Host) /\ m.content = m.op.hash
    \/ p \in due
    \/ Replays(p, Shown(Host)) /\ (replay.at = "send" => replay.chunk.content = replay.chunk.op.hash)

\* A joiner shows what the host shows, or a later operation, or will, or is left behind.
Downwards ==
    \A p \in joined :
       \/ Shown(Host) = Absent
       \/ AtLeast(Shown(p), Shown(Host).version)
       \/ Coming(p)
       \/ p \in missed
       \/ Shown(Host).version.peer \notin {p, Host}

\* The host shows what a joiner shows, or a later operation, or will.
Upwards ==
    \A p \in joined :
       \/ Shown(p) = Absent
       \/ AtLeast(Shown(Host), Shown(p).version)
       \/ \E t \in Timers : timers[p][t].at = "send" /\ timers[p][t].op = Shown(p)
       \/ \E m \in net : m.to = Host /\ m.op = Shown(p)

IndexInv ==
    /\ FileOrTombstone /\ Outsiders /\ TimersOwn /\ InThePast /\ VersionsUnique
    /\ AuthorsAhead /\ HostAhead /\ Downwards /\ Upwards

----
(* Merging.                                                                *)

LEMMA ShownIsOp ==
    ASSUME TypeOK, FileOrTombstone, NEW p \in Peers
    PROVE  /\ Shown(p) \in Op \cup {Absent}
           /\ Shown(p) = Absent <=> files[p] = Absent /\ tombstones[p] = Absent
<1>1. /\ files[p] \in Meta \cup {Absent} /\ tombstones[p] \in Version \cup {Absent}
      /\ files[p] = Absent \/ tombstones[p] = Absent
  BY DEF TypeOK, FileOrTombstone
<1> QED BY <1>1, RegisterIsOp DEF Shown

LEMMA OpIsNotAbsent == Absent \notin Op
BY AbsentIsNoRecord

\* A register only advances, so what it has got to it has got to for good.
LEMMA AtLeastKept ==
    ASSUME NEW a \in Op \cup {Absent}, NEW b \in Op, NEW v \in Version, AtLeast(a, v),
           ~LaterThan(a.version, b.version)
    PROVE  AtLeast(b, v)
<1>1. a \in Op /\ a.version \in Version /\ b.version \in Version
  BY OpFields DEF AtLeast
<1>2. ~LaterThan(v, a.version)
  BY DEF AtLeast
<1>3. v = a.version \/ LaterThan(a.version, v)
  BY <1>1, <1>2, LaterThanOrder
<1>4. a.version = b.version \/ LaterThan(b.version, a.version)
  BY <1>1, LaterThanOrder
<1>5. LaterThan(v, b.version) => LaterThan(v, v) \/ LaterThan(v, a.version)
  BY <1>1, <1>3, <1>4, LaterThanOrder
<1>6. ~LaterThan(v, v)
  BY LaterThanOrder
<1> QED BY <1>2, <1>5, <1>6, OpIsNotAbsent DEF AtLeast

LEMMA AtLeastItself == ASSUME NEW op \in Op PROVE AtLeast(op, op.version)
BY OpFields, LaterThanOrder, OpIsNotAbsent DEF AtLeast

\* What the store answers, and what it shows then.
LEMMA Decision ==
    ASSUME TypeOK, FileOrTombstone, NEW p \in Peers, NEW op \in Op
    PROVE  /\ Accepted(p, op) => Shown(p) = Absent \/ ~LaterThan(Shown(p).version, op.version)
           /\ ~Accepted(p, op) => AtLeast(Shown(p), op.version)
           /\ Record(p, op) => /\ FileOrTombstone'
                               /\ Shown(p)' = op
                               /\ \A q \in Peers \ {p} : Shown(q)' = Shown(q)
<1>1. /\ files[p] \in Meta \cup {Absent} /\ tombstones[p] \in Version \cup {Absent}
      /\ files[p] = Absent \/ tombstones[p] = Absent
  BY DEF TypeOK, FileOrTombstone
<1>2. /\ op.version \in Version /\ op.deleted \in BOOLEAN
      /\ op.deleted => op.hash = Absent
      /\ ~op.deleted => op.hash \in Hashes
      /\ op = [version |-> op.version, deleted |-> op.deleted, hash |-> op.hash]
  BY OpFields
<1>3. VersionOf(op.version) = op.version
  BY <1>2 DEF VersionOf, Version
<1>4. /\ UpsertAccepted(files[p], tombstones[p], op.version)
         <=> Shown(p) = Absent \/ LaterThan(op.version, Shown(p).version)
      /\ DeleteAccepted(files[p], tombstones[p], op.version)
         <=> Shown(p) = Absent \/ ~LaterThan(Shown(p).version, op.version)
  BY <1>1, <1>2, <1>3, DecisionsOnRegister DEF Shown
<1>5. Shown(p) # Absent => /\ Shown(p).version \in Version
                           /\ LaterThan(op.version, Shown(p).version) =>
                                 ~LaterThan(Shown(p).version, op.version)
  <2>1. Shown(p) # Absent => Shown(p).version \in Version
    BY ShownIsOp, OpFields
  <2> QED BY <1>2, <2>1, LaterThanOrder
<1>6. Accepted(p, op) => Shown(p) = Absent \/ ~LaterThan(Shown(p).version, op.version)
  BY <1>4, <1>5 DEF Accepted
<1>7. ~Accepted(p, op) => AtLeast(Shown(p), op.version)
  BY <1>4, <1>5 DEF Accepted, AtLeast
<1>8. ASSUME Record(p, op)
      PROVE  /\ FileOrTombstone'
             /\ Shown(p)' = op
             /\ \A q \in Peers \ {p} : Shown(q)' = Shown(q)
  <2>1. /\ files'[p] = IF op.deleted THEN Absent ELSE MetaOf(op)
        /\ tombstones'[p] = IF op.deleted THEN op.version ELSE Absent
        /\ \A q \in Peers \ {p} : files'[q] = files[q] /\ tombstones'[q] = tombstones[q]
    BY <1>8 DEF Record, TypeOK
  <2>2. FileOrTombstone'
    BY <2>1 DEF FileOrTombstone
  <2>3. \A q \in Peers \ {p} : Shown(q)' = Shown(q)
    BY <2>1 DEF Shown
  <2>4. CASE op.deleted
    <3>1. op.version # Absent
      BY <1>2, AbsentIsNoRecord
    <3>2. Register(Absent, op.version) = [version |-> op.version, deleted |-> TRUE, hash |-> Absent]
      BY <3>1 DEF Register
    <3>3. Shown(p)' = Register(Absent, op.version)
      BY <2>1, <2>4 DEF Shown
    <3> QED BY <1>2, <2>2, <2>3, <2>4, <3>2, <3>3
  <2>5. CASE ~op.deleted
    <3>1. MetaOf(op) \in Meta /\ VersionOf(MetaOf(op)) = op.version /\ MetaOf(op).hash = op.hash
      BY <1>2, <2>5 DEF MetaOf, Meta, VersionOf, Version
    <3>2. MetaOf(op) # Absent
      BY <3>1, AbsentIsNoRecord
    <3>3. Register(MetaOf(op), Absent) = [version |-> op.version, deleted |-> FALSE, hash |-> op.hash]
      BY <3>1, <3>2 DEF Register
    <3>4. Shown(p)' = Register(MetaOf(op), Absent)
      BY <2>1, <2>5 DEF Shown
    <3> QED BY <1>2, <2>2, <2>3, <2>5, <3>3, <3>4
  <2> QED BY <1>2, <2>4, <2>5
<1> QED BY <1>6, <1>7, <1>8

----
(* The steps.                                                              *)

\* What is left alone where one member moves stays as Outsiders says.
LEMMA OneMemberMoves ==
    ASSUME Outsiders, NEW p \in Members, Members \subseteq Members',
           \A q \in Peers \ {p} :
              /\ files'[q] = files[q] /\ tombstones'[q] = tombstones[q] /\ disk'[q] = disk[q]
              /\ applying'[q] = applying[q] /\ notified'[q] = notified[q]
              /\ pending'[q] = pending[q] /\ timers'[q] = timers[q]
    PROVE  Outsiders'
BY DEF Outsiders

\* Changing one timer.
LEMMA OneTimerMoves ==
    ASSUME TypeOK, NEW p \in Peers, NEW t \in Timers, NEW s,
           timers' = [timers EXCEPT ![p][t] = s]
    PROVE  /\ timers'[p][t] = s
           /\ \A q \in Peers, u \in Timers : q # p \/ u # t => timers'[q][u] = timers[q][u]
           /\ \A q \in Peers \ {p} : timers'[q] = timers[q]
BY DEF TypeOK

\* Where nothing new is merged, what is said of merged operations stays.
LEMMA NothingNew ==
    ASSUME InThePast, VersionsUnique, AuthorsAhead, clock \in Nat, clock' \in Nat, clock <= clock',
           \A op \in Op : Present(op)' => Present(op),
           \A op \in Op : Merged(op)' =>
              Merged(op) \/ AtLeast(Shown(op.version.peer)', op.version),
           \A p \in Peers, v \in Version : AtLeast(Shown(p), v) => AtLeast(Shown(p)', v)
    PROVE  InThePast' /\ VersionsUnique' /\ AuthorsAhead'
<1>1. InThePast'
  <2>1. SUFFICES ASSUME NEW op \in Op, Present(op)' PROVE op.version.time < clock'
    BY DEF InThePast
  <2>2. op.version.time < clock /\ op.version.time \in Nat
    BY <2>1, OpFields, VersionsOrdered DEF InThePast, Version
  <2> QED BY <2>2
<1>2. VersionsUnique'
  BY DEF VersionsUnique
<1>3. AuthorsAhead'
  <2>1. SUFFICES ASSUME NEW op \in Op, Merged(op)'
                 PROVE  AtLeast(Shown(op.version.peer)', op.version)
    BY DEF AuthorsAhead
  <2>2. op.version \in Version /\ op.version.peer \in Peers
    BY OpFields DEF Version
  <2> QED BY <2>1, <2>2 DEF AuthorsAhead
<1> QED BY <1>1, <1>2, <1>3

\* A step that does not touch an index or a message: timers take up nothing that counts, and
\* drop nothing that was merged.
Aside ==
    /\ UNCHANGED <<files, tombstones, net, due, replay, joined, late, missed, clock>>
    /\ \A p \in Peers, t \in Timers :
          \/ timers'[p][t] = timers[p][t]
          \/ timers[p][t].at # "send" /\ timers'[p][t].at \notin {"merge", "send"}

LEMMA AsideKeeps ==
    ASSUME Typed, IndexInv, Aside, Outsiders'
    PROVE  IndexInv'
<1>1. /\ \A p \in Peers : Shown(p)' = Shown(p)
      /\ Shown(Host)' = Shown(Host)
      /\ \A q \in Peers : \A op : Replays(q, op)' <=> Replays(q, op)
  BY DEF Aside, Shown, Replays
<1>2. \A p \in Peers, t \in Timers :
         /\ timers'[p][t].at = "send" <=> timers[p][t].at = "send"
         /\ timers[p][t].at = "send" => timers'[p][t].op = timers[p][t].op
         /\ timers'[p][t].at = "merge" => timers[p][t] = timers'[p][t]
  BY DEF Aside
<1>3. \A op \in Op : (Merged(op)' => Merged(op)) /\ (Present(op)' => Present(op))
  <2>1. \A op \in Op : Merged(op)' => Merged(op)
    BY <1>1, <1>2 DEF Merged, Aside
  <2> QED BY <1>2, <2>1 DEF Present
<1>4. clock \in Nat /\ clock' = clock
  BY VersionsOrdered DEF Typed, TypeOK, Aside
<1>5. InThePast' /\ VersionsUnique' /\ AuthorsAhead'
  <2>1. clock' \in Nat /\ clock <= clock'
    BY <1>4
  <2>2. \A p \in Peers, v \in Version : AtLeast(Shown(p), v) => AtLeast(Shown(p)', v)
    BY <1>1
  <2> QED BY <1>3, <1>4, <2>1, <2>2, NothingNew DEF IndexInv
<1>6. FileOrTombstone'
  BY DEF FileOrTombstone, IndexInv, Aside
<1>7. TimersOwn'
  BY <1>2 DEF TimersOwn, IndexInv
<1>8. HostAhead'
  BY <1>1 DEF HostAhead, IndexInv, Aside
<1>9. Downwards'
  <2>1. \A p \in joined : Coming(p) => Coming(p)'
    BY <1>1, <1>2, HostAssumption DEF Coming, Aside, Typed, TypeOK
  <2>2. joined' = joined /\ missed' = missed /\ joined \subseteq Peers
    BY DEF Aside, Typed, TypeOK
  <2> QED BY <1>1, <2>1, <2>2 DEF Downwards, IndexInv
<1>10. Upwards'
  <2>1. joined' = joined /\ net' = net /\ joined \subseteq Peers
    BY DEF Aside, Typed, TypeOK
  <2> QED BY <1>1, <1>2, <2>1 DEF Upwards, IndexInv
<1> QED BY <1>5, <1>6, <1>7, <1>8, <1>9, <1>10 DEF IndexInv

LEMMA StepsAside ==
    ASSUME Typed, IndexInv, NEW p \in Peers,
           \/ \E content \in Contents : Edit(p, content)
           \/ Expire(p) \/ WatchStep(p) \/ Mark(p) \/ Mirror(p) \/ Fill(p) \/ MirrorFails(p)
           \/ \E t \in Timers : ReadFails(p, t)
    PROVE  IndexInv'
<1> USE DEF Typed
<1>0. applying[p] \in Applier /\ (applying[p].at # "idle" => applying[p] # Idle)
  BY DEF TypeOK, Applier, Idle
<1>1. ASSUME NEW content \in Contents, Edit(p, content)
      PROVE  IndexInv'
  <2>1. p \in Members /\ Members \subseteq Members'
    BY <1>1 DEF Edit, Members
  <2>2. Aside
    BY <1>1 DEF Edit, Aside, index, tracker
  <2>3. Outsiders'
    BY <1>1, <2>1, OneMemberMoves DEF Edit, IndexInv, index, TypeOK
  <2> QED BY <2>2, <2>3, AsideKeeps
<1>2. CASE Expire(p)
  <2>1. Aside
    BY <1>2 DEF Expire, Aside, index, tracker, history
  <2>2. Outsiders'
    BY <1>2 DEF Expire, IndexInv, Outsiders, Members, index, watcher
  <2> QED BY <2>1, <2>2, AsideKeeps
<1>3. CASE Watch(p)
  <2>1. p \in Members /\ Members \subseteq Members'
    BY <1>3 DEF Watch, Members, IndexInv, Outsiders
  <2>2. Aside
    BY <1>3 DEF Watch, Aside, index, tracker, history
  <2>3. Outsiders'
    BY <1>3, <2>1, OneMemberMoves DEF Watch, IndexInv, index, TypeOK
  <2> QED BY <2>2, <2>3, AsideKeeps
<1>4. ASSUME NEW t \in Timers, Fire(p, t)
      PROVE  IndexInv'
  <2>1. p \in Members /\ Members \subseteq Members'
    BY <1>4 DEF Fire, Members, IndexInv, Outsiders
  <2>2. /\ \A q \in Peers \ {p} : timers'[q] = timers[q]
        /\ \A q \in Peers, u \in Timers : q # p \/ u # t => timers'[q][u] = timers[q][u]
        /\ timers'[p][t] = timers[p][t] \/ timers'[p][t] = [at |-> "read"]
    <3>1. timers' = timers \/ timers' = [timers EXCEPT ![p][t] = [at |-> "read"]]
      BY <1>4 DEF Fire
    <3> QED BY <3>1, OneTimerMoves
  <2>3. timers[p][t].at # "send"
    BY <1>4 DEF Fire, Idle
  <2>4. Aside
    BY <1>4, <2>2, <2>3 DEF Fire, Aside, index, tracker, history
  <2>5. Outsiders'
    BY <1>4, <2>1, <2>2, OneMemberMoves DEF Fire, IndexInv, index, TypeOK
  <2> QED BY <2>4, <2>5, AsideKeeps
<1>5. CASE Mark(p) \/ Mirror(p) \/ Fill(p) \/ MirrorFails(p)
  <2>1. p \in Members /\ Members \subseteq Members'
    <3>1. applying[p] # Idle /\ joined' = joined
      BY <1>0, <1>5 DEF Mark, Mirror, Fill, MirrorFails
    <3> QED BY <3>1 DEF IndexInv, Outsiders, Members
  <2>2. Aside
    BY <1>5 DEF Mark, Mirror, Fill, MirrorFails, Aside, index, tracker, history
  <2>3. \A q \in Peers \ {p} :
           /\ files'[q] = files[q] /\ tombstones'[q] = tombstones[q] /\ disk'[q] = disk[q]
           /\ applying'[q] = applying[q] /\ notified'[q] = notified[q]
           /\ pending'[q] = pending[q] /\ timers'[q] = timers[q]
    <3>1. CASE Mark(p)
      BY <3>1 DEF Mark, index, watcher, TypeOK
    <3>2. CASE Mirror(p)
      BY <3>2 DEF Mirror, index, TypeOK
    <3>3. CASE Fill(p)
      BY <3>3 DEF Fill, index, TypeOK
    <3>4. CASE MirrorFails(p)
      BY <3>4 DEF MirrorFails, index, watcher, TypeOK
    <3> QED BY <1>5, <3>1, <3>2, <3>3, <3>4
  <2>4. Outsiders'
    BY <2>1, <2>3, OneMemberMoves DEF IndexInv
  <2> QED BY <2>2, <2>4, AsideKeeps
<1>6. ASSUME NEW t \in Timers, ReadFails(p, t)
      PROVE  IndexInv'
  <2>1. timers[p][t] # Idle /\ timers[p][t].at # "send" /\ timers' = [timers EXCEPT ![p][t] = Idle]
    BY <1>6 DEF ReadFails, Idle
  <2>2. p \in Members /\ Members \subseteq Members'
    BY <1>6, <2>1 DEF ReadFails, Members, IndexInv, Outsiders
  <2>3. /\ \A q \in Peers \ {p} : timers'[q] = timers[q]
        /\ \A q \in Peers, u \in Timers : q # p \/ u # t => timers'[q][u] = timers[q][u]
        /\ timers'[p][t] = Idle
    BY <2>1 DEF TypeOK
  <2>4. Aside
    BY <1>6, <2>1, <2>3 DEF ReadFails, Aside, index, tracker, history, Idle
  <2>5. Outsiders'
    BY <1>6, <2>2, <2>3, OneMemberMoves DEF ReadFails, IndexInv, index, watcher
  <2> QED BY <2>4, <2>5, AsideKeeps
<1> QED BY <1>1, <1>2, <1>3, <1>4, <1>5, <1>6 DEF WatchStep

\* A change is stamped with a time no operation has.
LEMMA ReadKeeps ==
    ASSUME Typed, IndexInv, NEW p \in Peers, NEW t \in Timers, Read(p, t)
    PROVE  IndexInv'
<1> USE DEF Typed
<1> DEFINE version == [time |-> clock, peer |-> p]
           new == [version |-> version, deleted |-> disk[p] = Absent, hash |-> disk[p]]
<1>1. timers' = [timers EXCEPT ![p][t] = [at |-> "merge", op |-> new]] /\ timers[p][t].at = "read"
  BY DEF Read
<1>2. /\ timers'[p][t] = [at |-> "merge", op |-> new]
      /\ \A q \in Peers, u \in Timers : q # p \/ u # t => timers'[q][u] = timers[q][u]
      /\ \A q \in Peers \ {p} : timers'[q] = timers[q]
  BY <1>1 DEF TypeOK
<1>3. /\ UNCHANGED <<files, tombstones, net, due, replay, joined, late, missed, disk, applying,
                     notified, pending>>
      /\ clock \in Nat /\ clock' = clock + 1
  BY VersionsOrdered DEF Read, index, tracker, history, watcher, TypeOK
<1>4. new.version = version /\ version.time = clock /\ version.peer = p
  OBVIOUS
<1> HIDE DEF new, version
<1>5. /\ \A q \in Peers : Shown(q)' = Shown(q)
      /\ Shown(Host)' = Shown(Host)
      /\ \A q \in Peers : \A op : Replays(q, op)' <=> Replays(q, op)
  BY <1>3 DEF Shown, Replays
<1>6. \A q \in Peers, u \in Timers :
         timers'[q][u].at = "send" \/ timers[q][u].at = "send" => timers'[q][u] = timers[q][u]
  BY <1>1, <1>2
<1>7. \A op \in Op : Merged(op)' <=> Merged(op)
  <2>1. ASSUME NEW op \in Op
        PROVE  (\E q \in Peers, u \in Timers : timers'[q][u].at = "send" /\ timers'[q][u].op = op)
                <=> \E q \in Peers, u \in Timers : timers[q][u].at = "send" /\ timers[q][u].op = op
    BY <1>6
  <2> QED BY <1>3, <1>5, <2>1 DEF Merged
<1>8. \A op \in Op : Present(op)' => Present(op) \/ op = new
  BY <1>2, <1>7 DEF Present
<1>9. \A op \in Op : Present(op) => op.version.time < clock /\ op.version.time \in Nat
  BY OpFields, VersionsOrdered DEF InThePast, IndexInv, Version
<1>10. InThePast'
  BY <1>3, <1>4, <1>8, <1>9 DEF InThePast
<1>11. VersionsUnique'
  <2> SUFFICES ASSUME NEW a \in Op, NEW b \in Op, Present(a)', Present(b)', a.version = b.version
               PROVE  a = b
    BY DEF VersionsUnique
  <2>1. Present(a) => a # new /\ a.version.time # clock
    BY <1>3, <1>4, <1>9
  <2>2. Present(b) => b # new /\ b.version.time # clock
    BY <1>3, <1>4, <1>9
  <2> QED BY <1>4, <1>8, <2>1, <2>2 DEF VersionsUnique, IndexInv
<1>12. AuthorsAhead'
  <2> SUFFICES ASSUME NEW op \in Op, Merged(op)' PROVE AtLeast(Shown(op.version.peer)', op.version)
    BY DEF AuthorsAhead
  <2>1. op.version.peer \in Peers
    BY OpFields DEF Version
  <2> QED BY <1>5, <1>7, <2>1 DEF AuthorsAhead, IndexInv
<1>13. FileOrTombstone'
  BY <1>3 DEF FileOrTombstone, IndexInv
<1>14. Outsiders'
  <2>1. p \in Members /\ Members \subseteq Members'
    BY <1>1, <1>3 DEF Members, IndexInv, Outsiders, Idle
  <2> QED BY <1>2, <1>3, <2>1, OneMemberMoves DEF IndexInv
<1>15. TimersOwn'
  BY <1>2, <1>4 DEF TimersOwn, IndexInv
<1>16. HostAhead'
  BY <1>3, <1>5 DEF HostAhead, IndexInv
<1>17. Downwards'
  <2>1. \A q \in joined : Coming(q) => Coming(q)'
    BY <1>1, <1>2, <1>3, <1>5, HostAssumption DEF Coming, TypeOK
  <2> QED BY <1>3, <1>5, <2>1 DEF Downwards, IndexInv, TypeOK
<1>18. Upwards'
  <2>1. \A q \in joined : q \in Peers /\ Shown(q)' = Shown(q)
    BY <1>5 DEF TypeOK
  <2> QED BY <1>3, <1>5, <1>6, <2>1 DEF Upwards, IndexInv
<1> QED BY <1>10, <1>11, <1>12, <1>13, <1>14, <1>15, <1>16, <1>17, <1>18 DEF IndexInv

\* Recording an operation moves the register of one peer, and no register back.
LEMMA Advance ==
    ASSUME Typed, IndexInv, NEW p \in Peers, NEW op \in Op, Accepted(p, op), Record(p, op)
    PROVE  /\ FileOrTombstone'
           /\ Shown(p)' = op
           /\ \A q \in Peers \ {p} : Shown(q)' = Shown(q)
           /\ \A q \in Peers, v \in Version : AtLeast(Shown(q), v) => AtLeast(Shown(q)', v)
<1> USE DEF Typed
<1>1. /\ FileOrTombstone'
      /\ Shown(p)' = op
      /\ \A q \in Peers \ {p} : Shown(q)' = Shown(q)
      /\ Shown(p) = Absent \/ ~LaterThan(Shown(p).version, op.version)
  BY Decision DEF IndexInv
<1>2. Shown(p) \in Op \cup {Absent}
  BY ShownIsOp DEF IndexInv
<1>3. \A v \in Version : AtLeast(Shown(p), v) => AtLeast(op, v)
  BY <1>1, <1>2, AtLeastKept DEF AtLeast
<1> QED BY <1>1, <1>3

LEMMA MergeKeeps ==
    ASSUME Typed, IndexInv, NEW p \in Peers, NEW t \in Timers, Merge(p, t)
    PROVE  IndexInv'
<1> USE DEF Typed
<1>0. timers[p][t] \in Timer /\ timers[p][t].at = "merge"
  BY DEF Merge, TypeOK, Timer
<1>6. PICK op \in Op : op = timers[p][t].op
  BY <1>0, TimerShapes
<1>1. /\ timers[p][t].at = "merge" /\ timers[p][t] # Idle /\ op.version.peer = p
      /\ op.version \in Version
  BY <1>0, <1>6, OpFields DEF IndexInv, TimersOwn, Idle
<1>2. p \in Members /\ Members \subseteq Members'
  BY <1>1 DEF Merge, Members, IndexInv, Outsiders
<1>3. UNCHANGED <<net, due, replay, joined, late, missed, clock, disk, applying, notified, pending>>
  BY DEF Merge, tracker, history, watcher
<1>4. CASE Accepted(p, op) /\ Record(p, op) /\ timers' = [timers EXCEPT ![p][t] = [at |-> "send", op |-> op]]
  <2>1. /\ FileOrTombstone'
        /\ Shown(p)' = op
        /\ \A q \in Peers \ {p} : Shown(q)' = Shown(q)
        /\ \A q \in Peers, v \in Version : AtLeast(Shown(q), v) => AtLeast(Shown(q)', v)
    BY <1>1, <1>4, Advance
  <2>2. /\ timers'[p][t] = [at |-> "send", op |-> op]
        /\ \A q \in Peers, u \in Timers : q # p \/ u # t => timers'[q][u] = timers[q][u]
        /\ \A q \in Peers \ {p} : timers'[q] = timers[q]
    BY <1>4 DEF TypeOK
  <2>3. \A q \in Peers : \A x : Replays(q, x)' <=> Replays(q, x)
    BY <1>3 DEF Replays
  <2>4. \A x \in Op : Merged(x)' => Merged(x) \/ x = op
    BY <1>3, <2>1, <2>2, <2>3 DEF Merged
  <2>5. Present(op)
    BY <1>1, <1>6 DEF Present
  <2>6. \A x \in Op : Present(x)' => Present(x)
    BY <2>2, <2>4, <2>5 DEF Present
  <2>7. InThePast' /\ VersionsUnique' /\ AuthorsAhead'
    <3>1. clock \in Nat /\ clock' \in Nat /\ clock <= clock'
      BY <1>3, VersionsOrdered DEF TypeOK
    <3>2. AtLeast(Shown(op.version.peer)', op.version)
      BY <1>1, <2>1, AtLeastItself
    <3>3. \A x \in Op : Merged(x)' => Merged(x) \/ AtLeast(Shown(x.version.peer)', x.version)
      BY <2>4, <3>2
    <3> QED BY <2>1, <2>6, <3>1, <3>3, NothingNew DEF IndexInv
  <2>8. Outsiders'
    <3>1. \A q \in Peers \ {p} : files'[q] = files[q] /\ tombstones'[q] = tombstones[q]
      BY <1>4 DEF Record, TypeOK
    <3> QED BY <1>2, <1>3, <2>2, <3>1, OneMemberMoves DEF IndexInv
  <2>9. TimersOwn'
    BY <1>1, <2>2 DEF TimersOwn, IndexInv
  <2>10. HostAhead'
    <3>1. \A x \in Op : AtLeast(Shown(Host), x.version) => AtLeast(Shown(Host)', x.version)
      BY <2>1, HostAssumption, OpFields
    <3>2. \A m \in net : m.op \in Op
      BY ChunkShapes DEF TypeOK
    <3> QED BY <1>3, <2>3, <3>1, <3>2 DEF HostAhead, IndexInv
  <2>11. Downwards'
    <3>1. CASE p = Host
      <4>1. \A q \in joined : Coming(q)'
        BY <2>1, <2>2, <3>1 DEF Coming
      <4> QED BY <1>3, <4>1 DEF Downwards
    <3>2. CASE p # Host
      <4>1. Shown(Host)' = Shown(Host)
        BY <2>1, <3>2, HostAssumption
      <4>2. \A q \in joined : Coming(q) => Coming(q)'
        BY <1>3, <2>2, <2>3, <3>2, <4>1, HostAssumption DEF Coming, TypeOK
      <4>3. Shown(Host) # Absent => Shown(Host).version \in Version
        BY ShownIsOp, OpFields, HostAssumption DEF IndexInv
      <4>4. joined \subseteq Peers
        BY DEF TypeOK
      <4> QED BY <1>3, <2>1, <4>1, <4>2, <4>3, <4>4 DEF Downwards, IndexInv
    <3> QED BY <3>1, <3>2
  <2>12. Upwards'
    <3> SUFFICES ASSUME NEW q \in joined
                 PROVE  \/ Shown(q)' = Absent
                        \/ AtLeast(Shown(Host)', Shown(q)'.version)
                        \/ \E u \in Timers : timers'[q][u].at = "send" /\ timers'[q][u].op = Shown(q)'
                        \/ \E m \in net' : m.to = Host /\ m.op = Shown(q)'
      BY <1>3 DEF Upwards
    <3>1. q \in Peers
      BY DEF TypeOK
    <3>2. CASE q = p
      BY <2>1, <2>2, <3>2
    <3>3. CASE q # p
      <4>1. Shown(q)' = Shown(q) /\ timers'[q] = timers[q]
        BY <2>1, <2>2, <3>1, <3>3
      <4>2. Shown(q) # Absent => Shown(q).version \in Version
        BY <3>1, ShownIsOp, OpFields DEF IndexInv
      <4> QED BY <1>3, <2>1, <4>1, <4>2, HostAssumption DEF Upwards, IndexInv
    <3> QED BY <3>2, <3>3
  <2> QED BY <2>1, <2>7, <2>8, <2>9, <2>10, <2>11, <2>12 DEF IndexInv
<1>5. CASE UNCHANGED index /\ timers' = [timers EXCEPT ![p][t] = Idle]
  <2>1. /\ \A q \in Peers \ {p} : timers'[q] = timers[q]
        /\ \A q \in Peers, u \in Timers : q # p \/ u # t => timers'[q][u] = timers[q][u]
        /\ timers'[p][t] = Idle
    BY <1>5 DEF TypeOK
  <2>2. Aside
    BY <1>1, <1>3, <1>5, <2>1 DEF Aside, index, Idle
  <2>3. Outsiders'
    BY <1>2, <1>3, <1>5, <2>1, OneMemberMoves DEF index, IndexInv
  <2> QED BY <2>2, <2>3, AsideKeeps
<1> QED BY <1>4, <1>5, <1>6 DEF Merge

\* What is sent is what the index shows, or has moved on from.
LEMMA SendKeeps ==
    ASSUME Typed, IndexInv, NEW p \in Peers, NEW t \in Timers, Send(p, t)
    PROVE  IndexInv'
<1> USE DEF Typed
<1> DEFINE op == timers[p][t].op
           Sent(q) == [to |-> q, op |-> op, content |-> op.hash]
<1>1. /\ timers[p][t].at = "send" /\ timers[p][t] # Idle /\ op \in Op /\ op.version.peer = p
      /\ op.version \in Version
  <2>1. timers[p][t] \in Timer /\ timers[p][t].at = "send"
    BY DEF Send, TypeOK, Timer
  <2>2. op \in Op /\ timers[p][t] # Idle
    BY <2>1, TimerShapes DEF Idle
  <2> QED BY <2>1, <2>2, OpFields DEF IndexInv, TimersOwn
<1>2. p \in Members /\ Members \subseteq Members'
  BY <1>1 DEF Send, Members, IndexInv, Outsiders
<1>3. UNCHANGED <<files, tombstones, due, replay, joined, late, missed, clock, disk, applying, notified, pending>>
  BY DEF Send, tracker, history, watcher, index
<1>4. /\ timers'[p][t] = Idle
      /\ \A q \in Peers, u \in Timers : q # p \/ u # t => timers'[q][u] = timers[q][u]
      /\ \A q \in Peers \ {p} : timers'[q] = timers[q]
  BY DEF Send, TypeOK
<1>5. net' = net \cup {Sent(q) : q \in Targets(p)}
  BY DEF Send
<1>6. \A m \in net' : m \in net \/ \E q \in Targets(p) : m = Sent(q)
  BY <1>5
<1>7. \A q \in Targets(p) : Sent(q) \in net'
  BY <1>5
<1>8. \A q : Sent(q).to = q /\ Sent(q).op = op /\ Sent(q).content = op.hash
  OBVIOUS
<1>9. Merged(op)
  BY <1>1 DEF Merged
<1> HIDE DEF op, Sent
<1>10. /\ \A q \in Peers : Shown(q)' = Shown(q)
       /\ Shown(Host)' = Shown(Host)
       /\ \A q \in Peers : \A x : Replays(q, x)' <=> Replays(q, x)
  BY <1>3 DEF Shown, Replays
<1>11. \A q \in Peers, u \in Timers : timers'[q][u] = timers[q][u] \/ timers'[q][u].at = "idle"
  BY <1>4 DEF Idle
<1>12. \A x \in Op : Merged(x)' => Merged(x)
  <2>1. ASSUME NEW x \in Op, NEW m \in net', m.op = x PROVE Merged(x)
    BY <1>6, <1>8, <1>9, <2>1 DEF Merged
  <2>2. ASSUME NEW x \in Op, NEW q \in Peers, NEW u \in Timers, timers'[q][u].at = "send",
               timers'[q][u].op = x
        PROVE  Merged(x)
    BY <1>11, <2>2 DEF Merged
  <2>3. ASSUME NEW x \in Op, NEW q \in Peers, Shown(q)' = x \/ Replays(q, x)' PROVE Merged(x)
    BY <1>10, <2>3 DEF Merged
  <2> QED BY <2>1, <2>2, <2>3 DEF Merged
<1>13. \A x \in Op : Present(x)' => Present(x)
  BY <1>11, <1>12 DEF Present
<1>14. InThePast' /\ VersionsUnique' /\ AuthorsAhead'
  <2>1. clock \in Nat /\ clock' \in Nat /\ clock <= clock'
    BY <1>3, VersionsOrdered DEF TypeOK
  <2>2. \A q \in Peers, v \in Version : AtLeast(Shown(q), v) => AtLeast(Shown(q)', v)
    BY <1>10
  <2> QED BY <1>12, <1>13, <2>1, <2>2, NothingNew DEF IndexInv
<1>15. Outsiders'
  BY <1>2, <1>3, <1>4, OneMemberMoves DEF IndexInv
<1>16. TimersOwn'
  BY <1>11 DEF TimersOwn, IndexInv
<1>17. HostAhead'
  <2>1. ASSUME NEW q \in Targets(p)
        PROVE  IF q = Host THEN p # Host ELSE q \in joined /\ p = Host
    BY DEF Targets, TypeOK
  <2>2. AtLeast(Shown(p), op.version)
    BY <1>1, <1>9 DEF AuthorsAhead, IndexInv
  <2>3. ASSUME NEW m \in net'
        PROVE  IF m.to = Host THEN m.op.version.peer # Host /\ m.content = m.op.hash
               ELSE m.to \in joined' /\ AtLeast(Shown(Host)', m.op.version)
    <3>1. CASE m \in net
      BY <1>3, <1>10, <3>1 DEF HostAhead, IndexInv
    <3>2. ASSUME NEW q \in Targets(p), m = Sent(q)
          PROVE  IF m.to = Host THEN m.op.version.peer # Host /\ m.content = m.op.hash
                 ELSE m.to \in joined' /\ AtLeast(Shown(Host)', m.op.version)
      BY <1>1, <1>3, <1>8, <1>10, <2>1, <2>2, <3>2
    <3> QED BY <1>6, <3>1, <3>2
  <2>4. \A q \in Peers, x \in Op : Replays(q, x)' => q \in late' /\ AtLeast(Shown(Host)', x.version)
    BY <1>3, <1>10 DEF HostAhead, IndexInv
  <2> QED BY <2>3, <2>4 DEF HostAhead
<1>18. Downwards'
  <2>1. \A q \in joined : Coming(q) => Coming(q)'
    <3> SUFFICES ASSUME NEW q \in joined, Coming(q) PROVE Coming(q)'
      OBVIOUS
    <3>1. q \in Peers /\ net \subseteq net'
      BY <1>5 DEF TypeOK
    <3>2. ASSUME NEW u \in Timers, timers[Host][u].at = "send", timers[Host][u].op = Shown(Host)
          PROVE  Coming(q)'
      <4>1. CASE p = Host /\ u = t
        <5>1. q \in Targets(p) /\ op = Shown(Host)
          BY <3>2, <4>1 DEF Targets, op
        <5> QED BY <1>7, <1>8, <1>10, <5>1 DEF Coming
      <4>2. CASE ~(p = Host /\ u = t)
        BY <1>4, <1>10, <3>2, <4>2, HostAssumption DEF Coming
      <4> QED BY <4>1, <4>2
    <3>3. CASE \E m \in net : m.to = q /\ m.op = Shown(Host) /\ m.content = m.op.hash
      BY <1>10, <3>1, <3>3 DEF Coming
    <3>4. CASE q \in due \/ (Replays(q, Shown(Host)) /\ (replay.at = "send" => replay.chunk.content = replay.chunk.op.hash))
      BY <1>3, <1>10, <3>1, <3>4 DEF Coming
    <3> QED BY <3>2, <3>3, <3>4 DEF Coming
  <2>2. joined \subseteq Peers
    BY DEF TypeOK
  <2> QED BY <1>3, <1>10, <2>1, <2>2 DEF Downwards, IndexInv
<1>19. Upwards'
  <2> SUFFICES ASSUME NEW q \in joined
               PROVE  \/ Shown(q) = Absent
                      \/ AtLeast(Shown(Host), Shown(q).version)
                      \/ \E u \in Timers : timers'[q][u].at = "send" /\ timers'[q][u].op = Shown(q)
                      \/ \E m \in net' : m.to = Host /\ m.op = Shown(q)
    BY <1>3, <1>10 DEF Upwards, TypeOK
  <2>1. q \in Peers /\ net \subseteq net' /\ q # Host
    BY <1>5 DEF TypeOK
  <2>2. ASSUME NEW u \in Timers, timers[q][u].at = "send", timers[q][u].op = Shown(q), q = p, u = t
        PROVE  \E m \in net' : m.to = Host /\ m.op = Shown(q)
    <3>1. Host \in Targets(p) /\ op = Shown(q)
      BY <2>1, <2>2 DEF Targets, op
    <3> QED BY <1>7, <1>8, <3>1
  <2> QED BY <1>4, <2>1, <2>2 DEF Upwards, IndexInv
<1>20. FileOrTombstone'
  BY <1>3 DEF FileOrTombstone, IndexInv
<1> QED BY <1>14, <1>15, <1>16, <1>17, <1>18, <1>19, <1>20 DEF IndexInv

\* A message is merged, or something at least as late is shown by whom it reaches.
LEMMA ApplyKeeps ==
    ASSUME Typed, IndexInv, NEW p \in Peers, NEW m \in net, Apply(p, m)
    PROVE  IndexInv'
<1> USE DEF Typed
<1>1. PICK op \in Op : op = m.op
  BY ChunkShapes DEF TypeOK
<1>2. op.version \in Version /\ op.version.peer \in Peers
  BY OpFields DEF Version
<1>3. /\ m.to = p /\ net' = net \ {m}
      /\ UNCHANGED <<due, replay, joined, late, missed, clock, disk, notified, pending, timers>>
  BY DEF Apply, tracker, history, watcher
<1>4. p \in Members /\ Members \subseteq Members'
  BY <1>3 DEF Members, HostAhead, IndexInv
<1>5. Merged(op) /\ AtLeast(Shown(op.version.peer), op.version)
  BY <1>1 DEF Merged, AuthorsAhead, IndexInv
<1>6. \A q \in Peers : \A x : Replays(q, x)' <=> Replays(q, x)
  BY <1>3 DEF Replays
<1>7. p # Host => p \in joined /\ AtLeast(Shown(Host), op.version)
  BY <1>1, <1>3 DEF HostAhead, IndexInv
<1>8. p = Host => op.version.peer # Host /\ m.content = op.hash
  BY <1>1, <1>3 DEF HostAhead, IndexInv
<1>9. /\ \A q \in Peers, v \in Version : AtLeast(Shown(q), v) => AtLeast(Shown(q)', v)
      /\ \A q \in Peers \ {p} : Shown(q)' = Shown(q)
      /\ Shown(p)' \in {Shown(p), op}
      /\ Genuine(p, m) => AtLeast(Shown(p)', op.version)
      /\ FileOrTombstone'
      /\ \A q \in Peers \ {p} : /\ files'[q] = files[q] /\ tombstones'[q] = tombstones[q]
                                /\ applying'[q] = applying[q]
  <2>1. CASE /\ Genuine(p, m) /\ Accepted(p, op) /\ Record(p, op)
             /\ applying' = [applying EXCEPT ![p] = [at |-> "mark", op |-> m.op]]
    <3>1. /\ FileOrTombstone'
          /\ Shown(p)' = op
          /\ \A q \in Peers \ {p} : Shown(q)' = Shown(q)
          /\ \A q \in Peers, v \in Version : AtLeast(Shown(q), v) => AtLeast(Shown(q)', v)
      BY <2>1, Advance
    <3>2. AtLeast(op, op.version)
      BY AtLeastItself
    <3>3. \A q \in Peers \ {p} : /\ files'[q] = files[q] /\ tombstones'[q] = tombstones[q]
                                 /\ applying'[q] = applying[q]
      BY <2>1 DEF Record, TypeOK
    <3>4. Shown(p)' \in {Shown(p), op} /\ (Genuine(p, m) => AtLeast(Shown(p)', op.version))
      BY <3>1, <3>2
    <3> QED BY <3>1, <3>3, <3>4
  <2>2. CASE ~(Genuine(p, m) /\ Accepted(p, op)) /\ UNCHANGED <<index, applying>>
    <3>1. UNCHANGED <<files, tombstones, applying>> /\ \A q \in Peers : Shown(q)' = Shown(q)
      BY <2>2 DEF index, Shown
    <3>2. FileOrTombstone'
      BY <3>1 DEF FileOrTombstone, IndexInv
    <3>3. Genuine(p, m) => AtLeast(Shown(p), op.version)
      BY <2>2, Decision DEF IndexInv
    <3> QED BY <3>1, <3>2, <3>3
  <2> QED BY <1>1, <2>1, <2>2 DEF Apply
<1>10. \A x \in Op : Merged(x)' => Merged(x)
  <2> SUFFICES ASSUME NEW x \in Op, Merged(x)' PROVE Merged(x)
    OBVIOUS
  <2>1. ASSUME NEW q \in Peers, Shown(q)' = x PROVE Merged(x)
    <3>1. x = Shown(q) \/ x = op
      BY <1>9, <2>1
    <3> QED BY <1>5, <3>1 DEF Merged
  <2> QED BY <1>3, <1>6, <2>1 DEF Merged
<1>11. \A x \in Op : Present(x)' => Present(x)
  BY <1>3, <1>10 DEF Present
<1>12. InThePast' /\ VersionsUnique' /\ AuthorsAhead'
  <2>1. clock \in Nat /\ clock' \in Nat /\ clock <= clock'
    BY <1>3, VersionsOrdered DEF TypeOK
  <2> QED BY <1>9, <1>10, <1>11, <2>1, NothingNew DEF IndexInv
<1>13. Outsiders'
  BY <1>3, <1>4, <1>9, OneMemberMoves DEF IndexInv
<1>14. TimersOwn'
  BY <1>3 DEF TimersOwn, IndexInv
<1>15. HostAhead'
  <2>1. \A x \in Op : AtLeast(Shown(Host), x.version) => AtLeast(Shown(Host)', x.version)
    BY <1>9, HostAssumption, OpFields
  <2>2. \A n \in net : n.op \in Op
    BY ChunkShapes DEF TypeOK
  <2> QED BY <1>3, <1>6, <2>1, <2>2 DEF HostAhead, IndexInv
<1>16. Downwards'
  <2> SUFFICES ASSUME NEW q \in joined
               PROVE  \/ Shown(Host)' = Absent
                      \/ AtLeast(Shown(q)', Shown(Host)'.version)
                      \/ Coming(q)'
                      \/ q \in missed
                      \/ Shown(Host)'.version.peer \notin {q, Host}
    BY <1>3 DEF Downwards
  <2>1. q \in Peers /\ q # Host
    BY DEF TypeOK
  <2>2. CASE Shown(Host)' # Shown(Host)
    <3>1. p = Host /\ Shown(Host)' = op /\ op.version.peer # Host
      BY <1>8, <1>9, <2>2, HostAssumption
    <3>2. CASE op.version.peer = q
      BY <1>2, <1>5, <1>9, <2>1, <3>1, <3>2
    <3> QED BY <2>1, <3>1, <3>2
  <2>3. CASE Shown(Host)' = Shown(Host)
    <3>1. Shown(Host) # Absent => Shown(Host) \in Op /\ Shown(Host).version \in Version
      BY ShownIsOp, OpFields, HostAssumption DEF IndexInv
    <3>2. AtLeast(Shown(q), Shown(Host).version) /\ Shown(Host) # Absent =>
             AtLeast(Shown(q)', Shown(Host)'.version)
      BY <1>9, <2>1, <2>3, <3>1
    <3>3. ASSUME Coming(q), Shown(Host) # Absent
          PROVE  AtLeast(Shown(q)', Shown(Host)'.version) \/ Coming(q)'
      <4>1. ASSUME NEW n \in net, n.to = q, n.op = Shown(Host), n.content = n.op.hash
            PROVE  AtLeast(Shown(q)', Shown(Host)'.version) \/ Coming(q)'
        <5>1. CASE n = m
          <6>1. q = p /\ op = Shown(Host) /\ m.content = m.op.hash
            BY <1>1, <1>3, <4>1, <5>1
          <6>2. CASE op.version.peer = p
            BY <1>2, <1>5, <1>9, <2>3, <6>1, <6>2
          <6>3. CASE op.version.peer # p
            BY <1>1, <1>9, <2>3, <6>1, <6>3 DEF Genuine
          <6> QED BY <6>2, <6>3
        <5>2. CASE n # m
          BY <1>3, <2>3, <4>1, <5>2 DEF Coming
        <5> QED BY <5>1, <5>2
      <4>2. CASE \/ \E t \in Timers : timers[Host][t].at = "send" /\ timers[Host][t].op = Shown(Host)
                 \/ q \in due
                 \/ Replays(q, Shown(Host)) /\ (replay.at = "send" => replay.chunk.content = replay.chunk.op.hash)
        BY <1>3, <1>6, <2>1, <2>3, <4>2 DEF Coming
      <4> QED BY <3>3, <4>1, <4>2 DEF Coming
    <3> QED BY <2>3, <3>2, <3>3 DEF Downwards, IndexInv
  <2> QED BY <2>2, <2>3
<1>17. Upwards'
  <2> SUFFICES ASSUME NEW q \in joined
               PROVE  \/ Shown(q)' = Absent
                      \/ AtLeast(Shown(Host)', Shown(q)'.version)
                      \/ \E t \in Timers : timers[q][t].at = "send" /\ timers[q][t].op = Shown(q)'
                      \/ \E n \in net' : n.to = Host /\ n.op = Shown(q)'
    BY <1>3 DEF Upwards
  <2>1. q \in Peers /\ q # Host
    BY DEF TypeOK
  <2>2. CASE Shown(q)' # Shown(q)
    <3>1. q = p /\ Shown(q)' = op /\ AtLeast(Shown(Host), op.version)
      BY <1>7, <1>9, <2>1, <2>2
    <3> QED BY <1>2, <1>9, <3>1, HostAssumption
  <2>3. CASE Shown(q)' = Shown(q)
    <3>1. Shown(q) # Absent => Shown(q) \in Op /\ Shown(q).version \in Version
      BY <2>1, ShownIsOp, OpFields DEF IndexInv
    <3>2. AtLeast(Shown(Host), Shown(q).version) /\ Shown(q) # Absent =>
             AtLeast(Shown(Host)', Shown(q)'.version)
      BY <1>9, <2>3, <3>1, HostAssumption
    <3>3. ASSUME NEW n \in net, n.to = Host, n.op = Shown(q)
          PROVE  \/ AtLeast(Shown(Host)', Shown(q)'.version)
                 \/ \E k \in net' : k.to = Host /\ k.op = Shown(q)'
      <4>1. CASE n = m
        <5>1. p = Host /\ op = Shown(q) /\ Genuine(p, m)
          BY <1>1, <1>3, <1>8, <3>3, <4>1 DEF Genuine
        <5> QED BY <1>9, <2>3, <5>1
      <4> QED BY <1>3, <2>3, <3>3, <4>1
    <3> QED BY <2>3, <3>2, <3>3 DEF Upwards, IndexInv
  <2> QED BY <2>2, <2>3
<1> QED BY <1>9, <1>12, <1>13, <1>14, <1>15, <1>16, <1>17 DEF IndexInv

\* A joiner shows nothing yet, and what the host shows is due to it.
LEMMA JoinKeeps ==
    ASSUME Typed, IndexInv, NEW p \in Peers, Join(p)
    PROVE  IndexInv'
<1> USE DEF Typed
<1>1. /\ UNCHANGED <<files, tombstones, net, replay, missed, clock, disk, applying, notified, pending, timers>>
      /\ p \in Peers \ Members /\ joined' = joined \cup {p} /\ due' = due \cup {p} /\ late' = late \cup {p}
  BY DEF Join, index, watcher, Members
<1>2. /\ \A q \in Peers : Shown(q)' = Shown(q)
      /\ Shown(Host)' = Shown(Host)
      /\ \A q \in Peers : \A x : Replays(q, x)' <=> Replays(q, x)
  BY <1>1 DEF Shown, Replays
<1>3. \A x \in Op : (Merged(x)' <=> Merged(x)) /\ (Present(x)' <=> Present(x))
  <2>1. \A x \in Op : Merged(x)' <=> Merged(x)
    BY <1>1, <1>2 DEF Merged
  <2> QED BY <1>1, <2>1 DEF Present
<1>4. InThePast' /\ VersionsUnique' /\ AuthorsAhead'
  <2>1. clock \in Nat /\ clock' \in Nat /\ clock <= clock'
    BY <1>1, VersionsOrdered DEF TypeOK
  <2>2. \A q \in Peers, v \in Version : AtLeast(Shown(q), v) => AtLeast(Shown(q)', v)
    BY <1>2
  <2> QED BY <1>3, <2>1, <2>2, NothingNew DEF IndexInv
<1>5. FileOrTombstone' /\ Outsiders' /\ TimersOwn'
  BY <1>1 DEF FileOrTombstone, Outsiders, TimersOwn, IndexInv, Members
<1>6. HostAhead'
  BY <1>1, <1>2 DEF HostAhead, IndexInv
<1>7. Downwards'
  <2>1. \A q \in joined : Coming(q) => Coming(q)'
    BY <1>1, <1>2 DEF Coming, TypeOK
  <2>2. Coming(p)'
    BY <1>1 DEF Coming
  <2> QED BY <1>1, <1>2, <2>1, <2>2 DEF Downwards, IndexInv, TypeOK
<1>8. Upwards'
  <2>1. Shown(p) = Absent
    BY <1>1 DEF Shown, Register, Outsiders, IndexInv
  <2> QED BY <1>1, <1>2, <2>1 DEF Upwards, IndexInv, TypeOK
<1> QED BY <1>4, <1>5, <1>6, <1>7, <1>8 DEF IndexInv

\* What Replay lists is what the host shows; what it reads is that, or the joiner is one it
\* has missed.
LEMMA TrackerKeeps ==
    ASSUME Typed, IndexInv, TrackStep
    PROVE  IndexInv'
<1> USE DEF Typed
<1>1. /\ UNCHANGED <<files, tombstones, joined, late, clock, disk, applying, notified, pending, timers>>
      /\ \A q \in Peers : Shown(q)' = Shown(q)
      /\ Shown(Host)' = Shown(Host)
      /\ missed \subseteq missed' /\ net \subseteq net' /\ due' \subseteq due
  <2>1. UNCHANGED <<files, tombstones, joined, late, clock, disk, applying, notified, pending, timers>>
    BY DEF TrackStep, ReadListed, SendListed, List, index, watcher, history
  <2>2. missed \subseteq missed' /\ net \subseteq net' /\ due' \subseteq due
    BY DEF TrackStep, ReadListed, SendListed, List, history
  <2> QED BY <2>1, <2>2 DEF Shown
<1>2. Shown(Host) # Absent => Shown(Host) \in Op /\ AtLeast(Shown(Host), Shown(Host).version)
  BY HostAssumption, ShownIsOp, AtLeastItself DEF IndexInv
<1>3. \A q \in Peers, x \in Op : Replays(q, x)' => Replays(q, x) \/ (x = Shown(Host) /\ q \in late)
  <2>1. ASSUME NEW q \in Peers, NEW x \in Op, Replays(q, x)', ReadListed
        PROVE  Replays(q, x)
    BY <2>1, HostAssumption, ContentsAssumption DEF ReadListed, Replays, ListedOp, Idle
  <2>2. ASSUME NEW q \in Peers, NEW x \in Op, Replays(q, x)', SendListed
        PROVE  Replays(q, x)
    BY <2>2 DEF SendListed, Replays
  <2>3. ASSUME NEW q \in Peers, NEW x \in Op, Replays(q, x)', NEW r \in due, List(r)
        PROVE  x = Shown(Host) /\ q \in late
    <3>1. /\ replay' = [at |-> "read", to |-> r, meta |-> files[Host]] /\ files[Host] # Absent
      BY <2>3 DEF List, Replays
    <3>2. q = r /\ x = ListedOp(files[Host])
      BY <2>3, <3>1 DEF Replays, ListedOp
    <3>3. x = Shown(Host)
      BY <3>1, <3>2 DEF ListedOp, Shown, Register
    <3> QED BY <3>2, <3>3 DEF TypeOK
  <2> QED BY <2>1, <2>2, <2>3 DEF TrackStep
<1>4. \A m \in net' : m \in net \/ (/\ replay # Idle /\ replay.at = "send" /\ m = replay.chunk
                                    /\ m.to \in Peers /\ Replays(m.to, m.op) /\ m.op \in Op)
  <2>1. CASE SendListed
    <3>1. replay.chunk \in Chunk
      BY <2>1, ReplayShapes DEF SendListed
    <3> QED BY <2>1, <3>1, ChunkShapes DEF SendListed, Replays
  <2>2. CASE ~SendListed
    BY <2>2 DEF TrackStep, ReadListed, List
  <2> QED BY <2>1, <2>2
<1>5. \A x \in Op : Merged(x)' => Merged(x)
  <2>1. ASSUME NEW x \in Op, NEW q \in Peers, Replays(q, x)'
        PROVE  Merged(x)
    BY <1>3, <2>1, HostAssumption DEF Merged
  <2>2. ASSUME NEW x \in Op, NEW m \in net', m.op = x
        PROVE  Merged(x)
    BY <1>4, <2>2 DEF Merged
  <2> QED BY <1>1, <2>1, <2>2 DEF Merged
<1>6. InThePast' /\ VersionsUnique' /\ AuthorsAhead'
  <2>1. clock \in Nat /\ clock' \in Nat /\ clock <= clock'
    BY <1>1, VersionsOrdered DEF TypeOK
  <2>2. \A q \in Peers, v \in Version : AtLeast(Shown(q), v) => AtLeast(Shown(q)', v)
    BY <1>1
  <2>3. \A x \in Op : Present(x)' => Present(x)
    BY <1>1, <1>5 DEF Present
  <2> QED BY <1>5, <2>1, <2>2, <2>3, NothingNew DEF IndexInv
<1>7. FileOrTombstone' /\ Outsiders' /\ TimersOwn'
  BY <1>1 DEF FileOrTombstone, Outsiders, TimersOwn, IndexInv, Members
<1>8. HostAhead'
  <2>1. \A q \in Peers, x \in Op : Replays(q, x)' => q \in late /\ AtLeast(Shown(Host), x.version)
    BY <1>2, <1>3, OpIsNotAbsent DEF HostAhead, IndexInv
  <2>2. \A m \in net' : IF m.to = Host THEN m.op.version.peer # Host /\ m.content = m.op.hash
                        ELSE m.to \in joined /\ AtLeast(Shown(Host), m.op.version)
    BY <1>4 DEF HostAhead, IndexInv, TypeOK
  <2> QED BY <1>1, <2>1, <2>2 DEF HostAhead
<1>9. Downwards'
  <2>1. \A q \in joined : Coming(q) /\ Shown(Host) # Absent => Coming(q)' \/ q \in missed'
    <3> SUFFICES ASSUME NEW q \in joined, Coming(q), Shown(Host) # Absent
                 PROVE  Coming(q)' \/ q \in missed'
      OBVIOUS
    <3>1. CASE \/ \E t \in Timers : timers[Host][t].at = "send" /\ timers[Host][t].op = Shown(Host)
               \/ \E m \in net : m.to = q /\ m.op = Shown(Host) /\ m.content = m.op.hash
      BY <1>1, <3>1 DEF Coming
    <3>2. CASE q \in due
      <4>1. ASSUME NEW r \in due, List(r)
            PROVE  Coming(q)' \/ q \in missed'
        <5>1. CASE q # r
          BY <3>2, <4>1, <5>1 DEF List, Coming
        <5>2. CASE q = r /\ files[Host] = Absent
          <6>1. tombstones[Host] # Absent
            BY <5>2 DEF Shown, Register
          <6> QED BY <4>1, <5>2, <6>1 DEF List
        <5>3. CASE q = r /\ files[Host] # Absent
          <6>1. replay' = [at |-> "read", to |-> q, meta |-> files[Host]]
            BY <4>1, <5>3 DEF List
          <6>2. ListedOp(files[Host]) = Shown(Host)
            BY <5>3 DEF ListedOp, Shown, Register
          <6>3. Replays(q, Shown(Host))'
            BY <1>1, <6>1, <6>2 DEF Replays, ListedOp, Idle
          <6> QED BY <6>1, <6>3 DEF Coming
        <5> QED BY <5>1, <5>2, <5>3
      <4>2. CASE ReadListed \/ SendListed
        BY <3>2, <4>2 DEF ReadListed, SendListed, Coming
      <4> QED BY <4>1, <4>2 DEF TrackStep
    <3>3. CASE Replays(q, Shown(Host)) /\ (replay.at = "send" => replay.chunk.content = replay.chunk.op.hash)
      <4>1. replay # Idle
        BY <3>3 DEF Replays
      <4>2. CASE ReadListed
        <5>1. replay.to = q /\ ListedOp(replay.meta) = Shown(Host) /\ replay.meta.hash \in Hashes
          BY <3>3, <4>1, <4>2, ReplayShapes DEF ReadListed, Replays, Meta
        <5>2. CASE disk[Host] # replay.meta.hash
          BY <4>2, <5>1, <5>2 DEF ReadListed
        <5>3. CASE disk[Host] = replay.meta.hash
          <6>1. replay' = [at |-> "send", chunk |-> [to |-> q, content |-> disk[Host],
                                                     op |-> ListedOp(replay.meta)]]
            BY <4>2, <5>1, <5>3, ContentsAssumption DEF ReadListed, ListedOp
          <6>2. /\ replay' # Idle /\ replay'.at = "send"
                /\ replay'.chunk.to = q /\ replay'.chunk.op = Shown(Host)
                /\ replay'.chunk.content = replay'.chunk.op.hash
            BY <5>1, <5>3, <6>1 DEF ListedOp, Idle
          <6> QED BY <1>1, <6>2 DEF Coming, Replays
        <5> QED BY <5>2, <5>3
      <4>3. CASE SendListed
        BY <1>1, <3>3, <4>3 DEF SendListed, Replays, Coming
      <4>4. ~\E r \in due : List(r)
        BY <4>1 DEF List
      <4> QED BY <4>2, <4>3, <4>4 DEF TrackStep
    <3> QED BY <3>1, <3>2, <3>3 DEF Coming
  <2>2. joined \subseteq Peers
    BY DEF TypeOK
  <2> QED BY <1>1, <2>1, <2>2 DEF Downwards, IndexInv
<1>10. Upwards'
  <2>1. joined \subseteq Peers
    BY DEF TypeOK
  <2> QED BY <1>1, <2>1 DEF Upwards, IndexInv
<1> QED BY <1>6, <1>7, <1>8, <1>9, <1>10 DEF IndexInv

LEMMA IndexInit == Init => IndexInv
<1> SUFFICES ASSUME Init PROVE IndexInv
  OBVIOUS
<1>1. \A p \in Peers : /\ Shown(p) = Absent /\ files[p] = Absent /\ tombstones[p] = Absent
                       /\ \A t \in Timers : timers[p][t] = Idle
  BY DEF Init, Shown, Register
<1>2. \A op \in Op : ~Present(op)
  BY <1>1, OpIsNotAbsent DEF Present, Merged, Replays, Init, Idle
<1>3. \A op \in Op : ~Merged(op)
  BY <1>2 DEF Present
<1>4. InThePast /\ VersionsUnique /\ AuthorsAhead
  BY <1>2, <1>3 DEF InThePast, VersionsUnique, AuthorsAhead
<1>5. FileOrTombstone /\ Outsiders /\ TimersOwn
  BY <1>1 DEF FileOrTombstone, Outsiders, TimersOwn, Init, Idle
<1>6. HostAhead /\ Downwards /\ Upwards
  BY <1>1, HostAssumption DEF HostAhead, Downwards, Upwards, Init, Replays
<1> QED BY <1>4, <1>5, <1>6 DEF IndexInv

----
(* The theorems.                                                           *)

LEMMA TypeStep == Typed /\ [Next]_vars => Typed'
<1>1. ASSUME Typed, Next PROVE Typed'
  <2>1. CASE TrackStep
    BY <1>1, <2>1, TypeTracker
  <2>2. ASSUME NEW p \in Peers,
               \/ \E content \in Contents : Edit(p, content)
               \/ Join(p) \/ Expire(p) \/ EngineStep(p) \/ WatchStep(p)
               \/ \E t \in Timers : TimerStep(p, t)
        PROVE  Typed'
    BY <1>1, <2>2, TypeUser, TypeWatcher, TypeEngine, TypeTimer
  <2> QED BY <1>1, <2>1, <2>2 DEF Next
<1>2. ASSUME Typed, UNCHANGED vars PROVE Typed'
  BY <1>2 DEF vars, Typed, TypeOK, history, tracker, index, watcher
<1> QED BY <1>1, <1>2

LEMMA IndexStep == Typed /\ IndexInv /\ [Next]_vars => IndexInv'
<1>1. ASSUME Typed, IndexInv, Next PROVE IndexInv'
  <2>1. CASE TrackStep
    BY <1>1, <2>1, TrackerKeeps
  <2>2. ASSUME NEW p \in Peers,
               \/ \E content \in Contents : Edit(p, content)
               \/ Join(p) \/ Expire(p) \/ EngineStep(p) \/ WatchStep(p)
               \/ \E t \in Timers : TimerStep(p, t)
        PROVE  IndexInv'
    <3>1. CASE \E m \in net : Apply(p, m)
      BY <1>1, <3>1, ApplyKeeps
    <3>2. CASE \E t \in Timers : Read(p, t) \/ Merge(p, t) \/ Send(p, t)
      BY <1>1, <3>2, ReadKeeps, MergeKeeps, SendKeeps
    <3>3. CASE Join(p)
      BY <1>1, <3>3, JoinKeeps
    <3> QED BY <1>1, <2>2, <3>1, <3>2, <3>3, StepsAside DEF EngineStep, TimerStep
  <2> QED BY <1>1, <2>1, <2>2 DEF Next
<1>2. ASSUME Typed, IndexInv, UNCHANGED vars PROVE IndexInv'
  <2>1. Aside
    BY <1>2 DEF vars, Aside, history, tracker, index
  <2>2. Outsiders'
    BY <1>2 DEF vars, Outsiders, IndexInv, Members, history, tracker, index, watcher
  <2> QED BY <1>2, <2>1, <2>2, AsideKeeps
<1> QED BY <1>1, <1>2

\* Every reachable state is of the expected types (watchDir, processFsEvent,
\* applyInboundFileChunk and Replay in sync.go).
THEOREM FileSyncTypeCorrect == Spec => []TypeOK
<1>1. Typed => TypeOK
  BY DEF Typed
<1> QED BY TypeInit, TypeStep, <1>1, PTL DEF Spec

\* Two registers of one version are the same, and so are the files they stand for.
LEMMA SameVersion ==
    ASSUME TypeOK, IndexInv, NEW p \in Peers, NEW q \in Peers,
           AtLeast(Shown(p), Shown(q).version), AtLeast(Shown(q), Shown(p).version)
    PROVE  files[p] = files[q]
<1>1. Shown(p) \in Op /\ Shown(q) \in Op
  BY ShownIsOp DEF AtLeast, IndexInv
<1>2. Shown(p).version = Shown(q).version
  BY <1>1, OpFields, LaterThanOrder DEF AtLeast
<1>3. Present(Shown(p)) /\ Present(Shown(q))
  BY DEF Present, Merged
<1>4. Shown(p) = Shown(q)
  BY <1>1, <1>2, <1>3 DEF VersionsUnique, IndexInv
<1>5. ASSUME NEW r \in Peers
      PROVE  files[r] = IF Shown(r) = Absent \/ Shown(r).deleted THEN Absent ELSE MetaOf(Shown(r))
  <2>1. files[r] \in Meta \cup {Absent} /\ tombstones[r] \in Version \cup {Absent}
    BY DEF TypeOK
  <2>2. CASE files[r] = Absent
    BY <2>2 DEF Shown, Register
  <2>3. CASE files[r] # Absent
    <3>1. Shown(r) = [version |-> VersionOf(files[r]), deleted |-> FALSE, hash |-> files[r].hash]
      BY <2>3 DEF Shown, Register
    <3>2. MetaOf(Shown(r)) = [time |-> files[r].time, peer |-> files[r].peer, hash |-> files[r].hash]
      BY <3>1 DEF MetaOf, VersionOf
    <3>3. files[r] = MetaOf(Shown(r))
      BY <2>1, <2>3, <3>2 DEF Meta
    <3>4. Shown(r) # Absent
      BY <2>1, <2>3, ShownIsOp DEF IndexInv
    <3> QED BY <3>1, <3>3, <3>4
  <2> QED BY <2>2, <2>3
<1> QED BY <1>4, <1>5

\* Once nothing is under way every index has the file the host has, or one that is left
\* behind: the engines, the watchers, their timers and Replay, in any order, with any disk
\* operation failing, for any number of peers (sync.go 104-154, 213-272, 329-398).
THEOREM FileSyncIndexesAgree == Spec => []IndexesAgree
<1>1. TypeOK /\ IndexInv => IndexesAgree
  <2> SUFFICES ASSUME TypeOK, IndexInv, Quiet, NEW p \in joined
               PROVE  files[p] = files[Host] \/ LeftBehind(p)
    BY DEF IndexesAgree
  <2>1. p \in Peers /\ p # Host /\ Host \in Peers
    BY HostAssumption DEF TypeOK
  <2>2. Shown(p) \in Op \cup {Absent} /\ Shown(Host) \in Op \cup {Absent}
    BY <2>1, ShownIsOp DEF IndexInv
  <2>3. ~Coming(p)
    BY HostAssumption DEF Quiet, Coming, Replays, Idle
  <2>4. Shown(p) = Absent \/ AtLeast(Shown(Host), Shown(p).version)
    <3>1. net = {} /\ \A t \in Timers : timers[p][t].at # "send"
      BY <2>1 DEF Quiet, Idle
    <3> QED BY <3>1 DEF Upwards, IndexInv
  <2>5. CASE Shown(Host) = Absent
    <3>1. Shown(p) = Absent
      BY <2>4, <2>5 DEF AtLeast
    <3> QED BY <2>1, <2>5, <3>1, ShownIsOp DEF IndexInv
  <2>6. CASE AtLeast(Shown(p), Shown(Host).version)
    BY <2>1, <2>4, <2>6, SameVersion DEF AtLeast
  <2>7. CASE /\ Shown(Host) # Absent /\ ~AtLeast(Shown(p), Shown(Host).version)
             /\ p \in missed \/ Shown(Host).version.peer \notin {p, Host}
    <3>1. Shown(p) # Absent => LaterThan(Shown(Host).version, Shown(p).version)
      BY <2>7 DEF AtLeast
    <3> QED BY <2>7, <3>1 DEF LeftBehind, Outranks, Shown
  <2> QED BY <2>3, <2>5, <2>6, <2>7 DEF Downwards, IndexInv
<1>2. Typed => TypeOK
  BY DEF Typed
<1> QED BY TypeInit, TypeStep, IndexInit, IndexStep, <1>1, <1>2, PTL DEF Spec

----
(* A calm pace.  One edit at a time is on its way: it has been saved and   *)
(* no timer has it, one timer has it, or it spreads; and what spreads is   *)
(* never taken for an edit.                                                *)

\* The readings of the clock, one for each change published.
Readings == {t \in Times : t < clock}

Resting(p) == ~notified[p] /\ ~pending[p] /\ ~mark[p] /\ applying[p] = Idle

TimersIdle == \A p \in Peers, t \in Timers : timers[p][t] = Idle

NothingSpreads ==
    /\ net = {} /\ due = {} /\ replay = Idle
    /\ \A p \in Peers : ~mark[p] /\ applying[p] = Idle

Newer(op, reg) == reg # Absent => LaterThan(op.version, reg.version)

Saved ==
    /\ NothingSpreads /\ TimersIdle /\ Cardinality(Readings) < edits
    /\ \E p \in Members :
          /\ disk[p] = latest /\ (notified[p] \/ pending[p])
          /\ \A q \in Peers \ {p} : ~notified[q] /\ ~pending[q]

\* Where the timer of p is that has the edit of p.
Has(p, timer) ==
    \/ timer.at = "read" /\ Cardinality(Readings) < edits
    \/ /\ timer.at = "merge" /\ timer.op.hash = latest
       /\ \A q \in Peers : Newer(timer.op, Shown(q))
    \/ /\ timer.at = "send" /\ timer.op.hash = latest
       /\ Shown(p) = timer.op
       /\ \A q \in Peers \ {p} : Newer(timer.op, Shown(q))

Taken ==
    /\ NothingSpreads
    /\ \A q \in Peers : ~notified[q] /\ ~pending[q]
    /\ \E p \in Members, t \in Timers :
          /\ disk[p] = latest /\ Has(p, timers[p][t])
          /\ \A q \in Peers, u \in Timers : q # p \/ u # t => timers[q][u] = Idle

\* What the engine of p does is marked until it has been noticed.
Covered(p) ==
    /\ notified[p] \/ pending[p] => mark[p]
    /\ applying[p].at \in {"mark", "mirror"} => ~notified[p] /\ ~pending[p]
    /\ applying[p].at \in {"mirror", "fill"} => mark[p]
    /\ applying[p] # Idle => applying[p].op.hash = Indexed(p)

ReplaysTo(q) ==
    /\ replay # Idle
    /\ \/ replay.at = "read" /\ replay.to = q
       \/ replay.at = "send" /\ replay.chunk.to = q

\* One message at most is to come to a peer, and it comes to a peer at rest.
OneToCome ==
    /\ \A q \in Peers : q \in due \/ ReplaysTo(q) \/ (\E m \in net : m.to = q) => Resting(q)
    /\ \A m, n \in net : m.to = n.to => m = n
    /\ \A m \in net : m.to \notin due /\ ~ReplaysTo(m.to)
    /\ \A q \in due : ~ReplaysTo(q)

\* The host has the last edit, or will.
HostCurrent ==
    /\ \A m \in net : m.to = Host => m.op.hash = latest
    /\ Indexed(Host) = latest \/ \E m \in net : m.to = Host /\ Newer(m.op, Shown(Host))

\* The disk of p has what its index has, or will, or p is left behind, or will be.
DiskCurrent(p) ==
    \/ applying[p] # Idle \/ disk[p] = Indexed(p) \/ p \in unwritten
    \/ \E m \in net : m.to = p /\ Genuine(p, m) /\ Newer(m.op, Shown(p))
    \/ LeftBehind(p)
    \/ \E m \in net : /\ m.to = Host /\ m.op.version.peer \notin {p, Host}
                      /\ Newer(m.op, Shown(p)) /\ Newer(m.op, Shown(Host))

Spreads ==
    /\ TimersIdle /\ OneToCome
    /\ \A p \in Peers : Covered(p)
    /\ ~unread => HostCurrent /\ \A p \in Members : DiskCurrent(p)

CalmInv == Calm => Cardinality(Readings) <= edits /\ (Saved \/ Taken \/ Spreads)

\* A step of a peer that something is under way at: its engine, its watcher and its mark.
LEMMA PeerMoves ==
    ASSUME Spreads, NEW p \in Peers, ~Resting(p), TypeOK,
           UNCHANGED <<files, tombstones, net, due, replay, joined, missed, latest, unread, timers>>,
           \A q \in Peers \ {p} :
              /\ notified'[q] = notified[q] /\ pending'[q] = pending[q] /\ mark'[q] = mark[q]
              /\ applying'[q] = applying[q] /\ disk'[q] = disk[q]
              /\ q \in unwritten' <=> q \in unwritten,
           Covered(p)',
           applying[p] # Idle \/ disk[p] = Indexed(p) \/ p \in unwritten =>
              applying'[p] # Idle \/ disk'[p] = Indexed(p) \/ p \in unwritten'
    PROVE  Spreads'
<1>1. \A q \in Peers : Indexed(q)' = Indexed(q) /\ Shown(q)' = Shown(q)
  BY DEF Indexed, Shown
<1>2. TimersIdle'
  BY DEF TimersIdle, Spreads
<1>3. OneToCome'
  <2>1. /\ ~(p \in due \/ ReplaysTo(p) \/ \E m \in net : m.to = p)
        /\ \A q \in Peers : ReplaysTo(q)' <=> ReplaysTo(q)
    BY DEF OneToCome, Spreads, ReplaysTo
  <2>2. \A q \in Peers \ {p} : Resting(q) => Resting(q)'
    BY DEF Resting
  <2>3. \A m \in net : m.to \in Peers
    BY ChunkShapes DEF TypeOK
  <2>4. due \subseteq Peers
    BY DEF TypeOK
  <2>5. \A q \in Peers : q \in due' \/ ReplaysTo(q)' \/ (\E m \in net' : m.to = q) => Resting(q)'
    BY <2>1, <2>2 DEF OneToCome, Spreads
  <2>6. /\ \A m, n \in net' : m.to = n.to => m = n
        /\ \A m \in net' : m.to \notin due' /\ ~ReplaysTo(m.to)'
        /\ \A q \in due' : ~ReplaysTo(q)'
    BY <2>1, <2>3, <2>4 DEF OneToCome, Spreads
  <2> QED BY <2>5, <2>6 DEF OneToCome
<1>4. \A q \in Peers : Covered(q)'
  <2>1. \A q \in Peers \ {p} : Covered(q)'
    BY <1>1 DEF Covered, Spreads
  <2> QED BY <2>1
<1>5. ASSUME ~unread
      PROVE  HostCurrent' /\ \A q \in Members' : DiskCurrent(q)'
  <2>1. HostCurrent'
    BY <1>1, <1>5, HostAssumption DEF HostCurrent, Spreads
  <2>2. ASSUME NEW q \in Members
        PROVE  DiskCurrent(q)'
    <3>1. q \in Peers /\ Host \in Peers
      BY HostAssumption DEF Members, TypeOK
    <3>2. DiskCurrent(q)
      BY <1>5 DEF Spreads
    <3>3. CASE applying[q] # Idle \/ disk[q] = Indexed(q) \/ q \in unwritten
      <4>1. applying'[q] # Idle \/ disk'[q] = Indexed(q) \/ q \in unwritten'
        BY <3>1, <3>3
      <4> QED BY <1>1, <3>1, <4>1 DEF DiskCurrent
    <3>4. CASE \E m \in net : m.to = q /\ Genuine(q, m) /\ Newer(m.op, Shown(q))
      BY <1>1, <3>1, <3>4 DEF DiskCurrent, Genuine, Newer
    <3>5. CASE LeftBehind(q)
      BY <3>5 DEF DiskCurrent, LeftBehind
    <3>6. CASE \E m \in net : /\ m.to = Host /\ m.op.version.peer \notin {q, Host}
                              /\ Newer(m.op, Shown(q)) /\ Newer(m.op, Shown(Host))
      BY <1>1, <3>1, <3>6 DEF DiskCurrent, Newer
    <3> QED BY <3>2, <3>3, <3>4, <3>5, <3>6 DEF DiskCurrent
  <2>3. Members' = Members
    BY DEF Members
  <2> QED BY <2>1, <2>2, <2>3
<1> QED BY <1>2, <1>3, <1>4, <1>5 DEF Spreads

\* The clock is read once for each change that is published.
LEMMA ReadingsCount ==
    ASSUME TypeOK
    PROVE  /\ IsFiniteSet(Readings) /\ Cardinality(Readings) \in Nat
           /\ clock' = clock => Readings' = Readings
           /\ clock' = clock + 1 => Cardinality(Readings') = Cardinality(Readings) + 1
<1>1. clock \in Nat /\ clock \in Times /\ Times \subseteq Nat
  BY VersionsOrdered DEF TypeOK
<1>2. IsFiniteSet(Readings)
  <2>1. IsFiniteSet(0 .. clock)
    BY <1>1, FS_Interval
  <2>2. Readings \subseteq 0 .. clock
    <3> SUFFICES ASSUME NEW t \in Times, t < clock PROVE t \in 0 .. clock
      BY DEF Readings
    <3>1. t \in Nat
      BY <1>1
    <3> QED BY <1>1, <3>1
  <2> QED BY <2>1, <2>2, FS_Subset
<1>3. clock' = clock => Readings' = Readings
  BY DEF Readings
<1>4. ASSUME clock' = clock + 1
      PROVE  Cardinality(Readings') = Cardinality(Readings) + 1
  <2>1. clock \notin Readings /\ Readings' = Readings \cup {clock}
    <3>1. \A t \in Times : t < clock' <=> t < clock \/ t = clock
      <4> SUFFICES ASSUME NEW t \in Times PROVE t < clock' <=> t < clock \/ t = clock
        OBVIOUS
      <4>1. t \in Nat
        BY <1>1
      <4> QED BY <1>1, <1>4, <4>1
    <3>2. ~(clock < clock)
      BY <1>1
    <3> QED BY <1>1, <3>1, <3>2 DEF Readings
  <2> QED BY <1>2, <2>1, FS_AddElement
<1> QED BY <1>2, <1>3, <1>4, FS_CardinalityType

\* Users wait until the last edit has been dealt with.
LEMMA CalmEdit ==
    ASSUME TypeOK, Calm, CalmInv, NEW p \in Peers, NEW content \in Contents, Edit(p, content)
    PROVE  CalmInv'
<1>1. Cardinality(Readings) \in Nat /\ Readings' = Readings /\ Cardinality(Readings) <= edits
  BY ReadingsCount DEF Edit, CalmInv
<1>2. edits \in Nat /\ edits' = edits + 1
  BY BoundsAssumption DEF Edit, TypeOK
<1>3. Cardinality(Readings') <= edits' /\ Cardinality(Readings') < edits'
  BY <1>1, <1>2
<1>4. Quiet /\ \A q \in Peers : ~mark[q]
  BY DEF Edit, MoreMayHappen
<1>5. UNCHANGED <<net, due, replay, applying, mark, timers, pending, joined>>
  BY DEF Edit, tracker
<1>6. NothingSpreads' /\ TimersIdle'
  BY <1>4, <1>5 DEF Quiet, NothingSpreads, TimersIdle
<1>7. /\ p \in Members' /\ disk'[p] = latest' /\ notified'[p]
      /\ \A q \in Peers \ {p} : ~notified'[q] /\ ~pending'[q]
  BY <1>4, <1>5 DEF Edit, Members, Quiet, TypeOK
<1>8. Saved'
  BY <1>3, <1>6, <1>7 DEF Saved
<1> QED BY <1>3, <1>8 DEF CalmInv

LEMMA CalmWatcher ==
    ASSUME TypeOK, Calm, CalmInv, NEW p \in Peers, Expire(p) \/ WatchStep(p)
    PROVE  CalmInv'
<1>1. Cardinality(Readings) <= edits /\ (Saved \/ Taken \/ Spreads) /\ Prompt
  BY DEF CalmInv, Calm, Prompt
<1>2. UNCHANGED <<edits, latest, unread, unwritten, missed, joined, due, replay, clock, disk, files,
                  tombstones, applying, net>>
  BY DEF Expire, WatchStep, Watch, Fire, history, tracker, index
<1>3. Readings' = Readings /\ Members' = Members
  BY <1>2 DEF Readings, Members
<1>4. /\ \A q \in Peers \ {p} : /\ notified'[q] = notified[q] /\ pending'[q] = pending[q]
                                /\ mark'[q] = mark[q]
  BY DEF Expire, WatchStep, Watch, Fire, watcher, TypeOK
<1>5. CASE Watch(p)
  <2>1. /\ notified[p] /\ ~notified'[p] /\ pending'[p] /\ UNCHANGED <<mark, timers>>
    BY <1>5 DEF Watch, TypeOK
  <2>2. CASE Saved
    <3>1. PICK r \in Members : /\ disk[r] = latest
                               /\ \A q \in Peers \ {r} : ~notified[q] /\ ~pending[q]
      BY <2>2 DEF Saved
    <3>2. r = p
      BY <2>1, <3>1
    <3>3. NothingSpreads' /\ TimersIdle' /\ Cardinality(Readings') < edits'
      BY <1>2, <1>3, <2>1, <2>2 DEF Saved, NothingSpreads, TimersIdle
    <3>4. Saved'
      BY <1>2, <1>3, <1>4, <2>1, <3>1, <3>2, <3>3 DEF Saved
    <3> QED BY <1>1, <1>2, <1>3, <3>4 DEF CalmInv
  <2>3. CASE Taken
    BY <2>1, <2>3 DEF Taken
  <2>4. CASE Spreads
    <3>1. ~Resting(p) /\ mark[p] /\ Indexed(p)' = Indexed(p)
      BY <1>2, <2>1, <2>4 DEF Resting, Covered, Spreads, Indexed
    <3>2. Covered(p)'
      BY <1>2, <2>1, <2>4, <3>1 DEF Covered, Spreads
    <3>3. Spreads'
      BY <1>2, <1>4, <2>1, <2>4, <3>1, <3>2, PeerMoves
    <3> QED BY <1>1, <1>2, <1>3, <3>3 DEF CalmInv
  <2> QED BY <1>1, <2>2, <2>3, <2>4
<1>6. CASE Expire(p)
  <2>1. /\ mark[p] /\ ~mark'[p] /\ applying[p] = Idle /\ ~notified[p] /\ ~pending[p]
        /\ UNCHANGED <<notified, pending, timers>>
    BY <1>1, <1>6 DEF Expire, TypeOK, watcher
  <2>2. Spreads
    BY <1>1, <2>1 DEF Saved, Taken, NothingSpreads
  <2>3. ~Resting(p) /\ Covered(p)' /\ Indexed(p)' = Indexed(p)
    BY <1>2, <2>1 DEF Resting, Covered, Indexed, Idle
  <2>4. Spreads'
    BY <1>2, <1>4, <2>1, <2>2, <2>3, PeerMoves
  <2> QED BY <1>1, <1>2, <1>3, <2>4 DEF CalmInv
<1>7. ASSUME NEW t \in Timers, Fire(p, t)
      PROVE  CalmInv'
  <2>1. /\ pending[p] /\ ~pending'[p] /\ applying[p].at # "fill" /\ ~notified[p] /\ ~mark'[p]
        /\ timers[p][t] = Idle /\ UNCHANGED notified
        /\ timers' = IF mark[p] THEN timers ELSE [timers EXCEPT ![p][t] = [at |-> "read"]]
    BY <1>1, <1>7 DEF Fire, TypeOK, Marked
  <2>2. CASE Saved
    <3>1. PICK r \in Members : /\ disk[r] = latest
                               /\ \A q \in Peers \ {r} : ~notified[q] /\ ~pending[q]
      BY <2>2 DEF Saved
    <3>2. r = p /\ ~mark[p]
      BY <2>1, <2>2, <3>1 DEF Saved, NothingSpreads
    <3>3. /\ timers'[p][t] = [at |-> "read"]
          /\ \A q \in Peers, u \in Timers : q # p \/ u # t => timers'[q][u] = Idle
      BY <2>1, <2>2, <3>2 DEF Saved, TimersIdle, TypeOK
    <3>4. NothingSpreads'
      <4>1. \A q \in Peers : ~mark'[q] /\ applying'[q] = Idle
        BY <1>2, <1>4, <2>1, <2>2 DEF Saved, NothingSpreads
      <4> QED BY <1>2, <2>2, <4>1 DEF Saved, NothingSpreads
    <3>5. \A q \in Peers : ~notified'[q] /\ ~pending'[q]
      BY <1>4, <2>1, <3>1, <3>2
    <3>6. Has(p, timers[p][t])'
      BY <1>2, <1>3, <2>2, <3>3 DEF Has, Saved
    <3>7. Taken'
      BY <1>2, <1>3, <3>1, <3>2, <3>3, <3>4, <3>5, <3>6 DEF Taken
    <3> QED BY <1>1, <1>2, <1>3, <3>7 DEF CalmInv
  <2>3. CASE Taken
    BY <2>1, <2>3 DEF Taken
  <2>4. CASE Spreads
    <3>1. /\ ~Resting(p) /\ mark[p] /\ timers' = timers /\ Indexed(p)' = Indexed(p)
      BY <1>2, <2>1, <2>4 DEF Resting, Covered, Spreads, Indexed
    <3>2. Covered(p)'
      BY <1>2, <2>1, <2>4, <3>1 DEF Covered, Spreads
    <3>3. Spreads'
      BY <1>2, <1>4, <2>1, <2>4, <3>1, <3>2, PeerMoves
    <3> QED BY <1>1, <1>2, <1>3, <3>3 DEF CalmInv
  <2> QED BY <1>1, <2>2, <2>3, <2>4
<1> QED BY <1>5, <1>6, <1>7 DEF WatchStep

\* What an engine does to its disk spreads and is covered.
LEMMA CalmEngine ==
    ASSUME TypeOK, Calm, CalmInv, NEW p \in Peers,
           Mark(p) \/ Mirror(p) \/ Fill(p) \/ MirrorFails(p)
    PROVE  CalmInv'
<1>1. Cardinality(Readings) <= edits /\ (Saved \/ Taken \/ Spreads)
  BY DEF CalmInv, Calm
<1>2. UNCHANGED <<edits, latest, unread, missed, joined, due, replay, clock, files, tombstones, net, timers>>
  BY DEF Mark, Mirror, Fill, MirrorFails, history, tracker, index
<1>3. Readings' = Readings /\ Indexed(p)' = Indexed(p)
  BY <1>2 DEF Readings, Indexed
<1>4. /\ applying[p] \in Applier /\ applying[p] # Idle /\ applying[p].op \in Op
      /\ applying[p].at \in {"mark", "mirror", "fill"}
      /\ applying[p] = [at |-> applying[p].at, op |-> applying[p].op]
  <2>1. applying[p] \in Applier /\ applying[p].at \in {"mark", "mirror", "fill"}
    BY DEF Mark, Mirror, Fill, MirrorFails, TypeOK, Applier
  <2> QED BY <2>1, ApplierShapes
<1>5. Spreads /\ ~Resting(p) /\ Covered(p)
  BY <1>1, <1>4 DEF Saved, Taken, NothingSpreads, Resting, Spreads
<1>6. /\ applying[p].op.hash = Indexed(p)
      /\ applying[p].at \in {"mark", "mirror"} => ~notified[p] /\ ~pending[p]
      /\ applying[p].at \in {"mirror", "fill"} => mark[p]
  BY <1>4, <1>5 DEF Covered
<1>7. \A q \in Peers \ {p} :
         /\ notified'[q] = notified[q] /\ pending'[q] = pending[q] /\ mark'[q] = mark[q]
         /\ applying'[q] = applying[q] /\ disk'[q] = disk[q]
         /\ q \in unwritten' <=> q \in unwritten
  <2>1. CASE Mark(p)
    BY <2>1 DEF Mark, TypeOK, watcher, history
  <2>2. CASE Mirror(p)
    BY <2>2 DEF Mirror, TypeOK
  <2>3. CASE Fill(p)
    BY <2>3 DEF Fill, TypeOK
  <2>4. CASE MirrorFails(p)
    BY <2>4 DEF MirrorFails, TypeOK, watcher
  <2> QED BY <2>1, <2>2, <2>3, <2>4
<1>8. Covered(p)' /\ (applying'[p] # Idle \/ disk'[p] = Indexed(p) \/ p \in unwritten')
  <2>1. CASE Mark(p)
    <3>1. applying' = [applying EXCEPT ![p] = [@ EXCEPT !.at = "mirror"]]
      BY <2>1 DEF Mark
    <3>2. applying'[p] = [at |-> "mirror", op |-> applying[p].op]
      BY <1>4, <3>1 DEF TypeOK
    <3>3. mark'[p] /\ UNCHANGED <<notified, pending>> /\ applying[p].at = "mark"
      BY <2>1 DEF Mark, TypeOK, watcher
    <3> QED BY <1>3, <1>6, <3>2, <3>3 DEF Covered, Idle
  <2>2. CASE Mirror(p) /\ applying[p].op.deleted
    <3>1. /\ disk'[p] = Absent /\ applying'[p] = Idle /\ mark'[p] = mark[p] /\ applying[p].at = "mirror"
      BY <2>2 DEF Mirror, TypeOK
    <3>2. applying[p].op.hash = Absent
      BY <1>4, <2>2, OpFields
    <3> QED BY <1>6, <3>1, <3>2 DEF Covered, Idle
  <2>3. CASE Mirror(p) /\ ~applying[p].op.deleted
    <3>1. applying' = [applying EXCEPT ![p] = [applying[p] EXCEPT !.at = "fill"]]
      BY <2>3 DEF Mirror
    <3>2. applying'[p] = [at |-> "fill", op |-> applying[p].op]
      BY <1>4, <3>1 DEF TypeOK
    <3>3. mark'[p] = mark[p] /\ applying[p].at = "mirror"
      BY <2>3 DEF Mirror
    <3> QED BY <1>3, <1>6, <3>2, <3>3 DEF Covered, Idle
  <2>4. CASE Fill(p)
    <3>1. /\ disk'[p] = applying[p].op.hash /\ applying'[p] = Idle /\ mark'[p] = mark[p]
          /\ applying[p].at = "fill"
      BY <2>4 DEF Fill, TypeOK
    <3> QED BY <1>6, <3>1 DEF Covered, Idle
  <2>5. CASE MirrorFails(p)
    <3>1. p \in unwritten' /\ applying'[p] = Idle /\ UNCHANGED <<notified, pending, mark>>
          /\ applying[p].at \in {"mirror", "fill"}
      BY <2>5 DEF MirrorFails, TypeOK, watcher
    <3> QED BY <1>6, <3>1 DEF Covered, Idle
  <2> QED BY <2>1, <2>2, <2>3, <2>4, <2>5
<1>9. Spreads'
  BY <1>2, <1>3, <1>5, <1>7, <1>8, PeerMoves
<1> QED BY <1>1, <1>2, <1>3, <1>9 DEF CalmInv

\* A timer that is not idle is the one that has the edit.
LEMMA OneTimer ==
    ASSUME Calm, CalmInv, NEW p \in Peers, NEW t \in Timers, timers[p][t] # Idle
    PROVE  /\ NothingSpreads /\ p \in Members /\ disk[p] = latest /\ Has(p, timers[p][t])
           /\ \A q \in Peers : ~notified[q] /\ ~pending[q]
           /\ \A q \in Peers, u \in Timers : q # p \/ u # t => timers[q][u] = Idle
<1>1. Taken
  BY DEF CalmInv, Saved, Spreads, TimersIdle
<1> QED BY <1>1 DEF Taken

LEMMA CalmTimer ==
    ASSUME Typed, IndexInv, Calm, CalmInv, NEW p \in Peers, NEW t \in Timers, TimerStep(p, t)
    PROVE  CalmInv'
<1> USE DEF Typed
<1>1. timers[p][t] \in Timer /\ timers[p][t] # Idle
  <2>1. timers[p][t].at \in {"read", "merge", "send"}
    BY DEF TimerStep, Read, ReadFails, Merge, Send
  <2>2. timers[p][t] \in Timer
    BY DEF TypeOK, Timer
  <2> QED BY <2>1, <2>2 DEF Idle
<1>2. /\ NothingSpreads /\ p \in Members /\ disk[p] = latest /\ Has(p, timers[p][t])
      /\ \A q \in Peers : ~notified[q] /\ ~pending[q]
      /\ \A q \in Peers, u \in Timers : q # p \/ u # t => timers[q][u] = Idle
  BY <1>1, OneTimer
<1>3. /\ UNCHANGED <<edits, latest, missed, joined, due, replay, disk, notified, pending, mark, applying>>
      /\ Cardinality(Readings) <= edits
  BY DEF TimerStep, Read, ReadFails, Merge, Send, history, tracker, watcher, CalmInv
<1>4. Members' = Members
  BY <1>3 DEF Members
<1>5. \A q \in Peers, u \in Timers : q # p \/ u # t => timers'[q][u] = Idle
  <2>1. \E s : timers' = [timers EXCEPT ![p][t] = s]
    BY DEF TimerStep, Read, ReadFails, Merge, Send
  <2> QED BY <1>2, <2>1 DEF TypeOK
<1>6. net' = {} => NothingSpreads'
  BY <1>2, <1>3 DEF NothingSpreads
<1>7. net' = {} /\ NothingSpreads' /\ Has(p, timers[p][t])' => Taken'
  BY <1>2, <1>3, <1>4, <1>5 DEF Taken
<1>8. \A q \in Peers : Shown(q) \in Op \cup {Absent} /\ (Shown(q) # Absent => Present(Shown(q)))
  BY ShownIsOp DEF IndexInv, Present, Merged
<1>9. CASE Read(p, t)
  <2>1. /\ timers' = [timers EXCEPT ![p][t] =
                [at |-> "merge",
                 op |-> [version |-> [time |-> clock, peer |-> p],
                         deleted |-> disk[p] = Absent, hash |-> disk[p]]]]
        /\ UNCHANGED <<files, tombstones, net>> /\ timers[p][t].at = "read" /\ clock' = clock + 1
    BY <1>9 DEF Read, index
  <2>2. timers'[p][t] = [at |-> "merge",
                         op |-> [version |-> [time |-> clock, peer |-> p],
                                 deleted |-> disk[p] = Absent, hash |-> disk[p]]]
    BY <2>1 DEF TypeOK
  <2>3. Cardinality(Readings') <= edits'
    <3>1. Cardinality(Readings) < edits /\ edits \in Nat
      BY <1>2, <2>1, BoundsAssumption DEF Has, TypeOK
    <3> QED BY <1>3, <2>1, <3>1, ReadingsCount
  <2>4. \A q \in Peers : Newer(timers'[p][t].op, Shown(q)')
    <3> SUFFICES ASSUME NEW q \in Peers, Shown(q) # Absent
                 PROVE  LaterThan([time |-> clock, peer |-> p], Shown(q).version)
      BY <2>1, <2>2 DEF Newer, Shown
    <3>1. Shown(q).version.time < clock /\ Shown(q).version.time \in Nat /\ clock \in Nat
      <4>1. Shown(q).version.time < clock /\ Shown(q).version \in Version
        BY <1>8, OpFields DEF InThePast, IndexInv
      <4> QED BY <4>1, VersionsOrdered DEF Version, TypeOK
    <3> QED BY <3>1 DEF LaterThan
  <2>5. Has(p, timers[p][t])'
    BY <1>2, <1>3, <2>2, <2>4 DEF Has
  <2>6. net' = {}
    BY <1>2, <2>1 DEF NothingSpreads
  <2> QED BY <1>6, <1>7, <2>3, <2>5, <2>6 DEF CalmInv
<1>10. CASE Merge(p, t)
  <2>1. PICK op \in Op : op = timers[p][t].op
    BY <1>1, <1>10, TimerShapes DEF Merge
  <2>2. timers[p][t].at = "merge" /\ UNCHANGED <<net, clock>>
    BY <1>10 DEF Merge
  <2>3. op.hash = latest /\ \A q \in Peers : Newer(op, Shown(q))
    BY <1>2, <2>1, <2>2 DEF Has
  <2>4. Accepted(p, op)
    <3>1. ~Accepted(p, op) => AtLeast(Shown(p), op.version)
      BY Decision DEF IndexInv
    <3> QED BY <2>3, <3>1 DEF AtLeast, Newer
  <2>5. Record(p, op) /\ timers' = [timers EXCEPT ![p][t] = [at |-> "send", op |-> op]]
    BY <1>10, <2>1, <2>4 DEF Merge
  <2>6. timers'[p][t] = [at |-> "send", op |-> op]
    BY <2>5 DEF TypeOK
  <2>7. Shown(p)' = op /\ \A q \in Peers \ {p} : Shown(q)' = Shown(q)
    BY <2>5, Decision DEF IndexInv
  <2>8. Has(p, timers[p][t])'
    BY <1>3, <2>3, <2>6, <2>7 DEF Has, Newer
  <2>9. net' = {} /\ Readings' = Readings
    BY <1>2, <2>2 DEF NothingSpreads, Readings
  <2> QED BY <1>3, <1>6, <1>7, <2>8, <2>9 DEF CalmInv
<1>11. ASSUME timers' = [timers EXCEPT ![p][t] = Idle], UNCHANGED clock,
              \A m \in net' : m.to \in Peers,
              \A m, n \in net' : m.to = n.to => m = n,
              unread' \/ (HostCurrent' /\ \A q \in Members' : DiskCurrent(q)')
       PROVE  CalmInv'
  <2>1. TimersIdle'
    BY <1>5, <1>11 DEF TimersIdle, TypeOK
  <2>2. \A q \in Peers : Resting(q)' /\ Covered(q)'
    BY <1>2, <1>3 DEF Resting, Covered, NothingSpreads, Idle
  <2>3. OneToCome'
    BY <1>2, <1>3, <1>11, <2>2 DEF OneToCome, NothingSpreads, ReplaysTo
  <2>4. Spreads' /\ Readings' = Readings
    BY <1>11, <2>1, <2>2, <2>3 DEF Spreads, Readings
  <2> QED BY <1>3, <2>4 DEF CalmInv
<1>12. CASE ReadFails(p, t)
  <2>1. /\ timers' = [timers EXCEPT ![p][t] = Idle] /\ UNCHANGED <<net, clock>> /\ unread'
    BY <1>12 DEF ReadFails
  <2> QED BY <1>2, <1>11, <2>1 DEF NothingSpreads
<1>13. CASE Send(p, t)
  <2>1. PICK op \in Op : op = timers[p][t].op
    BY <1>1, <1>13, TimerShapes DEF Send
  <2>2. /\ timers[p][t].at = "send" /\ timers' = [timers EXCEPT ![p][t] = Idle]
        /\ UNCHANGED <<files, tombstones, clock>>
        /\ net' = {[to |-> q, op |-> op, content |-> op.hash] : q \in Targets(p)}
    BY <1>2, <1>13, <2>1 DEF Send, index, history, NothingSpreads
  <2>3. op.hash = latest /\ Shown(p) = op /\ \A q \in Peers \ {p} : Newer(op, Shown(q))
    BY <1>2, <2>1, <2>2 DEF Has
  <2>4. op.version.peer = p
    BY <2>1, <2>2 DEF TimersOwn, IndexInv
  <2>5. Targets(p) \subseteq Peers /\ p \notin Targets(p)
    BY HostAssumption DEF Targets, TypeOK
  <2>6. /\ \A m \in net' : m.to \in Targets(p) /\ m = [to |-> m.to, op |-> op, content |-> op.hash]
        /\ \A q \in Targets(p) : \E m \in net' : m.to = q /\ m.op = op /\ m.content = op.hash
    <3>1. \A q \in Targets(p) : [to |-> q, op |-> op, content |-> op.hash] \in net'
      BY <2>2
    <3>2. \A m \in net' : \E q \in Targets(p) : m = [to |-> q, op |-> op, content |-> op.hash]
      BY <2>2
    <3>3. \A m \in net' : m.to \in Targets(p) /\ m = [to |-> m.to, op |-> op, content |-> op.hash]
      BY <3>2
    <3>4. ASSUME NEW q \in Targets(p)
          PROVE  \E m \in net' : m.to = q /\ m.op = op /\ m.content = op.hash
      BY <3>1
    <3> QED BY <3>3, <3>4
  <2>7. \A q \in Peers : Shown(q)' = Shown(q) /\ Indexed(q)' = Indexed(q)
    BY <2>2 DEF Shown, Indexed
  <2>8. Indexed(p) = latest
    <3>1. files[p] \in Meta \cup {Absent} /\ tombstones[p] \in Version \cup {Absent} /\ op # Absent
      BY OpIsNotAbsent DEF TypeOK
    <3>2. op.deleted => op.hash = Absent
      BY OpFields
    <3>3. Register(files[p], tombstones[p]) = op
      BY <2>3 DEF Shown
    <3>4. CASE files[p] = Absent
      <4>1. op = [version |-> tombstones[p], deleted |-> TRUE, hash |-> Absent]
        BY <3>1, <3>3, <3>4 DEF Register
      <4> QED BY <2>3, <3>4, <4>1 DEF Indexed
    <3>5. CASE files[p] # Absent
      <4>1. op = [version |-> VersionOf(files[p]), deleted |-> FALSE, hash |-> files[p].hash]
        BY <3>3, <3>5 DEF Register
      <4> QED BY <2>3, <3>5, <4>1 DEF Indexed
    <3> QED BY <3>4, <3>5
  <2>9. ASSUME NEW q \in Targets(p)
        PROVE  \E m \in net' : m.to = q /\ Genuine(q, m) /\ Newer(m.op, Shown(q)') /\ m.op = op
    BY <2>3, <2>4, <2>5, <2>6, <2>7, <2>9 DEF Genuine
  <2>10. HostCurrent'
    <3>1. \A m \in net' : m.to = Host => m.op.hash = latest'
      BY <1>3, <2>3, <2>6
    <3>2. Indexed(Host)' = latest' \/ \E m \in net' : m.to = Host /\ Newer(m.op, Shown(Host)')
      <4>1. CASE p = Host
        BY <1>3, <2>7, <2>8, <4>1
      <4>2. CASE p # Host
        <5>1. Host \in Targets(p)
          BY <1>2, <4>2 DEF Targets, Members
        <5> QED BY <2>9, <5>1
      <4> QED BY <4>1, <4>2
    <3> QED BY <3>1, <3>2 DEF HostCurrent
  <2>11. ASSUME NEW q \in Members'
         PROVE  DiskCurrent(q)'
    <3>1. q \in Peers
      BY <1>4, HostAssumption DEF Members, TypeOK
    <3>2. CASE q = p
      BY <1>2, <1>3, <2>7, <2>8, <3>2 DEF DiskCurrent
    <3>3. CASE q \in Targets(p)
      <4>1. PICK m \in net' : m.to = q /\ Genuine(q, m) /\ Newer(m.op, Shown(q)')
        BY <2>9, <3>3
      <4> QED BY <4>1 DEF DiskCurrent, Genuine
    <3>4. CASE q # p /\ q \notin Targets(p)
      <4>1. Host \in Targets(p) /\ p # Host /\ q # Host
        BY <1>2, <1>4, <3>4 DEF Targets, Members
      <4>2. PICK m \in net' : m.to = Host /\ Newer(m.op, Shown(Host)') /\ m.op = op
        BY <2>9, <4>1
      <4>3. Newer(m.op, Shown(q)') /\ m.op.version.peer \notin {q, Host}
        BY <2>3, <2>4, <2>7, <3>1, <3>4, <4>1, <4>2
      <4> QED BY <4>2, <4>3 DEF DiskCurrent
    <3> QED BY <3>2, <3>3, <3>4
  <2>12. /\ \A m \in net' : m.to \in Peers
         /\ \A m, n \in net' : m.to = n.to => m = n
    BY <2>5, <2>6
  <2> QED BY <1>11, <2>2, <2>10, <2>11, <2>12
<1> QED BY <1>9, <1>10, <1>12, <1>13 DEF TimerStep

\* Who is left behind stays so when the host moves on.
LEMMA BehindStays ==
    ASSUME TypeOK, IndexInv, NEW op \in Op, Merged(op), op.version.peer # Host,
           Accepted(Host, op), Record(Host, op), UNCHANGED <<joined, missed>>,
           NEW r \in joined, LeftBehind(r)
    PROVE  LeftBehind(r)'
<1>1. r \in Peers /\ r # Host /\ Host \in Peers
  BY HostAssumption DEF TypeOK
<1>2. Shown(Host)' = op /\ Shown(r)' = Shown(r)
  BY <1>1, Decision DEF IndexInv
<1>3. Shown(Host) # Absent /\ (Shown(r) # Absent => Outranks(Shown(Host), Shown(r)))
  BY DEF LeftBehind, Shown
<1>4. Shown(Host) \in Op /\ Shown(r) \in Op \cup {Absent} /\ op # Absent
  BY <1>1, <1>3, ShownIsOp, OpIsNotAbsent DEF IndexInv
<1>5. ~LaterThan(Shown(Host).version, op.version)
  BY <1>1, <1>3, Decision DEF IndexInv
<1>6. op.version.peer = r => AtLeast(Shown(r), op.version)
  BY DEF AuthorsAhead, IndexInv
<1>7. CASE Shown(r) = Absent
  BY <1>2, <1>4, <1>6, <1>7 DEF LeftBehind, Shown, AtLeast
<1>8. CASE Shown(r) # Absent
  <2>1. Shown(r) \in Op /\ Shown(r).version \in Version /\ op.version \in Version
        /\ Shown(Host).version \in Version
    BY <1>4, <1>8, OpFields
  <2>2. LaterThan(op.version, Shown(r).version)
    <3> SUFFICES ASSUME ~LaterThan(op.version, Shown(r).version) PROVE FALSE
      OBVIOUS
    <3>1. op.version = Shown(r).version \/ LaterThan(Shown(r).version, op.version)
      BY <2>1, LaterThanOrder
    <3>2. op.version = Shown(Host).version \/ LaterThan(op.version, Shown(Host).version)
      BY <1>5, <2>1, LaterThanOrder
    <3>3. Shown(Host).version = Shown(r).version \/ LaterThan(Shown(r).version, Shown(Host).version)
      BY <2>1, <3>1, <3>2, LaterThanOrder
    <3>4. ~LaterThan(Shown(Host).version, Shown(r).version)
      BY <2>1, <3>3, LaterThanOrder
    <3>5. /\ Shown(Host).version = Shown(r).version
          /\ Shown(Host).deleted /\ ~Shown(r).deleted
      BY <1>3, <1>8, <3>4 DEF Outranks
    <3>6. Present(Shown(Host)) /\ Present(Shown(r))
      BY <1>1 DEF Present, Merged
    <3>7. Shown(Host) = Shown(r)
      BY <1>4, <2>1, <3>5, <3>6 DEF VersionsUnique, IndexInv
    <3> QED BY <3>5, <3>7
  <2>3. op.version.peer # r
    BY <1>6, <2>2 DEF AtLeast
  <2> QED BY <1>2, <1>4, <2>2, <2>3 DEF LeftBehind, Shown, Outranks
<1> QED BY <1>7, <1>8

LEMMA CalmApply ==
    ASSUME Typed, IndexInv, Calm, CalmInv, NEW p \in Peers, NEW m \in net, Apply(p, m)
    PROVE  CalmInv'
<1> USE DEF Typed
<1>1. Spreads /\ Cardinality(Readings) <= edits
  BY DEF CalmInv, Saved, Taken, NothingSpreads
<1>2. PICK op \in Op : op = m.op
  BY ChunkShapes DEF TypeOK
<1>3. /\ m.to = p /\ net' = net \ {m} /\ applying[p] = Idle
      /\ UNCHANGED <<due, replay, joined, missed, clock, disk, notified, pending, mark, timers, edits,
                     latest, unread, unwritten>>
  BY DEF Apply, tracker, history, watcher
<1>4. /\ Resting(p) /\ p \notin due /\ ~ReplaysTo(p) /\ \A n \in net : n.to = p => n = m
  BY <1>1, <1>3 DEF Spreads, OneToCome
<1>5. /\ \A q \in Peers \ {p} : /\ applying'[q] = applying[q] /\ files'[q] = files[q]
                                /\ tombstones'[q] = tombstones[q]
      /\ \/ /\ Genuine(p, m) /\ Accepted(p, op) /\ Record(p, op)
            /\ applying'[p] = [at |-> "mark", op |-> op]
         \/ /\ ~(Genuine(p, m) /\ Accepted(p, op))
            /\ UNCHANGED <<files, tombstones, applying>>
  BY <1>2 DEF Apply, Record, TypeOK, index
<1>6. \A q \in Peers \ {p} : Indexed(q)' = Indexed(q) /\ Shown(q)' = Shown(q)
  BY <1>5 DEF Indexed, Shown
<1>7. p # Host => p \in joined
  BY <1>3 DEF HostAhead, IndexInv
<1>8. TimersIdle' /\ OneToCome'
  <2>1. TimersIdle'
    BY <1>1, <1>3 DEF Spreads, TimersIdle
  <2>2. \A q \in Peers : ReplaysTo(q)' <=> ReplaysTo(q)
    BY <1>3 DEF ReplaysTo
  <2>3. \A q \in Peers \ {p} : Resting(q)' <=> Resting(q)
    BY <1>3, <1>5 DEF Resting
  <2>4. \A q \in Peers : q \in due' \/ ReplaysTo(q)' \/ (\E n \in net' : n.to = q) => Resting(q)'
    BY <1>1, <1>3, <1>4, <2>2, <2>3 DEF Spreads, OneToCome
  <2>5. /\ \A k, n \in net' : k.to = n.to => k = n
        /\ \A n \in net' : n.to \notin due' /\ ~ReplaysTo(n.to)'
        /\ \A q \in due' : ~ReplaysTo(q)'
    <3>1. \A n \in net : n.to \in Peers
      BY ChunkShapes DEF TypeOK
    <3>2. due \subseteq Peers
      BY DEF TypeOK
    <3> QED BY <1>1, <1>3, <2>2, <3>1, <3>2 DEF Spreads, OneToCome
  <2> QED BY <2>1, <2>4, <2>5 DEF OneToCome
<1>9. ASSUME Record(p, op)
      PROVE  Indexed(p)' = op.hash
  <2>1. files'[p] = IF op.deleted THEN Absent ELSE MetaOf(op)
    BY <1>9 DEF Record, TypeOK
  <2>2. CASE op.deleted
    BY <2>1, <2>2, OpFields DEF Indexed
  <2>3. CASE ~op.deleted
    <3>1. MetaOf(op) \in Meta
      BY <2>3, OpFields DEF MetaOf, Meta, Version
    <3>2. MetaOf(op) # Absent /\ MetaOf(op).hash = op.hash
      BY <3>1, AbsentIsNoRecord DEF MetaOf
    <3> QED BY <2>1, <2>3, <3>2 DEF Indexed
  <2> QED BY <2>2, <2>3
<1>10. \A q \in Peers : Covered(q)'
  <2>1. \A q \in Peers \ {p} : Covered(q)'
    BY <1>1, <1>3, <1>5, <1>6 DEF Spreads, Covered
  <2>2. Covered(p)'
    <3>1. CASE Record(p, op) /\ applying'[p] = [at |-> "mark", op |-> op]
      BY <1>3, <1>4, <1>9, <3>1 DEF Covered, Resting
    <3>2. CASE UNCHANGED <<files, tombstones, applying>>
      BY <1>3, <1>4, <3>2 DEF Covered, Resting, Idle
    <3> QED BY <1>5, <3>1, <3>2
  <2> QED BY <2>1, <2>2
<1>11. ASSUME ~unread
       PROVE  HostCurrent' /\ \A q \in Members' : DiskCurrent(q)'
  <2>1. HostCurrent /\ \A q \in Members : DiskCurrent(q)
    BY <1>1, <1>11 DEF Spreads
  <2>2. Members' = Members /\ Members \subseteq Peers /\ Host \in Peers
    BY <1>3, HostAssumption DEF Members, TypeOK
  <2>3. Genuine(p, m) /\ Newer(op, Shown(p)) => Accepted(p, op)
    BY Decision DEF IndexInv, AtLeast, Newer
  <2>4. p = Host => Genuine(p, m)
    BY <1>3 DEF HostAhead, IndexInv, Genuine
  <2>5. CASE Genuine(p, m) /\ Accepted(p, op) /\ Record(p, op) /\ applying'[p] = [at |-> "mark", op |-> op]
    <3>1. Indexed(p)' = op.hash /\ Shown(p)' = op
      BY <1>9, <2>5, Decision DEF IndexInv
    <3>2. HostCurrent'
      <4>1. \A n \in net' : n.to = Host => n.op.hash = latest'
        BY <1>3, <2>1 DEF HostCurrent
      <4>2. CASE p = Host
        BY <1>2, <1>3, <2>1, <3>1, <4>1, <4>2 DEF HostCurrent
      <4>3. CASE p # Host
        <5>1. Indexed(Host)' = latest' \/ \E n \in net' : n.to = Host /\ Newer(n.op, Shown(Host)')
          BY <1>3, <1>6, <2>1, <2>2, <4>3 DEF HostCurrent, Newer
        <5> QED BY <4>1, <5>1 DEF HostCurrent
      <4> QED BY <4>2, <4>3
    <3>3. DiskCurrent(p)'
      BY <2>5 DEF DiskCurrent, Idle
    <3>4. ASSUME NEW q \in Members, q # p
          PROVE  DiskCurrent(q)'
      <4>1. q \in Peers /\ Shown(q)' = Shown(q) /\ Indexed(q)' = Indexed(q)
        BY <1>6, <2>2, <3>4
      <4>2. CASE applying[q] # Idle \/ disk[q] = Indexed(q) \/ q \in unwritten
        BY <1>3, <1>5, <3>4, <4>1, <4>2 DEF DiskCurrent
      <4>3. CASE \E n \in net : n.to = q /\ Genuine(q, n) /\ Newer(n.op, Shown(q))
        BY <1>3, <3>4, <4>1, <4>3 DEF DiskCurrent, Genuine, Newer
      <4>4. CASE LeftBehind(q)
        <5>1. q \in joined
          BY <4>4 DEF LeftBehind
        <5>2. CASE p = Host
          <6>1. Merged(op) /\ op.version.peer # Host
            BY <1>2, <2>5, <5>2 DEF Merged, Genuine
          <6>2. LeftBehind(q)'
            BY <1>3, <2>5, <4>4, <5>1, <5>2, <6>1, BehindStays
          <6> QED BY <6>2 DEF DiskCurrent
        <5>3. CASE p # Host
          <6>1. LeftBehind(q)'
            BY <1>3, <1>5, <2>2, <3>4, <4>1, <4>4, <5>3 DEF LeftBehind
          <6> QED BY <6>1 DEF DiskCurrent
        <5> QED BY <5>2, <5>3
      <4>5. ASSUME NEW n \in net, n.to = Host, n.op.version.peer \notin {q, Host},
                   Newer(n.op, Shown(q)), Newer(n.op, Shown(Host)),
                   ~LeftBehind(q)
            PROVE  DiskCurrent(q)'
        <5>1. CASE p # Host
          <6>1. n \in net' /\ Shown(Host)' = Shown(Host)
            BY <1>3, <1>6, <2>2, <4>5, <5>1
          <6> QED BY <4>1, <4>5, <6>1 DEF DiskCurrent, Newer
        <5>2. CASE p = Host
          <6>1. n = m /\ q \in joined
            BY <1>4, <3>4, <4>5, <5>2 DEF Members
          <6>2. op # Absent /\ (Shown(q) # Absent => Outranks(op, Shown(q)))
            BY <1>2, <4>5, <6>1, OpIsNotAbsent DEF Newer, Outranks
          <6>3. LeftBehind(q)'
            BY <1>2, <1>3, <3>1, <4>1, <4>5, <5>2, <6>1, <6>2 DEF LeftBehind, Shown
          <6> QED BY <6>3 DEF DiskCurrent
        <5> QED BY <5>1, <5>2
      <4>6. DiskCurrent(q)
        BY <2>1
      <4> QED BY <4>2, <4>3, <4>4, <4>5, <4>6 DEF DiskCurrent
    <3> QED BY <2>2, <3>2, <3>3, <3>4
  <2>6. CASE ~(Genuine(p, m) /\ Accepted(p, op)) /\ UNCHANGED <<files, tombstones, applying>>
    <3>1. \A q \in Peers : Indexed(q)' = Indexed(q) /\ Shown(q)' = Shown(q)
      BY <2>6 DEF Indexed, Shown
    <3>2. ~(Genuine(p, m) /\ Newer(op, Shown(p)))
      BY <2>3, <2>6
    <3>3. HostCurrent'
      <4>1. \A n \in net' : n.to = Host => n.op.hash = latest'
        BY <1>3, <2>1 DEF HostCurrent
      <4>2. \A n \in net : n.to = Host /\ Newer(n.op, Shown(Host)) => n \in net'
        BY <1>2, <1>3, <2>4, <3>2
      <4>3. Indexed(Host)' = latest' \/ \E n \in net' : n.to = Host /\ Newer(n.op, Shown(Host)')
        BY <1>3, <2>1, <2>2, <3>1, <4>2 DEF HostCurrent, Newer
      <4> QED BY <4>1, <4>3 DEF HostCurrent
    <3>4. ASSUME NEW q \in Members
          PROVE  DiskCurrent(q)'
      <4>1. q \in Peers /\ Shown(q)' = Shown(q) /\ Indexed(q)' = Indexed(q) /\ Shown(Host)' = Shown(Host)
        BY <2>2, <3>1
      <4>2. CASE applying[q] # Idle \/ disk[q] = Indexed(q) \/ q \in unwritten
        BY <1>3, <2>6, <4>1, <4>2 DEF DiskCurrent
      <4>3. ASSUME NEW n \in net, n.to = q, Genuine(q, n), Newer(n.op, Shown(q))
            PROVE  DiskCurrent(q)'
        <5>1. n # m
          BY <1>2, <1>3, <3>2, <4>3
        <5> QED BY <1>3, <4>1, <4>3, <5>1 DEF DiskCurrent, Genuine, Newer
      <4>4. CASE LeftBehind(q)
        BY <1>3, <2>6, <4>4 DEF DiskCurrent, LeftBehind
      <4>5. ASSUME NEW n \in net, n.to = Host, n.op.version.peer \notin {q, Host},
                   Newer(n.op, Shown(q)), Newer(n.op, Shown(Host))
            PROVE  DiskCurrent(q)'
        <5>1. n # m
          BY <1>2, <1>3, <2>4, <3>2, <4>5
        <5> QED BY <1>3, <4>1, <4>5, <5>1 DEF DiskCurrent, Newer
      <4>6. DiskCurrent(q)
        BY <2>1
      <4> QED BY <4>2, <4>3, <4>4, <4>5, <4>6 DEF DiskCurrent
    <3> QED BY <2>2, <3>3, <3>4
  <2> QED BY <1>5, <2>5, <2>6
<1>12. Spreads' /\ Readings' = Readings /\ edits' = edits
  BY <1>3, <1>8, <1>10, <1>11 DEF Spreads, Readings
<1> QED BY <1>1, <1>12 DEF CalmInv

\* A joiner comes when nothing is under way, and has an empty directory.
LEMMA CalmJoin ==
    ASSUME TypeOK, IndexInv, Calm, CalmInv, NEW p \in Peers, Join(p)
    PROVE  CalmInv'
<1>1. Quiet /\ \A q \in Peers : ~mark[q]
  BY DEF Join, MoreMayHappen
<1>2. Spreads /\ Cardinality(Readings) <= edits
  <2>1. \A q \in Peers, t \in Timers : timers[q][t].at = "idle"
    BY <1>1 DEF Quiet, Idle
  <2>2. ~Saved
    BY <1>1, HostAssumption DEF Saved, Quiet, Members, TypeOK
  <2>3. ~Taken
    BY <2>1, HostAssumption DEF Taken, Has, Members, TypeOK
  <2> QED BY <2>2, <2>3 DEF CalmInv
<1>3. /\ UNCHANGED <<edits, latest, unread, unwritten, missed, replay, clock, disk, files, tombstones,
                     notified, pending, mark, timers, applying, net>>
      /\ p \in Peers \ Members /\ joined' = joined \cup {p} /\ due' = due \cup {p}
  BY DEF Join, index, watcher, Members
<1>4. \A q \in Peers : Resting(q) /\ Resting(q)'
  BY <1>1, <1>3 DEF Quiet, Resting
<1>5. TimersIdle' /\ OneToCome'
  <2>1. net' = {} /\ replay' = Idle
    BY <1>1, <1>3 DEF Quiet
  <2> QED BY <1>2, <1>3, <1>4, <2>1 DEF Spreads, TimersIdle, OneToCome, ReplaysTo
<1>6. \A q \in Peers : Covered(q)' /\ Indexed(q)' = Indexed(q)
  BY <1>2, <1>3 DEF Spreads, Covered, Indexed
<1>7. ASSUME ~unread
      PROVE  HostCurrent' /\ \A q \in Members' : DiskCurrent(q)'
  <2>1. HostCurrent /\ \A q \in Members : DiskCurrent(q)
    BY <1>2, <1>7 DEF Spreads
  <2>2. HostCurrent'
    BY <1>1, <1>3, <1>6, <2>1, HostAssumption DEF HostCurrent, Quiet
  <2>3. ASSUME NEW q \in Members PROVE DiskCurrent(q)'
    <3>1. q \in Peers /\ net = {}
      BY <1>1, HostAssumption DEF Members, TypeOK, Quiet
    <3>2. LeftBehind(q) => LeftBehind(q)'
      BY <1>3 DEF LeftBehind
    <3> QED BY <1>3, <1>6, <2>1, <3>1, <3>2 DEF DiskCurrent
  <2>4. DiskCurrent(p)'
    <3>1. disk[p] = Absent /\ Indexed(p) = Absent
      BY <1>3 DEF Outsiders, IndexInv, Indexed
    <3> QED BY <1>3, <1>6, <3>1 DEF DiskCurrent
  <2>5. Members' = Members \cup {p}
    BY <1>3 DEF Members
  <2> QED BY <2>2, <2>3, <2>4, <2>5
<1>8. Spreads' /\ Readings' = Readings
  BY <1>3, <1>5, <1>6, <1>7 DEF Spreads, Readings
<1> QED BY <1>2, <1>3, <1>8 DEF CalmInv

LEMMA CalmTracker ==
    ASSUME Typed, IndexInv, Calm, CalmInv, TrackStep
    PROVE  CalmInv'
<1> USE DEF Typed
<1>1. Spreads /\ Cardinality(Readings) <= edits
  <2>1. due # {} \/ replay # Idle
    BY DEF TrackStep, ReadListed, SendListed, List
  <2> QED BY <2>1 DEF CalmInv, Saved, Taken, NothingSpreads
<1>2. /\ UNCHANGED <<edits, latest, unread, unwritten, joined, clock, disk, files, tombstones,
                     notified, pending, mark, timers, applying>>
      /\ missed \subseteq missed' /\ net \subseteq net' /\ due' \subseteq due
  <2>1. UNCHANGED <<edits, latest, unread, unwritten, joined, clock, disk, files, tombstones,
                    notified, pending, mark, timers, applying>>
    BY DEF TrackStep, ReadListed, SendListed, List, index, watcher, history
  <2>2. missed \subseteq missed' /\ net \subseteq net' /\ due' \subseteq due
    BY DEF TrackStep, ReadListed, SendListed, List, history
  <2> QED BY <2>1, <2>2
<1>3. \A m \in net' : m \in net \/ (SendListed /\ m = replay.chunk /\ replay.chunk.to # Host)
  <2>1. ASSUME SendListed
        PROVE  replay.chunk.to # Host
    <3>1. replay.at = "send" /\ replay # Idle /\ replay.chunk.to \in Peers /\ replay.chunk.op \in Op
      BY <2>1, ReplayShapes, ChunkShapes DEF SendListed
    <3>2. Replays(replay.chunk.to, replay.chunk.op)
      BY <3>1 DEF Replays
    <3> QED BY <3>1, <3>2 DEF HostAhead, IndexInv, TypeOK
  <2>2. CASE SendListed
    BY <2>1, <2>2 DEF SendListed
  <2>3. CASE ~SendListed
    BY <2>3 DEF TrackStep, ReadListed, List
  <2> QED BY <2>2, <2>3
<1>4. OneToCome'
  <2>1. \A q \in Peers : Resting(q)' <=> Resting(q)
    BY <1>2 DEF Resting
  <2>2. due \subseteq Peers
    BY DEF TypeOK
  <2>3. CASE ReadListed
    <3>1. \A q \in Peers : ReplaysTo(q)' => ReplaysTo(q)
      BY <2>3 DEF ReadListed, ReplaysTo, Idle
    <3>2. UNCHANGED <<due, net>> /\ \A m \in net : m.to \in Peers
      BY <2>3, ChunkShapes DEF ReadListed, TypeOK
    <3> QED BY <1>1, <2>1, <2>2, <3>1, <3>2 DEF Spreads, OneToCome
  <2>4. CASE SendListed
    <3>1. /\ due' = due /\ net' = net \cup {replay.chunk} /\ replay' = Idle
          /\ replay.chunk.to \in Peers /\ ReplaysTo(replay.chunk.to)
          /\ \A m \in net : m.to \in Peers
      BY <2>4, ReplayShapes, ChunkShapes DEF SendListed, ReplaysTo, TypeOK
    <3>2. \A q : ~ReplaysTo(q)'
      BY <3>1 DEF ReplaysTo
    <3>3. \A q \in Peers : q \in due' \/ ReplaysTo(q)' \/ (\E m \in net' : m.to = q) => Resting(q)'
      BY <1>1, <2>1, <3>1, <3>2 DEF Spreads, OneToCome
    <3>4. \A m \in net : m.to # replay.chunk.to
      BY <1>1, <3>1 DEF Spreads, OneToCome
    <3>5. \A m, n \in net' : m.to = n.to => m = n
      BY <1>1, <3>1, <3>4 DEF Spreads, OneToCome
    <3>6. \A m \in net' : m.to \notin due'
      BY <1>1, <3>1 DEF Spreads, OneToCome
    <3> QED BY <3>2, <3>3, <3>5, <3>6 DEF OneToCome
  <2>5. ASSUME NEW r \in due, List(r)
        PROVE  OneToCome'
    <3>1. net' = net /\ due' = due \ {r} /\ replay = Idle /\ \A m \in net : m.to \in Peers
      BY <1>2, <2>5, ChunkShapes DEF List, TypeOK
    <3>2. \A q \in Peers : ReplaysTo(q)' => q = r
      BY <2>5, <3>1 DEF List, ReplaysTo
    <3> QED BY <1>1, <2>1, <2>2, <2>5, <3>1, <3>2 DEF Spreads, OneToCome
  <2> QED BY <2>3, <2>4, <2>5 DEF TrackStep
<1>5. TimersIdle' /\ \A q \in Peers : /\ Covered(q)' /\ Indexed(q)' = Indexed(q)
                                      /\ Shown(q)' = Shown(q)
  BY <1>1, <1>2 DEF Spreads, TimersIdle, Covered, Indexed, Shown
<1>6. ASSUME ~unread
      PROVE  HostCurrent' /\ \A q \in Members' : DiskCurrent(q)'
  <2>1. HostCurrent /\ \A q \in Members : DiskCurrent(q)
    BY <1>1, <1>6 DEF Spreads
  <2>2. HostCurrent'
    BY <1>2, <1>3, <1>5, <2>1, HostAssumption DEF HostCurrent
  <2>3. ASSUME NEW q \in Members PROVE DiskCurrent(q)'
    <3>1. q \in Peers /\ Host \in Peers
      BY HostAssumption DEF Members, TypeOK
    <3>2. LeftBehind(q) => LeftBehind(q)'
      BY <1>2 DEF LeftBehind
    <3>3. CASE applying[q] # Idle \/ disk[q] = Indexed(q) \/ q \in unwritten
      BY <1>2, <1>5, <3>1, <3>3 DEF DiskCurrent
    <3>4. CASE \E n \in net : n.to = q /\ Genuine(q, n) /\ Newer(n.op, Shown(q))
      BY <1>2, <1>5, <3>1, <3>4 DEF DiskCurrent, Genuine
    <3>5. CASE \E n \in net : /\ n.to = Host /\ n.op.version.peer \notin {q, Host}
                              /\ Newer(n.op, Shown(q)) /\ Newer(n.op, Shown(Host))
      BY <1>2, <1>5, <3>1, <3>5 DEF DiskCurrent
    <3>6. DiskCurrent(q)
      BY <2>1
    <3>7. CASE LeftBehind(q)
      BY <3>2, <3>7 DEF DiskCurrent
    <3> QED BY <3>3, <3>4, <3>5, <3>6, <3>7 DEF DiskCurrent
  <2>4. Members' = Members
    BY <1>2 DEF Members
  <2> QED BY <2>2, <2>3, <2>4
<1>7. Spreads' /\ Readings' = Readings
  BY <1>2, <1>4, <1>5, <1>6 DEF Spreads, Readings
<1> QED BY <1>1, <1>2, <1>7 DEF CalmInv

LEMMA CalmInit == Init => CalmInv
<1> SUFFICES ASSUME Init PROVE CalmInv
  OBVIOUS
<1>1. Readings = {}
  <2> SUFFICES ASSUME NEW t \in Times, t < clock PROVE FALSE
    BY DEF Readings
  <2>1. clock <= t /\ clock \in Nat /\ t \in Nat
    BY VersionsOrdered DEF Init
  <2> QED BY <2>1
<1>2. Cardinality(Readings) <= edits
  BY <1>1, FS_EmptySet DEF Init
<1>3. TimersIdle /\ OneToCome
  BY DEF Init, TimersIdle, OneToCome, ReplaysTo
<1>4. \A p \in Peers : Covered(p) /\ Indexed(p) = Absent /\ disk[p] = Absent
  BY DEF Init, Covered, Indexed, Idle
<1>5. HostCurrent /\ \A p \in Members : DiskCurrent(p)
  BY <1>4, HostAssumption DEF HostCurrent, DiskCurrent, Init, Members
<1> QED BY <1>2, <1>3, <1>4, <1>5 DEF CalmInv, Spreads

LEMMA CalmStep == Typed /\ IndexInv /\ CalmInv /\ [Next]_vars => CalmInv'
<1> SUFFICES ASSUME Typed, IndexInv, CalmInv, [Next]_vars, Calm' PROVE CalmInv'
  BY DEF CalmInv
<1>1. Calm
  BY DEF Calm, Next, vars, TrackStep, EngineStep, WatchStep, TimerStep, ReadListed, SendListed, List,
         Edit, Join, Expire, Mark, Mirror, Fill, MirrorFails, Apply, Watch, Fire, Read, ReadFails,
         Merge, Send
<1>2. TypeOK
  BY DEF Typed
<1>3. ASSUME Next PROVE CalmInv'
  <2>1. CASE TrackStep
    BY <1>1, <2>1, CalmTracker
  <2>2. ASSUME NEW p \in Peers,
               \/ \E content \in Contents : Edit(p, content)
               \/ Join(p) \/ Expire(p) \/ EngineStep(p) \/ WatchStep(p)
               \/ \E t \in Timers : TimerStep(p, t)
        PROVE  CalmInv'
    <3>1. CASE \E m \in net : Apply(p, m)
      BY <1>1, <3>1, CalmApply
    <3>2. CASE \E content \in Contents : Edit(p, content)
      BY <1>1, <1>2, <3>2, CalmEdit
    <3>3. CASE \E t \in Timers : TimerStep(p, t)
      BY <1>1, <3>3, CalmTimer
    <3>4. CASE Mark(p) \/ Mirror(p) \/ Fill(p) \/ MirrorFails(p)
      BY <1>1, <1>2, <3>4, CalmEngine
    <3>5. CASE Expire(p) \/ WatchStep(p)
      BY <1>1, <1>2, <3>5, CalmWatcher
    <3>6. CASE Join(p)
      BY <1>1, <1>2, <3>6, CalmJoin
    <3> QED BY <2>2, <3>1, <3>2, <3>3, <3>4, <3>5, <3>6 DEF EngineStep
  <2> QED BY <1>3, <2>1, <2>2 DEF Next
<1>4. CASE UNCHANGED vars
  <2>1. UNCHANGED <<edits, latest, unread, unwritten, missed, joined, due, replay, clock, disk, files,
                    tombstones, notified, pending, mark, timers, applying, net>>
    BY <1>4 DEF vars, history, tracker, index, watcher
  <2>2. /\ Readings' = Readings /\ (Saved <=> Saved') /\ (Taken <=> Taken')
    BY <2>1 DEF Readings, Saved, Taken, NothingSpreads, TimersIdle, Members, Has, Shown, Newer
  <2>3. Spreads <=> Spreads'
    BY <2>1 DEF Spreads, TimersIdle, OneToCome, Resting, ReplaysTo, Covered, Indexed, HostCurrent,
                DiskCurrent, Members, Shown, Newer, Genuine, LeftBehind
  <2> QED BY <1>1, <2>1, <2>2, <2>3 DEF CalmInv
<1> QED BY <1>3, <1>4

\* At a calm pace the clock is read once for each edit at most: what an engine writes is
\* never published again (sync.go 33-36, 434-455).
THEOREM FileSyncNoEcho == Spec => []NoEcho
<1>1. CalmInv => NoEcho
  BY DEF CalmInv, NoEcho, Readings
<1> QED BY TypeInit, TypeStep, IndexInit, IndexStep, CalmInit, CalmStep, <1>1, PTL DEF Spec

\* At a calm pace the last edit, once nothing is under way, is on the disk and in the index
\* of every peer that is not left behind, for any number of peers and joins and whatever
\* disk operations fail (sync.go 33-36, 104-154, 242, 264-272, 331-334).
THEOREM FileSyncLastEdit == Spec => []LastEditEverywhere
<1>1. TypeOK /\ IndexInv /\ CalmInv /\ IndexesAgree => LastEditEverywhere
  <2> SUFFICES ASSUME TypeOK, CalmInv, IndexesAgree, Calm, Quiet, ~unread, NEW p \in Members
               PROVE  \/ Indexed(p) = latest /\ (p \in unwritten \/ disk[p] = latest)
                      \/ LeftBehind(p)
    BY DEF LastEditEverywhere
  <2>1. net = {} /\ Members \subseteq Peers /\ applying[p] = Idle
    BY HostAssumption DEF Quiet, Members, TypeOK
  <2>2. Spreads
    <3>1. ~Saved
      BY <2>1 DEF Saved, Quiet
    <3>2. \A q \in Peers, t \in Timers : timers[q][t].at = "idle"
      BY DEF Quiet, Idle
    <3>3. ~Taken
      BY <2>1, <3>2 DEF Taken, Has
    <3> QED BY <3>1, <3>3 DEF CalmInv
  <2>3. Indexed(Host) = latest /\ (disk[p] = Indexed(p) \/ p \in unwritten \/ LeftBehind(p))
    BY <2>1, <2>2 DEF Spreads, HostCurrent, DiskCurrent
  <2>4. Indexed(p) = Indexed(Host) \/ LeftBehind(p)
    BY DEF IndexesAgree, Indexed, Members
  <2> QED BY <2>3, <2>4
<1>2. Typed => TypeOK
  BY DEF Typed
<1> QED BY TypeInit, TypeStep, IndexInit, IndexStep, CalmInit, CalmStep, FileSyncIndexesAgree, <1>1, <1>2,
           PTL DEF Spec
====
