---- MODULE FileIndexProofs ----
(***************************************************************************)
(* Lemmas about the merge rules, used by the proofs about the modules that *)
(* hold an index.                                                          *)
(***************************************************************************)
EXTENDS FileIndex, TLAPS

----
(* Versions and operations are ordered.                                    *)

\* laterThan (store.go 194-202) is a strict total order on versions.
LEMMA LaterThanOrder ==
    ASSUME NEW a \in Version, NEW b \in Version, NEW c \in Version
    PROVE  /\ ~LaterThan(a, a)
           /\ LaterThan(a, b) /\ LaterThan(b, c) => LaterThan(a, c)
           /\ LaterThan(a, b) \/ LaterThan(b, a) \/ a = b
<1>1. /\ a.time \in Nat /\ a.peer \in Nat /\ b.time \in Nat /\ b.peer \in Nat
      /\ c.time \in Nat /\ c.peer \in Nat
  BY VersionsOrdered DEF Version
<1>2. a = [time |-> a.time, peer |-> a.peer] /\ b = [time |-> b.time, peer |-> b.peer]
  BY DEF Version
<1>3. a.time = b.time /\ a.peer = b.peer => a = b
  BY <1>2
<1> QED BY <1>1, <1>3 DEF LaterThan

\* The fields of an operation.
LEMMA OpFields ==
    ASSUME NEW op \in Op
    PROVE  /\ op.version \in Version
           /\ op.deleted \in BOOLEAN
           /\ op.deleted => op.hash = Absent
           /\ ~op.deleted => op.hash \in Hashes
           /\ op = [version |-> op.version, deleted |-> op.deleted, hash |-> op.hash]
<1>1. CASE op \in Write  BY <1>1 DEF Write
<1>2. CASE op \in Delete  BY <1>2 DEF Delete
<1> QED BY <1>1, <1>2 DEF Op

\* Outranking is transitive and excludes its converse.
LEMMA OutranksOrder ==
    ASSUME NEW a \in Op, NEW b \in Op, NEW c \in Op
    PROVE  /\ Outranks(a, b) /\ Outranks(b, c) => Outranks(a, c)
           /\ Outranks(a, b) => ~Outranks(b, a)
<1>1. a.version \in Version /\ b.version \in Version /\ c.version \in Version
  BY OpFields
<1>2. /\ LaterThan(a.version, b.version) /\ LaterThan(b.version, c.version)
         => LaterThan(a.version, c.version)
      /\ ~LaterThan(a.version, a.version)
      /\ LaterThan(a.version, b.version) /\ LaterThan(b.version, a.version)
         => LaterThan(a.version, a.version)
  BY <1>1, LaterThanOrder
<1> QED BY <1>2 DEF Outranks

----
(* What the two merge decisions amount to.                                 *)

\* The register of a path with a file or a tombstone is an operation.
LEMMA RegisterIsOp ==
    ASSUME NEW f \in Meta \cup {Absent}, NEW t \in Version \cup {Absent},
           f = Absent \/ t = Absent
    PROVE  /\ Register(f, t) = Absent <=> f = Absent /\ t = Absent
           /\ Register(f, t) # Absent => Register(f, t) \in Op
           /\ f # Absent => /\ Register(f, t).version = VersionOf(f)
                            /\ Register(f, t).deleted = FALSE
                            /\ Register(f, t).hash = f.hash
           /\ t # Absent => /\ Register(f, t).version = t
                            /\ Register(f, t).deleted = TRUE
                            /\ Register(f, t).hash = Absent
<1>1. CASE f # Absent
  <2>1. VersionOf(f) \in Version /\ f.hash \in Hashes
    BY <1>1 DEF Meta, Version, VersionOf
  <2>2. Register(f, t) = [version |-> VersionOf(f), deleted |-> FALSE, hash |-> f.hash]
    BY <1>1 DEF Register
  <2>3. Register(f, t) \in Op
    BY <2>1, <2>2 DEF Op, Write
  <2>4. /\ Register(f, t).version = VersionOf(f)
        /\ Register(f, t).deleted = FALSE
        /\ Register(f, t).hash = f.hash
    BY <2>2
  <2>5. Register(f, t) # Absent /\ t = Absent
    BY <1>1, <2>3, AbsentIsNoRecord
  <2> QED BY <1>1, <2>3, <2>4, <2>5
<1>2. CASE f = Absent /\ t # Absent
  <2>1. Register(f, t) = [version |-> t, deleted |-> TRUE, hash |-> Absent]
    BY <1>2 DEF Register
  <2>2. Register(f, t) \in Op
    BY <1>2, <2>1 DEF Op, Delete
  <2>3. /\ Register(f, t).version = t
        /\ Register(f, t).deleted = TRUE
        /\ Register(f, t).hash = Absent
    BY <2>1
  <2>4. Register(f, t) # Absent
    BY <2>2, AbsentIsNoRecord
  <2> QED BY <1>2, <2>2, <2>3, <2>4
<1>3. CASE f = Absent /\ t = Absent
  BY <1>3 DEF Register
<1> QED BY <1>1, <1>2, <1>3

\* Both decisions compare the call's version with the version the path shows: a write
\* needs a later one, a delete one that is not earlier.
LEMMA DecisionsOnRegister ==
    ASSUME NEW f \in Meta \cup {Absent}, NEW t \in Version \cup {Absent},
           f = Absent \/ t = Absent,
           NEW m \in Meta \cup Version
    PROVE  LET reg == Register(f, t)
           IN  /\ UpsertAccepted(f, t, m)
                  <=> reg = Absent \/ LaterThan(VersionOf(m), reg.version)
               /\ DeleteAccepted(f, t, m)
                  <=> reg = Absent \/ ~LaterThan(reg.version, VersionOf(m))
<1> DEFINE reg == Register(f, t)
<1>1. /\ reg = Absent <=> f = Absent /\ t = Absent
      /\ f # Absent => reg.version = VersionOf(f)
      /\ t # Absent => reg.version = t
  BY RegisterIsOp
<1>2. VersionOf(m).time = m.time /\ VersionOf(m).peer = m.peer
  BY DEF VersionOf
<1>3. f # Absent => f.time = reg.version.time /\ f.peer = reg.version.peer
  BY <1>1 DEF VersionOf
<1> HIDE DEF reg
<1>4. /\ f # Absent => (LaterThan(m, f) <=> LaterThan(VersionOf(m), reg.version))
      /\ f # Absent => (LaterThan(f, m) <=> LaterThan(reg.version, VersionOf(m)))
      /\ t # Absent => (LaterThan(m, t) <=> LaterThan(VersionOf(m), reg.version))
      /\ t # Absent => (LaterThan(t, m) <=> LaterThan(reg.version, VersionOf(m)))
  BY <1>1, <1>2, <1>3 DEF LaterThan
<1>5. /\ UpsertAccepted(f, t, m) <=> reg = Absent \/ LaterThan(VersionOf(m), reg.version)
      /\ DeleteAccepted(f, t, m) <=> reg = Absent \/ ~LaterThan(reg.version, VersionOf(m))
  BY <1>1, <1>4 DEF UpsertAccepted, DeleteAccepted
<1> QED BY <1>5 DEF reg

\* An accepted write and an accepted delete leave the path showing what outranks what
\* it showed, or, for a delete that is there already, the same.
LEMMA DecisionsAdvance ==
    ASSUME NEW f \in Meta \cup {Absent}, NEW t \in Version \cup {Absent},
           f = Absent \/ t = Absent,
           NEW m \in Meta
    PROVE  LET old == Register(f, t)
               written == Register(m, Absent)
               removed == Register(Absent, VersionOf(m))
           IN  /\ written # Absent /\ removed # Absent
               /\ UpsertAccepted(f, t, m) /\ old # Absent => Outranks(written, old)
               /\ DeleteAccepted(f, t, m) /\ old # Absent => removed = old \/ Outranks(removed, old)
<1> DEFINE old == Register(f, t)
           written == Register(m, Absent)
           removed == Register(Absent, VersionOf(m))
<1>1. VersionOf(m) \in Version /\ VersionOf(m) # Absent /\ m # Absent
  BY AbsentIsNoRecord DEF Meta, Version, VersionOf
<1>2. /\ written # Absent /\ written.version = VersionOf(m) /\ written.deleted = FALSE
      /\ removed # Absent /\ removed.version = VersionOf(m) /\ removed.deleted = TRUE
      /\ removed \in Op
      /\ removed.hash = Absent
  <2>1. written # Absent /\ written.version = VersionOf(m) /\ written.deleted = FALSE
    <3>1. written = [version |-> VersionOf(m), deleted |-> FALSE, hash |-> m.hash]
      BY <1>1 DEF Register
    <3>2. written \in Op
      BY <1>1, <3>1 DEF Op, Write, Meta
    <3>3. written # Absent
      BY <3>2, AbsentIsNoRecord
    <3>4. written.version = VersionOf(m) /\ written.deleted = FALSE
      BY <3>1
    <3> QED BY <3>3, <3>4
  <2>2. /\ removed.version = VersionOf(m) /\ removed.deleted = TRUE /\ removed.hash = Absent
        /\ removed \in Op
    <3>1. removed = [version |-> VersionOf(m), deleted |-> TRUE, hash |-> Absent]
      BY <1>1 DEF Register
    <3> QED BY <1>1, <3>1 DEF Op, Delete
  <2>3. removed # Absent
    BY <2>2, AbsentIsNoRecord
  <2> QED BY <2>1, <2>2, <2>3
<1>3. /\ old # Absent => old \in Op
      /\ old # Absent /\ t # Absent => old.hash = Absent
      /\ old # Absent /\ t = Absent => old.deleted = FALSE
  BY RegisterIsOp
<1>4. /\ UpsertAccepted(f, t, m) <=> old = Absent \/ LaterThan(VersionOf(m), old.version)
      /\ DeleteAccepted(f, t, m) <=> old = Absent \/ ~LaterThan(old.version, VersionOf(m))
  BY DecisionsOnRegister
<1> HIDE DEF old, written, removed
<1>5. UpsertAccepted(f, t, m) /\ old # Absent => Outranks(written, old)
  BY <1>2, <1>4 DEF Outranks
<1>6. ASSUME DeleteAccepted(f, t, m), old # Absent
      PROVE  removed = old \/ Outranks(removed, old)
  <2>1. /\ old.version \in Version /\ old.deleted \in BOOLEAN
        /\ old = [version |-> old.version, deleted |-> old.deleted, hash |-> old.hash]
        /\ removed = [version |-> removed.version, deleted |-> removed.deleted,
                      hash |-> removed.hash]
    BY <1>2, <1>3, <1>6, OpFields
  <2>2. LaterThan(VersionOf(m), old.version) \/ VersionOf(m) = old.version
    BY <1>1, <1>4, <1>6, <2>1, LaterThanOrder
  <2>3. CASE VersionOf(m) = old.version /\ old.deleted = TRUE
    BY <1>2, <1>3, <1>6, <2>1, <2>3
  <2> QED BY <1>2, <2>1, <2>2, <2>3 DEF Outranks
<1> QED BY <1>2, <1>5, <1>6 DEF old, written, removed
====
