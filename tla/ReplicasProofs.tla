---- MODULE ReplicasProofs ----
(***************************************************************************)
(* Theorems about Replicas for every set of peers, paths, times, contents  *)
(* and every bound: the peers' indexes converge, versions stay unique, and *)
(* the maps of each store implement the register of NewestWins.            *)
(*                                                                         *)
(* The inductive invariant says that a register shows an operation its     *)
(* store was given which outranks all others it was given, that stores are *)
(* given only what was sent, and that whoever sent an operation was given  *)
(* it first.  The last is what keeps versions unique: a peer whose store   *)
(* accepts a version has none like it among those it sent before.          *)
(***************************************************************************)
EXTENDS Replicas, FileIndexProofs, TLAPS

\* A store was given nothing that was not sent.
KnownWasSent == \A p \in Peers, x \in Paths : known[p][x] \subseteq sent[x]

\* A peer's own store was given what the peer sent.
OwnOpsKnown == \A x \in Paths : \A op \in sent[x] : op \in known[op.version.peer][x]

\* No path of a store is both a file and a tombstone.
FileOrTombstone ==
    \A p \in Peers, x \in Paths : files[p][x] = Absent \/ tombstones[p][x] = Absent

\* reg is the newest of ops.
IsNewest(reg, ops) ==
    IF ops = {} THEN reg = Absent
    ELSE reg \in ops /\ \A op \in ops : op # reg => Outranks(reg, op)

RegistersNewest == \A p \in Peers, x \in Paths : IsNewest(Shown(p, x), known[p][x])

IInv ==
    /\ TypeOK
    /\ KnownWasSent
    /\ OwnOpsKnown
    /\ FileOrTombstone
    /\ VersionsUnique
    /\ RegistersNewest

----
(* What the merge decisions of FileIndex mean for operations.               *)

\* An operation is never the result of a lookup that finds nothing: its version is one
\* of the records Absent is not.
LEMMA MetaOfOp ==
    ASSUME NEW op \in Op
    PROVE  /\ MetaOf(op).time = op.version.time
           /\ MetaOf(op).peer = op.version.peer
           /\ MetaOf(op).hash = op.hash
           /\ VersionOf(MetaOf(op)) = op.version
           /\ op.version # Absent
           /\ ~op.deleted => MetaOf(op) \in Meta /\ MetaOf(op) # Absent
<1>1. op.version \in Version /\ (~op.deleted => op.hash \in Hashes)
  BY OpFields
<1>2. VersionOf(MetaOf(op)) = op.version
  BY <1>1 DEF VersionOf, MetaOf, Version
<1>3. ~op.deleted => MetaOf(op) \in Meta
  BY <1>1 DEF MetaOf, Meta, Version
<1> QED BY <1>1, <1>2, <1>3, AbsentIsNoRecord DEF MetaOf

\* The decision on op when the path shows reg: UpsertFile and DeleteFile accept what
\* outranks the register, and DeleteFile once more the delete that is there already.
Merge(reg, op) == reg = Absent \/ Outranks(op, reg) \/ (op.deleted /\ op = reg)

\* What UpsertFile and DeleteFile decide from two maps is what one register,
\* ordered by Outranks, would decide: a deletion it already shows is taken once more.
LEMMA AcceptedIsMerge ==
    ASSUME TypeOK, FileOrTombstone, NEW p \in Peers, NEW x \in Paths, NEW op \in Op
    PROVE  Accepted(p, x, op) <=> Merge(Shown(p, x), op)
<1> DEFINE f == files[p][x]
           t == tombstones[p][x]
           reg == Shown(p, x)
<1>1. /\ f \in Meta \cup {Absent} /\ t \in Version \cup {Absent}
      /\ f = Absent \/ t = Absent
      /\ reg = Register(f, t)
  BY DEF TypeOK, FileOrTombstone, Shown
<1> HIDE DEF f, t, reg
<1>2. /\ reg = Absent <=> f = Absent /\ t = Absent
      /\ reg # Absent => reg \in Op
      /\ f # Absent => reg.version = VersionOf(f) /\ reg.deleted = FALSE
      /\ t # Absent => reg.version = t /\ reg.deleted = TRUE /\ reg.hash = Absent
  BY <1>1, RegisterIsOp
<1>3. /\ op.version \in Version
      /\ reg # Absent => reg.version \in Version
      /\ op.deleted => op.hash = Absent
      /\ op = [version |-> op.version, deleted |-> op.deleted, hash |-> op.hash]
      /\ reg # Absent => reg = [version |-> reg.version, deleted |-> reg.deleted, hash |-> reg.hash]
      /\ op.deleted \in BOOLEAN
  BY <1>2, OpFields
<1>4. /\ reg # Absent => \/ LaterThan(op.version, reg.version)
                         \/ LaterThan(reg.version, op.version)
                         \/ op.version = reg.version
      /\ reg # Absent => ~LaterThan(reg.version, reg.version)
      /\ reg # Absent => ~(LaterThan(op.version, reg.version) /\ LaterThan(reg.version, op.version))
  BY <1>3, LaterThanOrder
<1>5. /\ UpsertAccepted(f, t, op.version) <=> reg = Absent \/ LaterThan(op.version, reg.version)
      /\ DeleteAccepted(f, t, op.version) <=> reg = Absent \/ ~LaterThan(reg.version, op.version)
  <2>1. VersionOf(op.version) = op.version
    BY <1>3 DEF VersionOf, Version
  <2> QED BY <2>1, <1>1, <1>3, DecisionsOnRegister
<1>6. CASE op.deleted = TRUE
  <2>1. Accepted(p, x, op) <=> reg = Absent \/ ~LaterThan(reg.version, op.version)
    BY <1>5, <1>6 DEF Accepted, f, t
  <2>2. ASSUME reg # Absent, reg.deleted = TRUE, reg.version = op.version
        PROVE  op = reg
    BY <2>2, <1>1, <1>2, <1>3, <1>6
  <2>3. reg # Absent => reg.deleted \in BOOLEAN
    BY <1>1, <1>2
  <2>4. CASE reg = Absent
    BY <2>1, <2>4 DEF Merge, reg
  <2>5. CASE reg # Absent /\ LaterThan(reg.version, op.version)
    <3>1. ~Outranks(op, reg) /\ op # reg
      BY <2>5, <1>3, <1>4 DEF Outranks
    <3> QED BY <3>1, <2>1, <2>5 DEF Merge, reg
  <2>6. CASE reg # Absent /\ LaterThan(op.version, reg.version)
    BY <2>1, <2>6, <1>4 DEF Merge, Outranks, reg
  <2>7. CASE reg # Absent /\ op.version = reg.version
    <3>1. Outranks(op, reg) \/ op = reg
      BY <2>2, <2>3, <2>7, <1>6 DEF Outranks
    <3> QED BY <3>1, <2>1, <2>7, <1>4, <1>6 DEF Merge, reg
  <2> QED BY <2>4, <2>5, <2>6, <2>7, <1>4
<1>7. CASE op.deleted = FALSE
  <2>1. Accepted(p, x, op) <=> reg = Absent \/ LaterThan(op.version, reg.version)
    BY <1>5, <1>7 DEF Accepted, f, t
  <2>2. reg # Absent => (Outranks(op, reg) <=> LaterThan(op.version, reg.version))
    BY <1>7 DEF Outranks
  <2> QED BY <2>1, <2>2, <1>7 DEF Merge, reg
<1> QED BY <1>3, <1>6, <1>7
----
(* The newest of a set of operations.                                      *)

\* Merging op into the newest of ops gives the newest of ops and op.
LEMMA NewestStep ==
    ASSUME NEW ops \in SUBSET Op, NEW op \in Op, NEW reg, IsNewest(reg, ops),
           \A other \in ops : other.version = op.version /\ other.deleted = op.deleted
                                 => other = op
    PROVE  /\ Merge(reg, op) => IsNewest(op, ops \cup {op})
           /\ ~Merge(reg, op) => IsNewest(reg, ops \cup {op})
<1>1. CASE ops = {}
  BY <1>1 DEF IsNewest, Merge
<1>2. CASE ops # {}
  <2>1. reg \in ops /\ reg \in Op /\ \A n \in ops : n # reg => Outranks(reg, n)
    BY <1>2 DEF IsNewest
  <2>2. reg # Absent
    BY <2>1, AbsentIsNoRecord
  <2>3. ASSUME Outranks(op, reg)  PROVE IsNewest(op, ops \cup {op})
    <3>1. ASSUME NEW n \in ops \cup {op}, n # op  PROVE Outranks(op, n)
      BY <2>1, <2>3, <3>1, OutranksOrder
    <3> QED BY <3>1 DEF IsNewest
  <2>4. ASSUME op = reg  PROVE IsNewest(op, ops \cup {op})
    BY <2>1, <2>4 DEF IsNewest
  <2>5. ASSUME ~Merge(reg, op)  PROVE IsNewest(reg, ops \cup {op})
    <3>1. ~Outranks(op, reg) /\ (op.deleted => op # reg)
      BY <2>5 DEF Merge
    <3>2. op # reg => Outranks(reg, op)
      <4>1. /\ op.version \in Version /\ reg.version \in Version
            /\ op.deleted \in BOOLEAN /\ reg.deleted \in BOOLEAN
        BY <2>1, OpFields
      <4>2. \/ LaterThan(op.version, reg.version) \/ LaterThan(reg.version, op.version)
            \/ op.version = reg.version
        BY <4>1, LaterThanOrder
      <4>3. op.version = reg.version /\ op.deleted = reg.deleted => op = reg
        BY <2>1
      <4> QED BY <3>1, <4>1, <4>2, <4>3 DEF Outranks
    <3> QED BY <2>1, <3>2 DEF IsNewest
  <2> QED BY <2>2, <2>3, <2>4, <2>5 DEF Merge
<1> QED BY <1>1, <1>2

\* A set of operations has at most one newest.
LEMMA NewestUnique ==
    ASSUME NEW ops \in SUBSET Op, NEW a, NEW b, IsNewest(a, ops), IsNewest(b, ops)
    PROVE  a = b
<1>1. CASE ops = {}  BY <1>1 DEF IsNewest
<1>2. CASE ops # {} /\ a # b
  <2>1. a \in Op /\ b \in Op /\ Outranks(a, b) /\ Outranks(b, a)
    BY <1>2 DEF IsNewest
  <2> QED BY <2>1, OutranksOrder
<1> QED BY <1>1, <1>2

----
(* The inductive invariant.                                                *)

\* An accepted call makes op what the path shows and touches no other path or peer.
LEMMA SetRegisterShows ==
    ASSUME TypeOK, NEW p \in Peers, NEW x \in Paths, NEW op \in Op, SetRegister(p, x, op)
    PROVE  /\ files' \in [Peers -> [Paths -> Meta \cup {Absent}]]
           /\ tombstones' \in [Peers -> [Paths -> Version \cup {Absent}]]
           /\ files'[p][x] = Absent \/ tombstones'[p][x] = Absent
           /\ Shown(p, x)' = op
           /\ \A q \in Peers, y \in Paths :
                 q # p \/ y # x => /\ files'[q][y] = files[q][y]
                                  /\ tombstones'[q][y] = tombstones[q][y]
                                  /\ Shown(q, y)' = Shown(q, y)
<1> DEFINE f == IF op.deleted THEN Absent ELSE MetaOf(op)
           t == IF op.deleted THEN op.version ELSE Absent
<1>1. /\ op.version \in Version /\ op.deleted \in BOOLEAN
      /\ op = [version |-> op.version, deleted |-> op.deleted, hash |-> op.hash]
      /\ op.deleted => op.hash = Absent
  BY OpFields
<1>2. /\ VersionOf(MetaOf(op)) = op.version /\ MetaOf(op).hash = op.hash
      /\ op.version # Absent
      /\ ~op.deleted => MetaOf(op) \in Meta /\ MetaOf(op) # Absent
  BY MetaOfOp
<1>3. f \in Meta \cup {Absent} /\ t \in Version \cup {Absent} /\ (f = Absent \/ t = Absent)
  BY <1>1, <1>2
<1>4. Register(f, t) = op
  <2>1. CASE op.deleted = TRUE  BY <1>1, <1>2, <2>1 DEF Register
  <2>2. CASE op.deleted = FALSE  BY <1>1, <1>2, <2>2 DEF Register
  <2> QED BY <1>1, <2>1, <2>2
<1>5. /\ files' = [files EXCEPT ![p][x] = f]
      /\ tombstones' = [tombstones EXCEPT ![p][x] = t]
  BY DEF SetRegister
<1> HIDE DEF f, t
<1>6. /\ files' \in [Peers -> [Paths -> Meta \cup {Absent}]]
      /\ tombstones' \in [Peers -> [Paths -> Version \cup {Absent}]]
      /\ files'[p][x] = f /\ tombstones'[p][x] = t
      /\ \A q \in Peers, y \in Paths :
            q # p \/ y # x => /\ files'[q][y] = files[q][y]
                             /\ tombstones'[q][y] = tombstones[q][y]
  BY <1>3, <1>5 DEF TypeOK
<1> QED BY <1>3, <1>4, <1>6 DEF Shown

\* Giving op to the store of p, which accepts or rejects it, keeps the registers newest.
LEMMA GivenKeepsNewest ==
    ASSUME IInv, NEW p \in Peers, NEW x \in Paths, NEW op \in Op,
           Given(p, x, op),
           IF Accepted(p, x, op) THEN SetRegister(p, x, op) ELSE UNCHANGED <<files, tombstones>>,
           \A other \in known[p][x] :
              other.version = op.version /\ other.deleted = op.deleted => other = op
    PROVE  /\ files' \in [Peers -> [Paths -> Meta \cup {Absent}]]
           /\ tombstones' \in [Peers -> [Paths -> Version \cup {Absent}]]
           /\ known' \in [Peers -> [Paths -> SUBSET Op]]
           /\ known'[p][x] = known[p][x] \cup {op}
           /\ \A q \in Peers, y \in Paths : q # p \/ y # x => known'[q][y] = known[q][y]
           /\ FileOrTombstone'
           /\ RegistersNewest'
<1>1. TypeOK /\ FileOrTombstone /\ RegistersNewest
  BY DEF IInv
<1>2. /\ known' \in [Peers -> [Paths -> SUBSET Op]]
      /\ known'[p][x] = known[p][x] \cup {op}
      /\ \A q \in Peers, y \in Paths : q # p \/ y # x => known'[q][y] = known[q][y]
  BY <1>1 DEF Given, TypeOK
<1>3. Accepted(p, x, op) <=> Merge(Shown(p, x), op)
  BY <1>1, AcceptedIsMerge
<1>4. known[p][x] \in SUBSET Op /\ IsNewest(Shown(p, x), known[p][x])
  BY <1>1 DEF TypeOK, RegistersNewest
<1>5. /\ Merge(Shown(p, x), op) => IsNewest(op, known'[p][x])
      /\ ~Merge(Shown(p, x), op) => IsNewest(Shown(p, x), known'[p][x])
  BY <1>2, <1>4, NewestStep
<1>6. CASE Accepted(p, x, op)
  <2>1. SetRegister(p, x, op)
    BY <1>6
  <2>2. /\ files' \in [Peers -> [Paths -> Meta \cup {Absent}]]
        /\ tombstones' \in [Peers -> [Paths -> Version \cup {Absent}]]
        /\ files'[p][x] = Absent \/ tombstones'[p][x] = Absent
        /\ Shown(p, x)' = op
        /\ \A q \in Peers, y \in Paths :
              q # p \/ y # x => /\ files'[q][y] = files[q][y]
                               /\ tombstones'[q][y] = tombstones[q][y]
                               /\ Shown(q, y)' = Shown(q, y)
    BY <1>1, <2>1, SetRegisterShows
  <2>3. FileOrTombstone'
    BY <1>1, <2>2 DEF FileOrTombstone
  <2>4. ASSUME NEW q \in Peers, NEW y \in Paths
        PROVE  IsNewest(Shown(q, y)', known'[q][y])
    BY <1>1, <1>2, <1>3, <1>5, <1>6, <2>2 DEF RegistersNewest
  <2> QED BY <1>2, <2>2, <2>3, <2>4 DEF RegistersNewest
<1>7. CASE ~Accepted(p, x, op)
  <2>1. UNCHANGED <<files, tombstones>>
    BY <1>7
  <2>2. ASSUME NEW q \in Peers, NEW y \in Paths
        PROVE  IsNewest(Shown(q, y)', known'[q][y])
    BY <1>1, <1>2, <1>3, <1>5, <1>7, <2>1 DEF RegistersNewest, Shown
  <2> QED BY <1>1, <1>2, <2>1, <2>2 DEF RegistersNewest, FileOrTombstone, TypeOK
<1> QED BY <1>6, <1>7

\* Empty stores, nothing sent.
LEMMA InitInv == Init => IInv
<1> SUFFICES ASSUME Init PROVE IInv
  OBVIOUS
<1>1. TypeOK
  BY DEF Init, TypeOK
<1>2. \A p \in Peers, x \in Paths : Shown(p, x) = Absent
  BY DEF Init, Shown, Register
<1> QED BY <1>1, <1>2 DEF Init, IInv, KnownWasSent, OwnOpsKnown, FileOrTombstone,
                          VersionsUnique, RegistersNewest, IsNewest

\* A local change: the version its store accepted is new among those the peer sent.
LEMMA LocalChangeInv ==
    ASSUME IInv, NEW p \in Peers, NEW x \in Paths, NEW op \in Op, LocalChange(p, x, op)
    PROVE  IInv'
<1>1. /\ TypeOK /\ FileOrTombstone /\ RegistersNewest /\ OwnOpsKnown
      /\ KnownWasSent /\ VersionsUnique
  BY DEF IInv
<1>2. /\ op.version.peer = p /\ Accepted(p, x, op) /\ SetRegister(p, x, op)
      /\ sent' = [sent EXCEPT ![x] = @ \cup {op}]
      /\ Given(p, x, op)
  BY DEF LocalChange
<1>3. /\ sent' \in [Paths -> SUBSET Op] /\ sent'[x] = sent[x] \cup {op}
      /\ \A y \in Paths : y # x => sent'[y] = sent[y]
  BY <1>1, <1>2 DEF TypeOK
<1>4. ASSUME NEW other \in sent[x],
             other.version = op.version, other.deleted = op.deleted
      PROVE  other = op
  <2>1. other \in Op /\ other \in known[p][x]
    BY <1>1, <1>2, <1>4 DEF TypeOK, OwnOpsKnown
  <2> DEFINE reg == Shown(p, x)
  <2>2. /\ IsNewest(reg, known[p][x]) /\ known[p][x] \in SUBSET Op
        /\ Merge(reg, op)
    BY <1>1, <1>2, AcceptedIsMerge DEF RegistersNewest, TypeOK
  <2> HIDE DEF reg
  <2>3. reg \in Op /\ reg # Absent /\ (other = reg \/ Outranks(reg, other))
    BY <2>1, <2>2, AbsentIsNoRecord DEF IsNewest
  <2>4. Outranks(op, reg) => Outranks(op, other)
    BY <2>1, <2>3, OutranksOrder
  <2>5. ~LaterThan(op.version, op.version)
    BY OpFields, LaterThanOrder
  <2>6. ~Outranks(op, other)
    BY <1>4, <2>5 DEF Outranks
  <2>7. op = reg
    BY <2>2, <2>3, <2>4, <2>6 DEF Merge
  <2>8. ~Outranks(reg, other)
    BY <2>6, <2>7
  <2> QED BY <2>3, <2>7, <2>8
<1>5. \A other \in known[p][x] :
        other.version = op.version /\ other.deleted = op.deleted => other = op
  BY <1>1, <1>4 DEF KnownWasSent
<1>6. /\ files' \in [Peers -> [Paths -> Meta \cup {Absent}]]
      /\ tombstones' \in [Peers -> [Paths -> Version \cup {Absent}]]
      /\ known' \in [Peers -> [Paths -> SUBSET Op]]
      /\ known'[p][x] = known[p][x] \cup {op}
      /\ \A q \in Peers, y \in Paths : q # p \/ y # x => known'[q][y] = known[q][y]
      /\ FileOrTombstone'
      /\ RegistersNewest'
  BY <1>2, <1>5, GivenKeepsNewest
<1>7. TypeOK'
  BY <1>3, <1>6 DEF TypeOK
<1>8. KnownWasSent'
  BY <1>1, <1>3, <1>6 DEF KnownWasSent
<1>9. OwnOpsKnown'
  <2>1. ASSUME NEW y \in Paths, NEW o \in sent'[y]
        PROVE  o \in known'[o.version.peer][y]
    <3>1. CASE y = x /\ o = op
      BY <1>2, <1>6, <3>1
    <3>2. CASE o \in sent[y]
      <4>1. o \in Op /\ o.version \in Version /\ o.version.peer \in Peers
        BY <1>1, <3>2, OpFields DEF TypeOK, Version
      <4> QED BY <1>1, <1>6, <3>2, <4>1 DEF OwnOpsKnown
    <3> QED BY <1>3, <2>1, <3>1, <3>2
  <2> QED BY <2>1 DEF OwnOpsKnown
<1>10. VersionsUnique'
  <2>1. ASSUME NEW y \in Paths, NEW a \in sent'[y], NEW b \in sent'[y],
               a.version = b.version, a.deleted = b.deleted
        PROVE  a = b
    BY <1>1, <1>3, <1>4, <2>1 DEF VersionsUnique
  <2> QED BY <2>1 DEF VersionsUnique
<1> QED BY <1>6, <1>7, <1>8, <1>9, <1>10 DEF IInv

\* A message applied: what it brings was sent, so its version names one operation.
LEMMA ApplyInv ==
    ASSUME IInv, NEW p \in Peers, NEW x \in Paths, NEW op \in Op, Apply(p, x, op)
    PROVE  IInv'
<1>1. /\ TypeOK /\ OwnOpsKnown /\ KnownWasSent /\ VersionsUnique
  BY DEF IInv
<1>2. op \in sent[x] /\ Given(p, x, op) /\ sent' = sent
  BY DEF Apply
<1>3. \A other \in known[p][x] :
        other.version = op.version /\ other.deleted = op.deleted => other = op
  BY <1>1, <1>2 DEF KnownWasSent, VersionsUnique
<1>4. IF Accepted(p, x, op) THEN SetRegister(p, x, op) ELSE UNCHANGED <<files, tombstones>>
  BY DEF Apply
<1>5. /\ files' \in [Peers -> [Paths -> Meta \cup {Absent}]]
      /\ tombstones' \in [Peers -> [Paths -> Version \cup {Absent}]]
      /\ known' \in [Peers -> [Paths -> SUBSET Op]]
      /\ known'[p][x] = known[p][x] \cup {op}
      /\ \A q \in Peers, y \in Paths : q # p \/ y # x => known'[q][y] = known[q][y]
      /\ FileOrTombstone'
      /\ RegistersNewest'
  BY <1>2, <1>3, <1>4, GivenKeepsNewest
<1>6. TypeOK'
  BY <1>1, <1>2, <1>5 DEF TypeOK
<1>7. KnownWasSent'
  BY <1>1, <1>2, <1>5 DEF KnownWasSent
<1>8. OwnOpsKnown'
  <2>1. ASSUME NEW y \in Paths, NEW o \in sent'[y]
        PROVE  o \in known'[o.version.peer][y]
    <3>1. o \in Op /\ o.version \in Version /\ o.version.peer \in Peers
      BY <1>1, <1>2, <2>1, OpFields DEF TypeOK, Version
    <3> QED BY <1>1, <1>2, <1>5, <2>1, <3>1 DEF OwnOpsKnown
  <2> QED BY <2>1 DEF OwnOpsKnown
<1>9. VersionsUnique'
  BY <1>1, <1>2 DEF VersionsUnique
<1> QED BY <1>5, <1>6, <1>7, <1>8, <1>9 DEF IInv

\* The inductive step: a local change or the merge of an operation, at one peer.
LEMMA StepInv == IInv /\ [Next]_vars => IInv'
<1> SUFFICES ASSUME IInv, [Next]_vars PROVE IInv'
  OBVIOUS
<1>1. CASE Next
  <2>1. PICK p \in Peers, x \in Paths, op \in Op : LocalChange(p, x, op) \/ Apply(p, x, op)
    BY <1>1 DEF Next
  <2> QED BY <2>1, LocalChangeInv, ApplyInv
<1>2. CASE UNCHANGED vars
  BY <1>2 DEF vars, IInv, TypeOK, KnownWasSent, OwnOpsKnown, FileOrTombstone,
              VersionsUnique, RegistersNewest, Shown
<1> QED BY <1>1, <1>2

\* The inductive invariant: among its parts, that each store shows the newest of the
\* operations it knows (RegistersNewest) and never has a path as file and tombstone.
THEOREM Invariance == Spec => []IInv
  BY InitInv, StepInv, PTL DEF Spec

----
(* The theorems.                                                           *)

\* Every reachable state is well typed.
THEOREM TypeCorrect == Spec => []TypeOK
<1>1. IInv => TypeOK
  BY DEF IInv
<1> QED BY <1>1, Invariance, PTL

\* No two broadcasts write different contents under one version.
THEOREM VersionsAreUnique == Spec => []VersionsUnique
<1>1. IInv => VersionsUnique
  BY DEF IInv
<1> QED BY <1>1, Invariance, PTL

\* Stores that were given the same operations on a path hold the same file or the same
\* tombstone there.
THEOREM IndexesConverge == Spec => []StrongConvergence
<1>1. ASSUME IInv  PROVE StrongConvergence
  <2>1. TypeOK /\ FileOrTombstone /\ RegistersNewest
    BY <1>1 DEF IInv
  <2>2. ASSUME NEW p \in Peers, NEW q \in Peers, NEW x \in Paths, known[p][x] = known[q][x]
        PROVE  files[p][x] = files[q][x] /\ tombstones[p][x] = tombstones[q][x]
    <3> DEFINE f == files[p][x]
               g == files[q][x]
               t == tombstones[p][x]
               u == tombstones[q][x]
    <3>1. Shown(p, x) = Shown(q, x)
      <4>1. /\ known[p][x] \in SUBSET Op
            /\ IsNewest(Shown(p, x), known[p][x])
            /\ IsNewest(Shown(q, x), known[p][x])
        BY <2>1, <2>2 DEF TypeOK, RegistersNewest
      <4> QED BY <4>1, NewestUnique
    <3>2. /\ f \in Meta \cup {Absent} /\ t \in Version \cup {Absent}
          /\ f = Absent \/ t = Absent
          /\ g \in Meta \cup {Absent} /\ u \in Version \cup {Absent}
          /\ g = Absent \/ u = Absent
          /\ Register(f, t) = Register(g, u)
      BY <2>1, <3>1 DEF TypeOK, FileOrTombstone, Shown
    <3> HIDE DEF f, g, t, u
    <3>3. /\ Register(f, t) = Absent <=> f = Absent /\ t = Absent
          /\ Register(g, u) = Absent <=> g = Absent /\ u = Absent
          /\ f # Absent => /\ Register(f, t).version = VersionOf(f)
                           /\ Register(f, t).deleted = FALSE
                           /\ Register(f, t).hash = f.hash
          /\ g # Absent => /\ Register(g, u).version = VersionOf(g)
                           /\ Register(g, u).deleted = FALSE
                           /\ Register(g, u).hash = g.hash
          /\ t # Absent => Register(f, t).version = t /\ Register(f, t).deleted = TRUE
          /\ u # Absent => Register(g, u).version = u /\ Register(g, u).deleted = TRUE
      BY <3>2, RegisterIsOp
    <3>4. t = u
      BY <3>2, <3>3
    <3>5. f # Absent => g # Absent /\ VersionOf(f) = VersionOf(g) /\ f.hash = g.hash
      BY <3>2, <3>3
    <3>6. ASSUME f # Absent, g # Absent, VersionOf(f) = VersionOf(g), f.hash = g.hash
          PROVE  f = g
      <4>1. /\ f = [time |-> f.time, peer |-> f.peer, hash |-> f.hash]
            /\ g = [time |-> g.time, peer |-> g.peer, hash |-> g.hash]
        BY <3>2, <3>6 DEF Meta
      <4>2. f.time = g.time /\ f.peer = g.peer
        BY <3>6 DEF VersionOf
      <4> QED BY <3>6, <4>1, <4>2
    <3>7. f = g
      BY <3>2, <3>3, <3>5, <3>6
    <3> QED BY <3>4, <3>7 DEF f, g, t, u
  <2> QED BY <2>2 DEF StrongConvergence
<1> QED BY <1>1, Invariance, PTL
----
(* Replicas implements NewestWins.                                         *)

\* What NewestWins shows for a set of operations is its newest.
LEMMA AbstractNewest ==
    ASSUME NEW ops \in SUBSET Op, NEW reg, IsNewest(reg, ops)
    PROVE  Abstract!Newest(ops) = reg
<1>1. CASE ops = {}
  BY <1>1 DEF Abstract!Newest, IsNewest
<1>2. CASE ops # {}
  <2>1. reg \in ops /\ \A other \in ops : other # reg => Outranks(reg, other)
    BY <1>2 DEF IsNewest
  <2>2. ASSUME NEW a \in ops, \A other \in ops : other # a => Outranks(a, other)
        PROVE  a = reg
    BY <1>2, <2>2, NewestUnique DEF IsNewest
  <2> QED BY <1>2, <2>1, <2>2 DEF Abstract!Newest, Outranks, Abstract!Outranks,
                                   LaterThan, Abstract!LaterThan
<1> QED BY <1>1, <1>2

AbstractShown == [p \in Peers |-> [x \in Paths |-> Shown(p, x)]]

\* A peer whose store is given op comes to know op.
LEMMA GivenKnows ==
    ASSUME IInv, IInv', NEW p \in Peers, NEW x \in Paths, NEW op \in Op,
           Given(p, x, op),
           IF Accepted(p, x, op) THEN SetRegister(p, x, op) ELSE UNCHANGED <<files, tombstones>>
    PROVE  Abstract!Know(p, x, op)
<1>1. TypeOK /\ TypeOK' /\ RegistersNewest'
  BY DEF IInv
<1>2. known' = [known EXCEPT ![p][x] = @ \cup {op}]
  BY DEF Given
<1>3. Abstract!Newest(known'[p][x]) = Shown(p, x)'
  <2>1. known'[p][x] \in SUBSET Op /\ IsNewest(Shown(p, x)', known'[p][x])
    BY <1>1 DEF TypeOK, RegistersNewest
  <2> QED BY <2>1, AbstractNewest
<1>4. ASSUME NEW q \in Peers, NEW y \in Paths, q # p \/ y # x
      PROVE  Shown(q, y)' = Shown(q, y)
  <2>1. CASE Accepted(p, x, op)
    BY <1>1, <1>4, <2>1, SetRegisterShows
  <2>2. CASE ~Accepted(p, x, op)
    BY <2>2 DEF Shown
  <2> QED BY <2>1, <2>2
<1>5. AbstractShown' = [AbstractShown EXCEPT ![p][x] = Shown(p, x)']
  BY <1>4 DEF AbstractShown
<1> QED BY <1>2, <1>3, <1>5 DEF Abstract!Know, AbstractShown

\* Empty stores are registers that know nothing.
LEMMA InitRefines == Init => Abstract!Init
<1> SUFFICES ASSUME Init PROVE Abstract!Init
  OBVIOUS
<1>1. \A p \in Peers, x \in Paths : Shown(p, x) = Absent
  BY DEF Init, Shown, Register
<1> QED BY <1>1 DEF Init, Abstract!Init

\* A local change issues an operation, or repeats the delete the path shows.
LEMMA LocalChangeRefines ==
    ASSUME IInv, IInv', NEW p \in Peers, NEW x \in Paths, NEW op \in Op,
           LocalChange(p, x, op)
    PROVE  [Abstract!Next]_Abstract!vars
<1>1. /\ TypeOK /\ FileOrTombstone /\ RegistersNewest /\ KnownWasSent
      /\ TypeOK' /\ RegistersNewest'
  BY DEF IInv
<1>2. /\ op.version.peer = p /\ Accepted(p, x, op) /\ Given(p, x, op)
      /\ sent' = [sent EXCEPT ![x] = @ \cup {op}]
      /\ SetRegister(p, x, op)
  BY DEF LocalChange
<1>3. Abstract!Know(p, x, op)
  BY <1>2, GivenKnows
<1>4. Merge(Shown(p, x), op)
  BY <1>1, <1>2, AcceptedIsMerge
<1>5. AbstractShown[p][x] = Shown(p, x)
  BY DEF AbstractShown
<1>6. CASE Shown(p, x) = Absent \/ Outranks(op, Shown(p, x))
  <2>1. Abstract!Issue(p, x, op)
    BY <1>2, <1>3, <1>5, <1>6
       DEF Abstract!Issue, AbstractShown, Outranks, Abstract!Outranks,
           LaterThan, Abstract!LaterThan
  <2> QED BY <2>1 DEF Abstract!Next, Abstract!Op, Op, Abstract!Write, Write, Abstract!Delete,
                      Delete, Abstract!Version, Version
<1>7. CASE op = Shown(p, x) /\ Shown(p, x) # Absent
  <2>1. op \in known[p][x]
    BY <1>1, <1>7 DEF RegistersNewest, IsNewest
  <2>2. op \in sent[x]
    BY <1>1, <2>1 DEF KnownWasSent
  <2>3. sent' = sent
    BY <1>1, <1>2, <2>2 DEF TypeOK
  <2>4. Abstract!Learn(p, x, op)
    BY <1>3, <2>2, <2>3 DEF Abstract!Learn
  <2> QED BY <2>4 DEF Abstract!Next, Abstract!Op, Op, Abstract!Write, Write, Abstract!Delete,
                      Delete, Abstract!Version, Version
<1> QED BY <1>4, <1>6, <1>7 DEF Merge

\* Merging an operation is the abstract Learn, or a stutter when it was known.
LEMMA ApplyRefines ==
    ASSUME IInv, IInv', NEW p \in Peers, NEW x \in Paths, NEW op \in Op, Apply(p, x, op)
    PROVE  [Abstract!Next]_Abstract!vars
<1>1. op \in sent[x] /\ Given(p, x, op) /\ sent' = sent
  BY DEF Apply
<1>2. IF Accepted(p, x, op) THEN SetRegister(p, x, op) ELSE UNCHANGED <<files, tombstones>>
  BY DEF Apply
<1>3. Abstract!Know(p, x, op)
  BY <1>1, <1>2, GivenKnows
<1>4. Abstract!Learn(p, x, op)
  BY <1>1, <1>3 DEF Abstract!Learn
<1> QED BY <1>4 DEF Abstract!Next, Abstract!Op, Op, Abstract!Write, Write, Abstract!Delete,
                    Delete, Abstract!Version, Version

\* The file and the tombstone maps of every store implement one register that shows the
\* newest operation the peer knows of.
THEOREM ImplementsNewestWins == Spec => ShowsNewestKnown
<1>1. IInv /\ IInv' /\ [Next]_vars => [Abstract!Next]_Abstract!vars
  <2> SUFFICES ASSUME IInv, IInv', [Next]_vars PROVE [Abstract!Next]_Abstract!vars
    OBVIOUS
  <2>1. CASE Next
    <3>1. PICK p \in Peers, x \in Paths, op \in Op : LocalChange(p, x, op) \/ Apply(p, x, op)
      BY <2>1 DEF Next
    <3> QED BY <3>1, LocalChangeRefines, ApplyRefines
  <2>2. CASE UNCHANGED vars
    BY <2>2 DEF vars, Abstract!vars, Shown
  <2> QED BY <2>1, <2>2
<1> QED BY <1>1, InitRefines, Invariance, PTL DEF Spec, ShowsNewestKnown, Abstract!Spec
====
