---- MODULE StoreProofs ----
(***************************************************************************)
(* Theorems about Store for every set of writers, entries, paths and       *)
(* versions, every capacity of the channel and every bound.  The first     *)
(* part is about what the mutex protects, the second about emit.           *)
(***************************************************************************)
EXTENDS Store, FileIndexProofs, FiniteSetTheorems, SequenceTheorems, TLAPS

\* New returns a store of the right type.
LEMMA TypeInit == Init => TypeOK
<1> SUFFICES ASSUME Init PROVE TypeOK
  OBVIOUS
<1>1. Len(changes) <= ChanCap /\ changes \in Seq(Nat)
  BY ChanCapAssumption DEF Init
<1>2. entries \in Seq(Entries) /\ committed \in Seq(Change) /\ received \in Seq(Nat)
  BY DEF Init
<1> QED BY <1>1, <1>2 DEF Init, TypeOK

\* A mutation under the mutex keeps the channel and the history well typed.
LEMMA CommitType ==
    ASSUME TypeOK, NEW w \in Writers, NEW kind \in Kinds, NEW of \in Entries \cup Paths,
           Commit(w, kind, of)
    PROVE  /\ committed' \in Seq(Change)
           /\ changes' \in Seq(Nat) /\ Len(changes') <= ChanCap
           /\ closed' \in BOOLEAN
           /\ pc' \in [Writers -> {"idle", "send", "evict", "resend"}]
           /\ pending' \in [Writers -> Nat]
           /\ received' \in Seq(Nat)
           /\ dropped' \subseteq Nat
           /\ crowded' \subseteq Writers
           /\ panicked' \in BOOLEAN
<1>1. [kind |-> kind, of |-> of, by |-> w] \in Change
  BY DEF Change
<1>2. committed' \in Seq(Change)
  BY <1>1 DEF Commit, TypeOK
<1>3. Len(committed) + 1 \in Nat
  BY DEF TypeOK
<1>4. pending' \in [Writers -> Nat]
  BY <1>3 DEF Commit, TypeOK
<1> QED BY <1>2, <1>4 DEF Commit, TypeOK

\* What insertion does to a log: e is at pos and what was there has moved up by one.
LEMMA InsertType ==
    ASSUME NEW log \in Seq(Entries), NEW pos \in 1 .. Len(log) + 1, NEW e \in Entries
    PROVE  /\ InsertAtPos(log, pos, e) \in Seq(Entries)
           /\ Len(InsertAtPos(log, pos, e)) = Len(log) + 1
           /\ \A i \in 1 .. Len(log) + 1 :
                 InsertAtPos(log, pos, e)[i] =
                    IF i < pos THEN log[i] ELSE IF i = pos THEN e ELSE log[i - 1]
<1> DEFINE new == InsertAtPos(log, pos, e)
           n == Len(log) + 1
<1>1. n \in Nat /\ Len(log) \in Nat /\ pos \in 1 .. n
  OBVIOUS
<1>2. \A i \in 1 .. n :
         (IF i < pos THEN log[i] ELSE IF i = pos THEN e ELSE log[i - 1]) \in Entries
  OBVIOUS
<1>3. new = [i \in 1 .. n |-> IF i < pos THEN log[i] ELSE IF i = pos THEN e ELSE log[i - 1]]
  BY DEF InsertAtPos
<1>4. new \in [1 .. n -> Entries]
  BY <1>2, <1>3
<1>5. new \in Seq(Entries) /\ Len(new) = n
  BY <1>1, <1>4, LenProperties, IsASeq
<1> QED BY <1>3, <1>5

\* Sending into room, and taking the oldest.
LEMMA ChannelOps ==
    ASSUME NEW s \in Seq(Nat), Len(s) <= ChanCap, NEW n \in Nat
    PROVE  /\ Append(s, n) \in Seq(Nat)
           /\ Len(s) # ChanCap => Len(Append(s, n)) <= ChanCap
           /\ s # <<>> => /\ Tail(s) \in Seq(Nat) /\ Len(Tail(s)) <= ChanCap
                         /\ Head(s) \in Nat
<1>1. Append(s, n) \in Seq(Nat) /\ Len(Append(s, n)) = Len(s) + 1 /\ Len(s) \in Nat
  BY AppendProperties
<1>2. s # <<>> => Tail(s) \in Seq(Nat) /\ Len(Tail(s)) = Len(s) - 1 /\ Head(s) \in Nat
  BY HeadTailProperties
<1> QED BY <1>1, <1>2, ChanCapAssumption

\* Every call, step of emit, receive and Close keeps the types and the capacity.
LEMMA TypeStep == TypeOK /\ [Next]_vars => TypeOK'
<1> SUFFICES ASSUME TypeOK, [Next]_vars PROVE TypeOK'
  OBVIOUS
<1> USE DEF index, history
<1>1. ASSUME NEW w \in Writers, NEW e \in Entries, AppendEntry(w, e)  PROVE TypeOK'
  <2>1. PICK pos \in 1 .. Len(entries) + 1 : entries' = InsertAtPos(entries, pos, e)
    BY <1>1 DEF AppendEntry
  <2>2. entries' \in Seq(Entries)
    BY <2>1, InsertType DEF TypeOK
  <2>3. Commit(w, "entry_appended", e)
    BY <1>1 DEF AppendEntry
  <2> QED BY <1>1, <2>2, <2>3, CommitType DEF AppendEntry, TypeOK, Kinds
<1>2. ASSUME NEW w \in Writers, NEW p \in Paths, NEW meta \in Meta, UpsertFile(w, p, meta)
      PROVE  TypeOK'
  <2>1. Commit(w, "file_upserted", p)
    BY <1>2 DEF UpsertFile
  <2> QED BY <1>2, <2>1, CommitType DEF UpsertFile, TypeOK, Kinds
<1>3. ASSUME NEW w \in Writers, NEW p \in Paths, NEW meta \in Meta, DeleteFile(w, p, meta)
      PROVE  TypeOK'
  <2>1. Commit(w, "file_deleted", p)
    BY <1>3 DEF DeleteFile
  <2>2. VersionOf(meta) \in Version
    BY DEF Meta, Version, VersionOf
  <2> QED BY <1>3, <2>1, <2>2, CommitType DEF DeleteFile, TypeOK, Kinds
<1>4. ASSUME NEW w \in Writers, TrySend(w)  PROVE TypeOK'
  <2>1. changes' \in Seq(Nat) /\ Len(changes') <= ChanCap
    <3>1. changes' = changes \/ (Len(changes) # ChanCap /\ changes' = Append(changes, pending[w]))
      BY <1>4 DEF TrySend, Send, ChannelFull
    <3> QED BY <3>1, ChannelOps DEF TypeOK
  <2>2. pc' \in [Writers -> {"idle", "send", "evict", "resend"}]
    BY <1>4 DEF TrySend, Send, TypeOK
  <2>3. crowded' \subseteq Writers /\ UNCHANGED <<committed, received, dropped>>
    BY <1>4 DEF TrySend, NoteCrowd, TypeOK
  <2> QED BY <1>4, <2>1, <2>2, <2>3 DEF TrySend, TypeOK
<1>5. ASSUME NEW w \in Writers, Evict(w)  PROVE TypeOK'
  <2>1. changes' \in Seq(Nat) /\ Len(changes') <= ChanCap /\ dropped' \subseteq Nat
    <3>1. CASE changes = <<>>
      BY <1>5, <3>1 DEF Evict, TypeOK
    <3>2. CASE changes # <<>>
      <4>1. changes' = Tail(changes) /\ dropped' = dropped \cup {Head(changes)}
        BY <1>5, <3>2 DEF Evict
      <4>2. 0 \in Nat /\ changes \in Seq(Nat) /\ Len(changes) <= ChanCap /\ dropped \subseteq Nat
        BY DEF TypeOK
      <4>3. /\ Tail(changes) \in Seq(Nat) /\ Len(Tail(changes)) <= ChanCap
            /\ Head(changes) \in Nat
        BY <3>2, <4>2, ChannelOps
      <4> QED BY <4>1, <4>2, <4>3
    <3> QED BY <3>1, <3>2
  <2>2. pc' \in [Writers -> {"idle", "send", "evict", "resend"}]
    BY <1>5 DEF Evict, TypeOK
  <2> QED BY <1>5, <2>1, <2>2 DEF Evict, TypeOK
<1>6. ASSUME NEW w \in Writers, Resend(w)  PROVE TypeOK'
  <2>1. changes' \in Seq(Nat) /\ Len(changes') <= ChanCap /\ dropped' \subseteq Nat
    <3>1. \/ changes' = changes /\ dropped' = dropped \cup {pending[w]}
          \/ /\ Len(changes) # ChanCap
             /\ changes' = Append(changes, pending[w])
             /\ dropped' = dropped
      BY <1>6 DEF Resend, Send, ChannelFull
    <3> QED BY <3>1, ChannelOps DEF TypeOK
  <2>2. pc' \in [Writers -> {"idle", "send", "evict", "resend"}]
    BY <1>6 DEF Resend, Send, TypeOK
  <2> QED BY <1>6, <2>1, <2>2 DEF Resend, TypeOK
<1>7. ASSUME NEW w \in Writers, SendOnClosed(w)  PROVE TypeOK'
  BY <1>7 DEF SendOnClosed, TypeOK
<1>8. ASSUME Receive  PROVE TypeOK'
  <2>1. changes # <<>> /\ changes' = Tail(changes) /\ received' = Append(received, Head(changes))
    BY <1>8 DEF Receive
  <2>2. 0 \in Nat /\ changes \in Seq(Nat) /\ Len(changes) <= ChanCap /\ received \in Seq(Nat)
    BY DEF TypeOK
  <2>3. changes' \in Seq(Nat) /\ Len(changes') <= ChanCap /\ Head(changes) \in Nat
    BY <2>1, <2>2, ChannelOps
  <2>4. received' \in Seq(Nat)
    BY <2>1, <2>2, <2>3, AppendProperties
  <2> QED BY <1>8, <2>3, <2>4 DEF Receive, TypeOK
<1>9. ASSUME Close  PROVE TypeOK'
  BY <1>9 DEF Close, TypeOK
<1>10. ASSUME UNCHANGED vars  PROVE TypeOK'
  BY <1>10 DEF vars, TypeOK
<1> QED BY <1>1, <1>2, <1>3, <1>4, <1>5, <1>6, <1>7, <1>8, <1>9, <1>10
        DEF Next, Call, Emit

\* Every reachable state is well typed, and the channel never holds more than its
\* capacity.
THEOREM StoreTypeCorrect == Spec => []TypeOK
  BY TypeInit, TypeStep, PTL DEF Spec

----
(* What the mutex protects.                                                *)

\* emit, the subscriber and Close leave the log and the index alone.
LEMMA EmitLeavesIndex ==
    ASSUME Receive \/ Close \/ \E w \in Writers : Emit(w)
    PROVE  UNCHANGED <<entries, entryIDs, files, tombstones>>
  BY DEF Receive, Close, Emit, TrySend, Evict, Resend, SendOnClosed, index

\* An entry inserted where the first later one was keeps the log sorted, without
\* duplicates and in step with the IDs.
LEMMA AppendEntryKeepsLog ==
    ASSUME TypeOK, LogAgreesWithIDs, NEW w \in Writers, NEW e \in Entries, AppendEntry(w, e)
    PROVE  LogAgreesWithIDs'
<1>1. PICK pos \in 1 .. Len(entries) + 1 :
         InsertionPoint(entries, pos, e) /\ entries' = InsertAtPos(entries, pos, e)
  BY DEF AppendEntry
<1>2. e \notin entryIDs /\ entryIDs' = entryIDs \cup {e} /\ entries \in Seq(Entries)
  BY DEF AppendEntry, TypeOK
<1> DEFINE n == Len(entries)
<1>3. /\ n \in Nat /\ pos \in 1 .. n + 1
      /\ DOMAIN entries = 1 .. n /\ DOMAIN entries' = 1 .. n + 1
      /\ \A i \in 1 .. n + 1 :
            entries'[i] = IF i < pos THEN entries[i] ELSE IF i = pos THEN e ELSE entries[i - 1]
  <2>1. n \in Nat /\ DOMAIN entries = 1 .. n
    BY <1>2, LenProperties
  <2>2. entries' = InsertAtPos(entries, pos, e) /\ pos \in 1 .. n + 1
    BY <1>1
  <2>3. DOMAIN entries' = 1 .. n + 1
    BY <2>2 DEF InsertAtPos
  <2>4. \A i \in 1 .. n + 1 :
           entries'[i] = IF i < pos THEN entries[i] ELSE IF i = pos THEN e ELSE entries[i - 1]
    BY <2>2 DEF InsertAtPos
  <2> QED BY <2>1, <2>2, <2>3, <2>4
<1>4. /\ \A i \in 1 .. n : i >= pos <=> TimeOf[entries[i]] > TimeOf[e]
      /\ \A i \in 1 .. n : TimeOf[entries[i]] \in Nat
      /\ TimeOf[e] \in Nat
  BY <1>1, <1>2, <1>3, TimeOfAssumption DEF InsertionPoint
<1>5. /\ \A i, j \in 1 .. n : i < j => TimeOf[entries[i]] <= TimeOf[entries[j]]
      /\ \A i, j \in 1 .. n : entries[i] = entries[j] => i = j
      /\ {entries[i] : i \in 1 .. n} = entryIDs
      /\ \A i \in 1 .. n : entries[i] # e
  BY <1>2, <1>3 DEF LogAgreesWithIDs
<1> HIDE DEF n
<1>6. ASSUME NEW i \in 1 .. n + 1, NEW j \in 1 .. n + 1, i < j
      PROVE  TimeOf[entries'[i]] <= TimeOf[entries'[j]]
  <2>1. CASE j < pos  BY <1>3, <1>5, <1>6, <2>1
  <2>2. CASE j = pos  BY <1>3, <1>4, <1>6, <2>2
  <2>3. CASE j > pos /\ i = pos
    <3>1. j - 1 \in 1 .. n /\ j - 1 >= pos
      BY <1>3, <2>3
    <3> QED BY <1>3, <1>4, <2>3, <3>1
  <2>4. CASE j > pos /\ i < pos
    <3>1. i \in 1 .. n /\ j - 1 \in 1 .. n /\ (i < j - 1 \/ i = j - 1)
      BY <1>3, <1>6, <2>4
    <3> QED BY <1>3, <1>4, <1>5, <2>4, <3>1
  <2>5. CASE j > pos /\ i > pos
    <3>1. i - 1 \in 1 .. n /\ j - 1 \in 1 .. n /\ i - 1 < j - 1
      BY <1>3, <1>6, <2>5
    <3> QED BY <1>3, <1>5, <2>5, <3>1
  <2> QED BY <1>3, <1>6, <2>1, <2>2, <2>3, <2>4, <2>5
<1>7. ASSUME NEW i \in 1 .. n + 1, NEW j \in 1 .. n + 1, entries'[i] = entries'[j]
      PROVE  i = j
  <2> DEFINE Old(k) == IF k < pos THEN k ELSE k - 1
  <2>1. \A k \in 1 .. n + 1 : k # pos => Old(k) \in 1 .. n /\ entries'[k] = entries[Old(k)]
    BY <1>3
  <2>2. CASE i = pos \/ j = pos
    BY <1>3, <1>5, <1>7, <2>1, <2>2
  <2>3. CASE i # pos /\ j # pos
    <3>1. Old(i) = Old(j)
      BY <1>5, <1>7, <2>1, <2>3
    <3> QED BY <1>3, <2>3, <3>1
  <2> QED BY <2>2, <2>3
<1>8. {entries'[i] : i \in 1 .. n + 1} = entryIDs'
  <2>1. ASSUME NEW i \in 1 .. n + 1  PROVE entries'[i] \in entryIDs'
    BY <1>2, <1>3, <1>5
  <2>2. ASSUME NEW d \in entryIDs'  PROVE \E i \in 1 .. n + 1 : entries'[i] = d
    <3>1. CASE d = e
      BY <1>3, <3>1
    <3>2. CASE d \in entryIDs
      <4>1. PICK k \in 1 .. n : entries[k] = d
        BY <1>5, <3>2
      <4>2. CASE k < pos
        BY <1>3, <4>1, <4>2
      <4>3. CASE k >= pos
        <5>1. k + 1 \in 1 .. n + 1 /\ k + 1 > pos /\ (k + 1) - 1 = k
          BY <1>3, <4>3
        <5>2. entries'[k + 1] = entries[k]
          BY <1>3, <5>1
        <5> QED BY <4>1, <5>1, <5>2
      <4> QED BY <1>3, <4>2, <4>3
    <3> QED BY <1>2, <3>1, <3>2
  <2> QED BY <2>1, <2>2
<1> QED BY <1>3, <1>6, <1>7, <1>8 DEF LogAgreesWithIDs

\* The log is sorted, without duplicates, and agrees with the ID set.
THEOREM LogIsSortedSet == Spec => []LogAgreesWithIDs
<1>1. Init => LogAgreesWithIDs
  BY DEF Init, LogAgreesWithIDs
<1>2. TypeOK /\ LogAgreesWithIDs /\ [Next]_vars => LogAgreesWithIDs'
  <2> SUFFICES ASSUME TypeOK, LogAgreesWithIDs, [Next]_vars PROVE LogAgreesWithIDs'
    OBVIOUS
  <2>1. ASSUME NEW w \in Writers, NEW e \in Entries, AppendEntry(w, e)
        PROVE  LogAgreesWithIDs'
    BY <2>1, AppendEntryKeepsLog
  <2>2. CASE UNCHANGED <<entries, entryIDs>>
    BY <2>2 DEF LogAgreesWithIDs
  <2>3. ASSUME NEW w \in Writers, NEW p \in Paths, NEW meta \in Meta,
               UpsertFile(w, p, meta) \/ DeleteFile(w, p, meta)
        PROVE  UNCHANGED <<entries, entryIDs>>
    BY <2>3 DEF UpsertFile, DeleteFile
  <2>4. UNCHANGED vars => UNCHANGED <<entries, entryIDs>>
    BY DEF vars, index
  <2> QED BY <2>1, <2>2, <2>3, <2>4, EmitLeavesIndex DEF Next, Call
<1> QED BY <1>1, <1>2, StoreTypeCorrect, PTL DEF Spec

\* No path is both a file and a tombstone.
THEOREM NeverFileAndTombstone == Spec => []FileOrTombstone
<1>1. Init => FileOrTombstone
  BY DEF Init, FileOrTombstone
<1>2. TypeOK /\ FileOrTombstone /\ [Next]_vars => FileOrTombstone'
  <2> SUFFICES ASSUME TypeOK, FileOrTombstone, [Next]_vars PROVE FileOrTombstone'
    OBVIOUS
  <2>1. ASSUME NEW w \in Writers, NEW p \in Paths, NEW meta \in Meta,
               UpsertFile(w, p, meta) \/ DeleteFile(w, p, meta)
        PROVE  FileOrTombstone'
    BY <2>1 DEF UpsertFile, DeleteFile, TypeOK, FileOrTombstone
  <2>2. CASE UNCHANGED <<files, tombstones>>
    BY <2>2 DEF FileOrTombstone
  <2>3. ASSUME NEW w \in Writers, NEW e \in Entries, AppendEntry(w, e)
        PROVE  UNCHANGED <<files, tombstones>>
    BY <2>3 DEF AppendEntry
  <2>4. UNCHANGED vars => UNCHANGED <<files, tombstones>>
    BY DEF vars, index
  <2> QED BY <2>1, <2>2, <2>3, <2>4, EmitLeavesIndex DEF Next, Call
<1> QED BY <1>1, <1>2, StoreTypeCorrect, PTL DEF Spec

\* The register of a path is never forgotten and moves only to what outranks it.
THEOREM RegistersOnlyAdvance == Spec => IndexOnlyAdvances
<1> DEFINE Advance == \A p \in Paths :
              Shown(p)' # Shown(p) => Shown(p)' # Absent /\ (Shown(p) # Absent => Outranks(Shown(p)', Shown(p)))
<1>1. TypeOK /\ FileOrTombstone /\ [Next]_vars => Advance
  <2> SUFFICES ASSUME TypeOK, FileOrTombstone, [Next]_vars, NEW p \in Paths, Shown(p)' # Shown(p)
               PROVE  Shown(p)' # Absent /\ (Shown(p) # Absent => Outranks(Shown(p)', Shown(p)))
    OBVIOUS
  <2>1. /\ files[p] \in Meta \cup {Absent} /\ tombstones[p] \in Version \cup {Absent}
        /\ files[p] = Absent \/ tombstones[p] = Absent
    BY DEF TypeOK, FileOrTombstone
  <2>2. ASSUME NEW w \in Writers, NEW q \in Paths, NEW meta \in Meta, UpsertFile(w, q, meta)
        PROVE  Shown(p)' # Absent /\ (Shown(p) # Absent => Outranks(Shown(p)', Shown(p)))
    <3>1. q = p
      BY <2>2 DEF UpsertFile, Shown, TypeOK
    <3>3. files'[p] = meta /\ tombstones'[p] = Absent
      BY <2>2, <3>1 DEF UpsertFile, TypeOK
    <3>2. UpsertAccepted(files[p], tombstones[p], meta)
      BY <2>2, <3>1 DEF UpsertFile
    <3> QED BY <2>1, <3>2, <3>3, DecisionsAdvance DEF Shown
  <2>3. ASSUME NEW w \in Writers, NEW q \in Paths, NEW meta \in Meta, DeleteFile(w, q, meta)
        PROVE  Shown(p)' # Absent /\ (Shown(p) # Absent => Outranks(Shown(p)', Shown(p)))
    <3>1. q = p
      BY <2>3 DEF DeleteFile, Shown, TypeOK
    <3>3. files'[p] = Absent /\ tombstones'[p] = VersionOf(meta)
      BY <2>3, <3>1 DEF DeleteFile, TypeOK
    <3>2. DeleteAccepted(files[p], tombstones[p], meta)
      BY <2>3, <3>1 DEF DeleteFile
    <3> QED BY <2>1, <3>2, <3>3, DecisionsAdvance DEF Shown
  <2>4. ~UNCHANGED <<files, tombstones>>
    BY DEF Shown
  <2>5. ASSUME NEW w \in Writers, NEW e \in Entries, AppendEntry(w, e)
        PROVE  UNCHANGED <<files, tombstones>>
    BY <2>5 DEF AppendEntry
  <2>6. UNCHANGED vars => UNCHANGED <<files, tombstones>>
    BY DEF vars, index
  <2> QED BY <2>2, <2>3, <2>4, <2>5, <2>6, EmitLeavesIndex DEF Next, Call
<1>2. TypeOK /\ FileOrTombstone /\ [Next]_vars => [Advance]_vars
  BY <1>1
<1>3. Spec => [][Advance]_vars
  BY <1>2, StoreTypeCorrect, NeverFileAndTombstone, PTL DEF Spec
<1> QED BY <1>3 DEF IndexOnlyAdvances
----
(* emit: where every change is.                                            *)

InStream(n) == \E i \in DOMAIN Stream : Stream[i] = n
Numbers == 1 .. Len(committed)

\* A change is in the stream once, dropped, or held by the one writer that emits it,
\* and never in two of these places.
Places ==
    /\ \A i \in DOMAIN Stream : Stream[i] \in Numbers /\ Stream[i] \notin dropped
    /\ \A i, j \in DOMAIN Stream : Stream[i] = Stream[j] => i = j
    /\ dropped \subseteq Numbers
    /\ \A w \in Writers : pc[w] # "idle" =>
          pending[w] \in Numbers /\ pending[w] \notin dropped /\ ~InStream(pending[w])
    /\ \A v, w \in Writers :
          pc[v] # "idle" /\ pc[w] # "idle" /\ pending[v] = pending[w] => v = w
    /\ \A n \in Numbers : \/ InStream(n) \/ n \in dropped
                          \/ \E w \in Writers : pc[w] # "idle" /\ pending[w] = n

\* What a writer emits is its latest change.
EmitsLatest ==
    \A w \in Writers : pc[w] # "idle" =>
       /\ committed[pending[w]].by = w
       /\ \A n \in Numbers : committed[n].by = w => n <= pending[w]

EmitInv == Places /\ EmitsLatest /\ WriterOrderKept

\* What was received and then what is in the channel, position by position.
LEMMA Concat ==
    ASSUME NEW r \in Seq(Nat), NEW c \in Seq(Nat)
    PROVE  /\ r \o c \in Seq(Nat) /\ DOMAIN (r \o c) = 1 .. Len(r \o c)
           /\ Len(r \o c) = Len(r) + Len(c) /\ Len(r) \in Nat /\ Len(c) \in Nat
           /\ \A i \in 1 .. Len(r) : (r \o c)[i] = r[i]
           /\ \A i \in 1 .. Len(c) : (r \o c)[Len(r) + i] = c[i]
<1>1. /\ r \o c \in Seq(Nat) /\ Len(r \o c) = Len(r) + Len(c)
      /\ \A i \in 1 .. Len(r) + Len(c) :
            (r \o c)[i] = IF i <= Len(r) THEN r[i] ELSE c[i - Len(r)]
      /\ Len(r) \in Nat /\ Len(c) \in Nat
  BY ConcatProperties, LenProperties
<1>2. ASSUME NEW i \in 1 .. Len(c)  PROVE (r \o c)[Len(r) + i] = c[i]
  <2>1. Len(r) + i \in 1 .. Len(r) + Len(c) /\ ~(Len(r) + i <= Len(r)) /\ (Len(r) + i) - Len(r) = i
    BY <1>1
  <2>2. (r \o c)[Len(r) + i] = c[(Len(r) + i) - Len(r)]
    BY <1>1, <2>1
  <2> QED BY <2>1, <2>2
<1> QED BY <1>1, <1>2, LenProperties

\* A send puts a change at the end of the stream.
LEMMA StreamSend ==
    ASSUME NEW r \in Seq(Nat), NEW c \in Seq(Nat), NEW n \in Nat
    PROVE  LET s == r \o c
               t == r \o Append(c, n)
           IN  /\ DOMAIN s = 1 .. Len(s) /\ DOMAIN t = 1 .. Len(t) /\ Len(s) \in Nat
               /\ Len(t) = Len(s) + 1
               /\ t[Len(s) + 1] = n
               /\ \A i \in 1 .. Len(s) : t[i] = s[i]
<1> DEFINE s == r \o c
           d == Append(c, n)
           t == r \o d
<1>1. /\ d \in Seq(Nat) /\ Len(d) = Len(c) + 1
      /\ \A i \in 1 .. Len(c) : d[i] = c[i]
      /\ d[Len(c) + 1] = n
  BY AppendProperties
<1> HIDE DEF d
<1>2. /\ DOMAIN s = 1 .. Len(s) /\ Len(s) = Len(r) + Len(c) /\ Len(r) \in Nat /\ Len(c) \in Nat
      /\ \A i \in 1 .. Len(r) : s[i] = r[i]
      /\ \A i \in 1 .. Len(c) : s[Len(r) + i] = c[i]
  BY Concat
<1>3. /\ DOMAIN t = 1 .. Len(t) /\ Len(t) = Len(r) + Len(d)
      /\ \A i \in 1 .. Len(r) : t[i] = r[i]
      /\ \A i \in 1 .. Len(d) : t[Len(r) + i] = d[i]
  BY <1>1, Concat
<1> HIDE DEF s, t
<1>4. ASSUME NEW i \in 1 .. Len(s)  PROVE t[i] = s[i]
  <2>1. CASE i \in 1 .. Len(r)
    BY <1>2, <1>3, <2>1
  <2>2. CASE i \notin 1 .. Len(r)
    <3>1. PICK j \in 1 .. Len(c) : i = Len(r) + j
      <4>1. i - Len(r) \in 1 .. Len(c) /\ i = Len(r) + (i - Len(r))
        BY <1>2, <1>4, <2>2
      <4> QED BY <4>1
    <3> QED BY <1>1, <1>2, <1>3, <3>1
  <2> QED BY <2>1, <2>2
<1>5. t[Len(s) + 1] = n
  <2>1. Len(s) + 1 = Len(r) + (Len(c) + 1) /\ Len(c) + 1 \in 1 .. Len(d)
    BY <1>1, <1>2
  <2> QED BY <1>1, <1>3, <2>1
<1>6. Len(t) = Len(s) + 1 /\ Len(s) \in Nat
  BY <1>1, <1>2, <1>3
<1> QED BY <1>2, <1>3, <1>4, <1>5, <1>6 DEF s, t, d

\* An eviction takes one change out of the stream and closes the gap.
LEMMA StreamEvict ==
    ASSUME NEW r \in Seq(Nat), NEW c \in Seq(Nat), c # <<>>
    PROVE  LET s == r \o c
               t == r \o Tail(c)
           IN  \E k \in 1 .. Len(s) :
                  /\ DOMAIN s = 1 .. Len(s) /\ DOMAIN t = 1 .. Len(t) /\ Len(s) \in Nat
                  /\ s[k] = Head(c)
                  /\ Len(t) = Len(s) - 1
                  /\ \A i \in 1 .. Len(t) : t[i] = IF i < k THEN s[i] ELSE s[i + 1]
<1> DEFINE s == r \o c
           d == Tail(c)
           t == r \o d
           k == Len(r) + 1
<1>1. /\ d \in Seq(Nat) /\ Len(d) = Len(c) - 1 /\ Len(c) > 0
      /\ \A i \in 1 .. Len(d) : d[i] = c[i + 1]
      /\ Head(c) = c[1]
  BY HeadTailProperties, EmptySeq, LenProperties
<1> HIDE DEF d
<1>2. /\ DOMAIN s = 1 .. Len(s) /\ Len(s) = Len(r) + Len(c) /\ Len(r) \in Nat /\ Len(c) \in Nat
      /\ \A i \in 1 .. Len(r) : s[i] = r[i]
      /\ \A i \in 1 .. Len(c) : s[Len(r) + i] = c[i]
  BY Concat
<1>3. /\ DOMAIN t = 1 .. Len(t) /\ Len(t) = Len(r) + Len(d)
      /\ \A i \in 1 .. Len(r) : t[i] = r[i]
      /\ \A i \in 1 .. Len(d) : t[Len(r) + i] = d[i]
  BY <1>1, Concat
<1> HIDE DEF s, t
<1>4. k \in 1 .. Len(s) /\ s[k] = Head(c)
  <2>1. 1 \in 1 .. Len(c)
    BY <1>1, <1>2
  <2> QED BY <1>1, <1>2, <2>1
<1>5. ASSUME NEW i \in 1 .. Len(t)  PROVE t[i] = IF i < k THEN s[i] ELSE s[i + 1]
  <2>1. CASE i < k
    <3>1. i \in 1 .. Len(r)
      BY <1>2, <1>5, <2>1
    <3> QED BY <1>2, <1>3, <2>1, <3>1
  <2>2. CASE ~(i < k)
    <3>1. PICK j \in 1 .. Len(d) : i = Len(r) + j
      <4>1. i - Len(r) \in 1 .. Len(d) /\ i = Len(r) + (i - Len(r))
        BY <1>1, <1>2, <1>3, <1>5, <2>2
      <4> QED BY <4>1
    <3>2. t[i] = c[j + 1]
      BY <1>1, <1>3, <3>1
    <3>3. i + 1 = Len(r) + (j + 1) /\ j + 1 \in 1 .. Len(c)
      BY <1>1, <1>2, <3>1
    <3>4. s[i + 1] = c[j + 1]
      BY <1>2, <3>3
    <3> QED BY <2>2, <3>2, <3>4
  <2> QED BY <2>1, <2>2
<1>6. Len(t) = Len(s) - 1 /\ Len(s) \in Nat
  BY <1>1, <1>2, <1>3
<1> HIDE DEF k
<1>7. \E m \in 1 .. Len(s) :
         /\ DOMAIN s = 1 .. Len(s) /\ DOMAIN t = 1 .. Len(t) /\ Len(s) \in Nat
         /\ s[m] = Head(c)
         /\ Len(t) = Len(s) - 1
         /\ \A i \in 1 .. Len(t) : t[i] = IF i < m THEN s[i] ELSE s[i + 1]
  BY <1>2, <1>3, <1>4, <1>5, <1>6
<1> QED BY <1>7 DEF s, t, d

\* A receive moves a change within the stream.
LEMMA StreamReceive ==
    ASSUME NEW r \in Seq(Nat), NEW c \in Seq(Nat), c # <<>>
    PROVE  Append(r, Head(c)) \o Tail(c) = r \o c
<1>1. c = <<Head(c)>> \o Tail(c) /\ Head(c) \in Nat /\ Tail(c) \in Seq(Nat)
  BY HeadTailProperties
<1>2. Append(r, Head(c)) = r \o <<Head(c)>> /\ <<Head(c)>> \in Seq(Nat)
  BY <1>1, AppendIsConcat
<1> QED BY <1>1, <1>2, ConcatAssociative

\* What a state-changing step may assume of the stream.
LEMMA StreamType ==
    ASSUME TypeOK
    PROVE  /\ received \in Seq(Nat) /\ changes \in Seq(Nat)
           /\ Len(committed) \in Nat
           /\ DOMAIN Stream = 1 .. Len(Stream) /\ Len(Stream) \in Nat
<1>1. received \in Seq(Nat) /\ changes \in Seq(Nat) /\ committed \in Seq(Change)
  BY DEF TypeOK
<1> QED BY <1>1, Concat, LenProperties DEF Stream

\* The parts of the stream's bookkeeping that a send moves.
LEMMA SendStep ==
    ASSUME TypeOK, EmitInv, NEW w \in Writers, pc[w] # "idle", Send(w),
           UNCHANGED <<pending, committed, received, dropped>>
    PROVE  EmitInv'
<1> DEFINE s == Stream
           t == Stream'
           n == pending[w]
<1>1. /\ DOMAIN s = 1 .. Len(s) /\ DOMAIN t = 1 .. Len(t) /\ Len(s) \in Nat
      /\ Len(t) = Len(s) + 1
      /\ t[Len(s) + 1] = n
      /\ \A i \in 1 .. Len(s) : t[i] = s[i]
  <2>1. received \in Seq(Nat) /\ changes \in Seq(Nat) /\ n \in Nat
    BY DEF TypeOK
  <2> QED BY <2>1, StreamSend DEF Send, Stream
<1>2. /\ n \in Numbers /\ n \notin dropped /\ \A i \in DOMAIN s : s[i] # n
      /\ \A i \in DOMAIN s : s[i] \in Numbers /\ s[i] \notin dropped
      /\ \A i, j \in DOMAIN s : s[i] = s[j] => i = j
  BY DEF EmitInv, Places, InStream
<1>3. \A i \in DOMAIN t : (i \in DOMAIN s /\ t[i] = s[i]) \/ (i = Len(s) + 1 /\ t[i] = n)
  BY <1>1
<1>4. \A v \in Writers : pc'[v] # "idle" => v # w /\ pc[v] # "idle" /\ pc'[v] = pc[v]
  BY DEF Send, TypeOK
<1>5. pending' = pending /\ committed' = committed /\ dropped' = dropped /\ Numbers' = Numbers
  BY DEF Numbers
<1> HIDE DEF s, t, n
<1>6. Places'
  <2>1. \A i \in DOMAIN t : t[i] \in Numbers /\ t[i] \notin dropped
    BY <1>2, <1>3
  <2>2. \A i, j \in DOMAIN t : t[i] = t[j] => i = j
    BY <1>2, <1>3
  <2>3. dropped \subseteq Numbers
    BY DEF EmitInv, Places
  <2>4. \A v \in Writers : pc'[v] # "idle" =>
           pending[v] \in Numbers /\ pending[v] \notin dropped /\ \A i \in DOMAIN t : t[i] # pending[v]
    <3> SUFFICES ASSUME NEW v \in Writers, pc'[v] # "idle"
                 PROVE  /\ pending[v] \in Numbers /\ pending[v] \notin dropped
                        /\ \A i \in DOMAIN t : t[i] # pending[v]
      OBVIOUS
    <3>1. pc[v] # "idle" /\ v # w
      BY <1>4
    <3>2. /\ pending[v] \in Numbers /\ pending[v] \notin dropped
          /\ \A i \in DOMAIN s : s[i] # pending[v]
      BY <3>1 DEF EmitInv, Places, InStream, s
    <3>3. pending[v] # n
      BY <3>1 DEF EmitInv, Places, n
    <3> QED BY <1>3, <3>2, <3>3
  <2>5. \A u, v \in Writers :
           pc'[u] # "idle" /\ pc'[v] # "idle" /\ pending[u] = pending[v] => u = v
    BY <1>4 DEF EmitInv, Places
  <2>6. \A m \in Numbers : \/ \E i \in DOMAIN t : t[i] = m
                           \/ m \in dropped
                           \/ \E v \in Writers : pc'[v] # "idle" /\ pending[v] = m
    <3> SUFFICES ASSUME NEW m \in Numbers
                 PROVE  \/ \E i \in DOMAIN t : t[i] = m
                        \/ m \in dropped
                        \/ \E v \in Writers : pc'[v] # "idle" /\ pending[v] = m
      OBVIOUS
    <3>1. CASE \E i \in DOMAIN s : s[i] = m
      BY <1>1, <3>1
    <3>2. CASE m = n
      BY <1>1, <3>2
    <3>3. CASE \E v \in Writers : pc[v] # "idle" /\ pending[v] = m /\ v # w
      BY <3>3 DEF Send, TypeOK
    <3> QED BY <3>1, <3>2, <3>3 DEF EmitInv, Places, InStream, s, n
  <2> QED BY <1>5, <2>1, <2>2, <2>3, <2>4, <2>5, <2>6 DEF Places, InStream, t
<1>7. EmitsLatest'
  BY <1>4, <1>5 DEF EmitInv, EmitsLatest
<1>8. WriterOrderKept'
  <2> SUFFICES ASSUME NEW i \in DOMAIN t, NEW j \in DOMAIN t, i < j,
                      committed[t[i]].by = committed[t[j]].by
               PROVE  t[i] < t[j]
    BY <1>5 DEF WriterOrderKept, t
  <2>1. i \in DOMAIN s /\ t[i] = s[i]
    BY <1>1, <1>3
  <2>2. CASE j \in DOMAIN s /\ t[j] = s[j]
    BY <2>1, <2>2 DEF EmitInv, WriterOrderKept, s
  <2>3. CASE t[j] = n
    <3>1. s[i] \in Numbers /\ s[i] # n /\ n \in Numbers
      BY <1>2, <2>1
    <3>2. committed[n].by = w
      BY DEF EmitInv, EmitsLatest, n
    <3>3. s[i] <= n
      BY <2>1, <2>3, <3>1, <3>2 DEF EmitInv, EmitsLatest, n
    <3>4. s[i] \in Int /\ n \in Int
      BY <3>1 DEF Numbers
    <3> QED BY <2>1, <2>3, <3>1, <3>3, <3>4
  <2> QED BY <1>3, <2>2, <2>3
<1> QED BY <1>6, <1>7, <1>8 DEF EmitInv

\* A step that leaves the stream as it is, and gives up at most the change being emitted.
LEMMA SkipStep ==
    ASSUME TypeOK, EmitInv, NEW w \in Writers, pc[w] # "idle",
           Stream' = Stream, UNCHANGED <<pending, committed>>,
           \/ pc' = [pc EXCEPT ![w] = "evict"] /\ UNCHANGED dropped
           \/ pc' = [pc EXCEPT ![w] = "resend"] /\ UNCHANGED dropped
           \/ pc' = [pc EXCEPT ![w] = "idle"] /\ dropped' = dropped \cup {pending[w]}
    PROVE  EmitInv'
<1>2. Numbers' = Numbers /\ pending' = pending /\ committed' = committed /\ Stream' = Stream
      /\ \A m : InStream(m)' <=> InStream(m)
  BY DEF Numbers, InStream
<1>3. \A v \in Writers : pc'[v] # "idle" => pc[v] # "idle"
  BY DEF TypeOK
<1>4. Places'
  <2>1. CASE dropped' = dropped /\ pc'[w] # "idle"
    <3>1. \A v \in Writers : pc[v] # "idle" => pc'[v] # "idle"
      BY <2>1 DEF TypeOK
    <3> QED BY <1>2, <1>3, <2>1, <3>1 DEF EmitInv, Places
  <2>2. CASE pc' = [pc EXCEPT ![w] = "idle"] /\ dropped' = dropped \cup {pending[w]}
    <3>1. \A v \in Writers : pc'[v] # "idle" => v # w /\ pending[v] # pending[w]
      BY <1>3, <2>2 DEF EmitInv, Places, TypeOK
    <3>2. \A v \in Writers : pc[v] # "idle" /\ v # w => pc'[v] # "idle"
      BY <2>2 DEF TypeOK
    <3>3. pending[w] \in Numbers /\ ~InStream(pending[w])
      BY DEF EmitInv, Places
    <3>4. \A i \in DOMAIN Stream : Stream[i] \in Numbers /\ Stream[i] \notin dropped'
      BY <2>2, <3>3 DEF EmitInv, Places, InStream
    <3>5. dropped' \subseteq Numbers
      BY <2>2, <3>3 DEF EmitInv, Places
    <3>6. \A v \in Writers : pc'[v] # "idle" =>
             pending[v] \in Numbers /\ pending[v] \notin dropped' /\ ~InStream(pending[v])
      BY <1>3, <2>2, <3>1 DEF EmitInv, Places
    <3>7. \A m \in Numbers : \/ InStream(m) \/ m \in dropped'
                             \/ \E v \in Writers : pc'[v] # "idle" /\ pending[v] = m
      BY <2>2, <3>2 DEF EmitInv, Places
    <3>8. /\ \A i, j \in DOMAIN Stream : Stream[i] = Stream[j] => i = j
          /\ \A u, v \in Writers :
                pc'[u] # "idle" /\ pc'[v] # "idle" /\ pending[u] = pending[v] => u = v
      BY <1>3 DEF EmitInv, Places
    <3> QED BY <1>2, <3>4, <3>5, <3>6, <3>7, <3>8 DEF Places
  <2> QED BY <2>1, <2>2 DEF TypeOK
<1>5. EmitsLatest'
  BY <1>2, <1>3 DEF EmitInv, EmitsLatest
<1>6. WriterOrderKept'
  BY <1>2 DEF EmitInv, WriterOrderKept
<1> QED BY <1>4, <1>5, <1>6 DEF EmitInv

\* An eviction moves the oldest change of the channel from the stream to the dropped.
LEMMA EvictStep ==
    ASSUME TypeOK, EmitInv, NEW w \in Writers, pc[w] = "evict",
           pc' = [pc EXCEPT ![w] = "resend"],
           changes # <<>>, changes' = Tail(changes), dropped' = dropped \cup {Head(changes)},
           UNCHANGED <<pending, committed, received>>
    PROVE  EmitInv'
<1> DEFINE s == Stream
           t == Stream'
           h == Head(changes)
<1>1. PICK k \in 1 .. Len(s) :
         /\ DOMAIN s = 1 .. Len(s) /\ DOMAIN t = 1 .. Len(t) /\ Len(s) \in Nat
         /\ s[k] = h
         /\ Len(t) = Len(s) - 1
         /\ \A i \in 1 .. Len(t) : t[i] = IF i < k THEN s[i] ELSE s[i + 1]
  <2>1. received \in Seq(Nat) /\ changes \in Seq(Nat)
    BY DEF TypeOK
  <2> QED BY <2>1, StreamEvict DEF Stream
<1>2. /\ \A i \in DOMAIN s : s[i] \in Numbers /\ s[i] \notin dropped
      /\ \A i, j \in DOMAIN s : s[i] = s[j] => i = j
  BY DEF EmitInv, Places
<1>3. /\ pending' = pending /\ committed' = committed /\ Numbers' = Numbers
      /\ dropped' = dropped \cup {h}
      /\ \A v \in Writers : pc'[v] # "idle" <=> pc[v] # "idle"
  BY DEF Numbers, TypeOK
<1> HIDE DEF s, t, h
<1> DEFINE g(i) == IF i < k THEN i ELSE i + 1
<1>5. \A i \in DOMAIN t : g(i) \in DOMAIN s /\ g(i) # k /\ t[i] = s[g(i)]
  BY <1>1
<1>6. \A i, j \in DOMAIN t : (g(i) = g(j) => i = j) /\ (i < j => g(i) < g(j))
  BY <1>1
<1>7. \A i \in DOMAIN s : i # k => \E j \in DOMAIN t : t[j] = s[i]
  <2> SUFFICES ASSUME NEW i \in DOMAIN s, i # k  PROVE \E j \in DOMAIN t : t[j] = s[i]
    OBVIOUS
  <2>1. CASE i < k
    BY <1>1, <2>1
  <2>2. CASE i > k
    <3>1. i - 1 \in DOMAIN t /\ ~(i - 1 < k) /\ (i - 1) + 1 = i
      BY <1>1, <2>2
    <3> QED BY <1>1, <3>1
  <2> QED BY <1>1, <2>1, <2>2
<1> HIDE DEF g
<1>8. Places'
  <2>1. \A i \in DOMAIN t : t[i] \in Numbers /\ t[i] \notin dropped'
    BY <1>1, <1>2, <1>3, <1>5
  <2>2. \A i, j \in DOMAIN t : t[i] = t[j] => i = j
    BY <1>2, <1>5, <1>6
  <2>3. dropped' \subseteq Numbers
    BY <1>1, <1>2, <1>3 DEF EmitInv, Places
  <2>4. \A v \in Writers : pc'[v] # "idle" =>
           pending[v] \in Numbers /\ pending[v] \notin dropped' /\ \A i \in DOMAIN t : t[i] # pending[v]
    <3> SUFFICES ASSUME NEW v \in Writers, pc[v] # "idle"
                 PROVE  /\ pending[v] \in Numbers /\ pending[v] \notin dropped'
                        /\ \A i \in DOMAIN t : t[i] # pending[v]
      BY <1>3
    <3>1. /\ pending[v] \in Numbers /\ pending[v] \notin dropped
          /\ \A i \in DOMAIN s : s[i] # pending[v]
      BY DEF EmitInv, Places, InStream, s
    <3> QED BY <1>1, <1>3, <1>5, <3>1
  <2>5. \A u, v \in Writers :
           pc'[u] # "idle" /\ pc'[v] # "idle" /\ pending[u] = pending[v] => u = v
    BY <1>3 DEF EmitInv, Places
  <2>6. \A m \in Numbers : \/ \E i \in DOMAIN t : t[i] = m
                           \/ m \in dropped'
                           \/ \E v \in Writers : pc'[v] # "idle" /\ pending[v] = m
    <3> SUFFICES ASSUME NEW m \in Numbers
                 PROVE  \/ \E i \in DOMAIN t : t[i] = m
                        \/ m \in dropped'
                        \/ \E v \in Writers : pc[v] # "idle" /\ pending[v] = m
      BY <1>3
    <3>1. \/ \E i \in DOMAIN s : s[i] = m
          \/ m \in dropped
          \/ \E v \in Writers : pc[v] # "idle" /\ pending[v] = m
      BY DEF EmitInv, Places, InStream, s
    <3> QED BY <1>1, <1>3, <1>7, <3>1
  <2> QED BY <1>3, <2>1, <2>2, <2>3, <2>4, <2>5, <2>6 DEF Places, InStream, t
<1>9. EmitsLatest'
  BY <1>3 DEF EmitInv, EmitsLatest
<1>10. WriterOrderKept'
  <2>1. \A i, j \in DOMAIN s : i < j /\ committed[s[i]].by = committed[s[j]].by => s[i] < s[j]
    BY DEF EmitInv, WriterOrderKept, s
  <2>2. \A i, j \in DOMAIN t : i < j /\ committed[t[i]].by = committed[t[j]].by => t[i] < t[j]
    BY <1>5, <1>6, <2>1
  <2> QED BY <1>3, <2>2 DEF WriterOrderKept, t
<1> QED BY <1>8, <1>9, <1>10 DEF EmitInv

\* The next change is with the writer that made it, and with nobody else.
LEMMA CommitStep ==
    ASSUME TypeOK, EmitInv, NEW w \in Writers, pc[w] = "idle",
           NEW kind, NEW of, Commit(w, kind, of)
    PROVE  EmitInv'
<1> DEFINE n == Len(committed) + 1
           c == [kind |-> kind, of |-> of, by |-> w]
<1>1. /\ Len(committed) \in Nat /\ Len(committed') = n
      /\ \A i \in 1 .. Len(committed) : committed'[i] = committed[i]
      /\ committed'[n] = c
  <2>1. committed \in Seq(Change) /\ committed' = Append(committed, c)
    BY DEF TypeOK, Commit
  <2>2. committed \in Seq(Change \cup {c}) /\ c \in Change \cup {c}
    BY <2>1
  <2> QED BY <2>1, <2>2, AppendProperties, LenProperties
<1>2. /\ Stream' = Stream /\ dropped' = dropped
      /\ \A m : InStream(m)' <=> InStream(m)
  BY DEF Commit, Stream, InStream
<1>3. Numbers' = Numbers \cup {n} /\ n \notin Numbers /\ n \in Nat
  BY <1>1 DEF Numbers
<1>4. committed'[n].by = w
  BY <1>1
<1> HIDE DEF n, c
<1>5. /\ pc'[w] = "send" /\ pending'[w] = n
      /\ \A v \in Writers : v # w => pc'[v] = pc[v] /\ pending'[v] = pending[v]
  BY DEF Commit, TypeOK, n
<1>6. \A m \in Numbers : committed'[m] = committed[m]
  BY <1>1 DEF Numbers
<1>7. n \notin dropped /\ ~InStream(n)
  BY <1>3 DEF EmitInv, Places, InStream
<1>8. Places'
  <2>1. \A i \in DOMAIN Stream : Stream[i] \in Numbers' /\ Stream[i] \notin dropped
    BY <1>3 DEF EmitInv, Places
  <2>2. \A i, j \in DOMAIN Stream : Stream[i] = Stream[j] => i = j
    BY DEF EmitInv, Places
  <2>3. dropped \subseteq Numbers'
    BY <1>3 DEF EmitInv, Places
  <2>4. \A v \in Writers : pc'[v] # "idle" =>
           pending'[v] \in Numbers' /\ pending'[v] \notin dropped /\ ~InStream(pending'[v])
    BY <1>3, <1>5, <1>7 DEF EmitInv, Places
  <2>5. \A u, v \in Writers :
           pc'[u] # "idle" /\ pc'[v] # "idle" /\ pending'[u] = pending'[v] => u = v
    BY <1>3, <1>5 DEF EmitInv, Places
  <2>6. \A m \in Numbers' : \/ InStream(m) \/ m \in dropped
                            \/ \E v \in Writers : pc'[v] # "idle" /\ pending'[v] = m
    <3> SUFFICES ASSUME NEW m \in Numbers'
                 PROVE  \/ InStream(m) \/ m \in dropped
                        \/ \E v \in Writers : pc'[v] # "idle" /\ pending'[v] = m
      OBVIOUS
    <3>1. CASE m = n
      BY <1>5, <3>1
    <3>2. CASE m \in Numbers
      <4>1. \/ InStream(m) \/ m \in dropped
            \/ \E v \in Writers : pc[v] # "idle" /\ pending[v] = m
        BY <3>2 DEF EmitInv, Places
      <4>2. \A v \in Writers : pc[v] # "idle" => v # w
        OBVIOUS
      <4> QED BY <1>5, <4>1, <4>2
    <3> QED BY <1>3, <3>1, <3>2
  <2> QED BY <1>2, <2>1, <2>2, <2>3, <2>4, <2>5, <2>6 DEF Places
<1>9. EmitsLatest'
  <2> SUFFICES ASSUME NEW v \in Writers, pc'[v] # "idle"
               PROVE  /\ committed'[pending'[v]].by = v
                      /\ \A m \in Numbers' : committed'[m].by = v => m <= pending'[v]
    BY DEF EmitsLatest
  <2>1. CASE v = w
    <3>1. \A m \in Numbers' : m <= n
      BY <1>1, <1>3 DEF Numbers, n
    <3> QED BY <1>4, <1>5, <2>1, <3>1
  <2>2. CASE v # w
    <3>1. pending'[v] = pending[v] /\ pc[v] # "idle"
      BY <1>5, <2>2
    <3>2. pending[v] \in Numbers
      BY <3>1 DEF EmitInv, Places
    <3>3. /\ committed[pending[v]].by = v
          /\ \A m \in Numbers : committed[m].by = v => m <= pending[v]
      BY <3>1 DEF EmitInv, EmitsLatest
    <3>4. committed'[n].by # v
      BY <1>4, <2>2
    <3> QED BY <1>3, <1>6, <3>1, <3>2, <3>3, <3>4
  <2> QED BY <2>1, <2>2
<1>10. WriterOrderKept'
  <2>1. \A i \in DOMAIN Stream : committed'[Stream[i]] = committed[Stream[i]]
    BY <1>6 DEF EmitInv, Places
  <2> QED BY <1>2, <2>1 DEF EmitInv, WriterOrderKept
<1> QED BY <1>8, <1>9, <1>10 DEF EmitInv

\* A new store has changed nothing and emitted nothing.
LEMMA EmitInit == Init => EmitInv
<1> SUFFICES ASSUME Init PROVE EmitInv
  OBVIOUS
<1>1. Len(committed) = 0 /\ Numbers = {} /\ dropped = {} /\ \A w \in Writers : pc[w] = "idle"
  <2>1. Len(committed) = 0
    BY EmptySeq DEF Init
  <2> QED BY <2>1 DEF Init, Numbers
<1>2. DOMAIN Stream = {}
  <2>1. TypeOK
    BY TypeInit
  <2>2. Len(Stream) = Len(received) + Len(changes)
    BY <2>1, StreamType, Concat DEF Stream
  <2>3. Len(received) = 0 /\ Len(changes) = 0
    BY EmptySeq DEF Init
  <2> QED BY <2>1, <2>2, <2>3, StreamType
<1> QED BY <1>1, <1>2
        DEF EmitInv, Places, EmitsLatest, WriterOrderKept

\* One case for each action of the store.
LEMMA EmitStep == TypeOK /\ EmitInv /\ [Next]_vars => EmitInv'
<1> SUFFICES ASSUME TypeOK, EmitInv, [Next]_vars PROVE EmitInv'
  OBVIOUS
<1>1. ASSUME NEW w \in Writers, NEW e \in Entries, AppendEntry(w, e)  PROVE EmitInv'
  BY <1>1, CommitStep DEF AppendEntry
<1>2. ASSUME NEW w \in Writers, NEW p \in Paths, NEW meta \in Meta, UpsertFile(w, p, meta)
      PROVE EmitInv'
  BY <1>2, CommitStep DEF UpsertFile
<1>3. ASSUME NEW w \in Writers, NEW p \in Paths, NEW meta \in Meta, DeleteFile(w, p, meta)
      PROVE EmitInv'
  BY <1>3, CommitStep DEF DeleteFile
<1>4. ASSUME NEW w \in Writers, TrySend(w)  PROVE EmitInv'
  <2>1. CASE Send(w)
    BY <1>4, <2>1, SendStep DEF TrySend, NoteCrowd
  <2>2. CASE ChannelFull /\ pc' = [pc EXCEPT ![w] = "evict"] /\ UNCHANGED changes
    BY <1>4, <2>2, SkipStep DEF TrySend, NoteCrowd, Stream
  <2> QED BY <1>4, <2>1, <2>2 DEF TrySend
<1>5. ASSUME NEW w \in Writers, Evict(w)  PROVE EmitInv'
  <2>1. CASE changes # <<>> /\ changes' = Tail(changes) /\ dropped' = dropped \cup {Head(changes)}
    BY <1>5, <2>1, EvictStep DEF Evict
  <2>2. CASE changes = <<>> /\ UNCHANGED <<changes, dropped>>
    BY <1>5, <2>2, SkipStep DEF Evict, Stream
  <2> QED BY <1>5, <2>1, <2>2 DEF Evict
<1>6. ASSUME NEW w \in Writers, Resend(w)  PROVE EmitInv'
  <2>1. CASE Send(w) /\ UNCHANGED dropped
    BY <1>6, <2>1, SendStep DEF Resend
  <2>2. CASE /\ ChannelFull /\ dropped' = dropped \cup {pending[w]}
             /\ pc' = [pc EXCEPT ![w] = "idle"] /\ UNCHANGED changes
    BY <1>6, <2>2, SkipStep DEF Resend, Stream
  <2> QED BY <1>6, <2>1, <2>2 DEF Resend
<1>7. ASSUME UNCHANGED <<Stream, pc, pending, committed, dropped>>  PROVE EmitInv'
  BY <1>7 DEF EmitInv, Places, EmitsLatest, WriterOrderKept, Numbers, InStream
<1>8. CASE Receive
  <2>1. Stream' = Stream
    BY <1>8, StreamReceive, StreamType DEF Receive, Stream
  <2> QED BY <1>7, <1>8, <2>1 DEF Receive
<1>9. ASSUME NEW w \in Writers, SendOnClosed(w)  PROVE EmitInv'
  BY <1>7, <1>9 DEF SendOnClosed, history, Stream
<1>10. CASE Close
  BY <1>7, <1>10 DEF Close, history, Stream
<1>11. CASE UNCHANGED vars
  BY <1>7, <1>11 DEF vars, history, Stream
<1> QED BY <1>1, <1>2, <1>3, <1>4, <1>5, <1>6, <1>8, <1>9, <1>10, <1>11
        DEF Next, Call, Emit

\* The inductive invariant of emit (store.go:230-245): every change is in exactly one
\* place, and what a writer still holds is newer than all of its that were sent.
THEOREM EmitInvariant == Spec => []EmitInv
<1>1. Init => EmitInv
  BY EmitInit
<1>2. TypeOK /\ EmitInv /\ [Next]_vars => EmitInv'
  BY EmitStep
<1> QED BY <1>1, <1>2, StoreTypeCorrect, PTL DEF Spec

\* The three operations of emit, however they interleave, neither duplicate a change
\* nor lose one without dropping it.
THEOREM ChangesInOnePlace == Spec => []EachChangeInOnePlace
<1>1. EmitInv => EachChangeInOnePlace
  <2> SUFFICES ASSUME EmitInv, NEW n \in 1 .. Len(committed)
               PROVE  /\ \A i, j \in DOMAIN Stream : Stream[i] = n /\ Stream[j] = n => i = j
                      /\ \A v, w \in EmittersOf(n) : v = w
                      /\ InStream(n) => n \notin dropped
                      /\ EmittersOf(n) # {} <=> ~InStream(n) /\ n \notin dropped
    BY DEF EachChangeInOnePlace, InStream
  <2>1. n \in Numbers
    BY DEF Numbers
  <2>2. EmittersOf(n) # {} => ~InStream(n) /\ n \notin dropped
    BY DEF EmittersOf, EmitInv, Places
  <2>3. ~InStream(n) /\ n \notin dropped => EmittersOf(n) # {}
    BY <2>1 DEF EmittersOf, EmitInv, Places
  <2> QED BY <2>2, <2>3 DEF EmitInv, Places, EmittersOf, InStream
<1> QED BY <1>1, EmitInvariant, PTL

\* Eviction never reorders what one writer did.
THEOREM WritersKeepTheirOrder == Spec => []WriterOrderKept
<1>1. EmitInv => WriterOrderKept
  BY DEF EmitInv
<1> QED BY <1>1, EmitInvariant, PTL

----
(* emit: how many changes are where.                                       *)

Busy == {w \in Writers : pc[w] # "idle"}

\* Every change is in the stream, dropped or with a writer.
CountInv ==
    /\ IsFiniteSet(Busy) /\ IsFiniteSet(dropped)
    /\ Len(committed) = Len(received) + Len(changes) + Cardinality(dropped) + Cardinality(Busy)

\* What moving one writer to another place of emit does to the busy ones.
LEMMA WriterMoves ==
    ASSUME TypeOK, CountInv, NEW w \in Writers, NEW to, pc' = [pc EXCEPT ![w] = to]
    PROVE  /\ IsFiniteSet(Busy') /\ Cardinality(Busy) \in Nat
           /\ Cardinality(Busy') =
                 IF to = "idle"
                 THEN IF pc[w] = "idle" THEN Cardinality(Busy) ELSE Cardinality(Busy) - 1
                 ELSE IF pc[w] = "idle" THEN Cardinality(Busy) + 1 ELSE Cardinality(Busy)
<1>1. IsFiniteSet(Busy)
  BY DEF CountInv
<1>2. /\ Busy' = IF to = "idle" THEN Busy \ {w} ELSE Busy \cup {w}
      /\ w \in Busy <=> pc[w] # "idle"
  BY DEF Busy, TypeOK
<1> QED BY <1>1, <1>2, FS_AddElement, FS_RemoveElement, FS_CardinalityType

\* The numbers the counting is about.
LEMMA CountType ==
    ASSUME TypeOK, CountInv
    PROVE  /\ Len(committed) \in Nat /\ Len(received) \in Nat /\ Len(changes) \in Nat
           /\ Cardinality(dropped) \in Nat /\ Cardinality(Busy) \in Nat /\ ChanCap \in Nat
<1> QED BY LenProperties, FS_CardinalityType, ChanCapAssumption DEF TypeOK, CountInv

\* A writer that finds the channel full has one change more than there is room for.
LEMMA FullIsACrowd ==
    ASSUME TypeOK, CountInv, ChannelFull, NEW w \in Writers, pc[w] # "idle"
    PROVE  Outstanding > ChanCap
<1>1. w \in Busy
  BY DEF Busy
<1>2. Cardinality(Busy) # 0
  BY <1>1, FS_EmptySet DEF CountInv
<1> QED BY <1>2, CountType DEF CountInv, Outstanding, ChannelFull

\* A new change is with the writer that made it.
LEMMA CountCommit ==
    ASSUME TypeOK, CountInv, NEW w \in Writers, pc[w] = "idle",
           NEW kind, NEW of, Commit(w, kind, of)
    PROVE  CountInv'
<1>1. Len(committed') = Len(committed) + 1
  <2> DEFINE c == [kind |-> kind, of |-> of, by |-> w]
  <2>1. committed \in Seq(Change \cup {c}) /\ c \in Change \cup {c} /\ committed' = Append(committed, c)
    BY DEF Commit, TypeOK
  <2> QED BY <2>1, AppendProperties
<1>2. UNCHANGED <<changes, received, dropped>>
  BY DEF Commit
<1>3. /\ IsFiniteSet(Busy') /\ Cardinality(Busy) \in Nat
      /\ Cardinality(Busy') = Cardinality(Busy) + 1
  BY WriterMoves DEF Commit
<1> QED BY <1>1, <1>2, <1>3, CountType DEF CountInv

\* A send that finds room.
LEMMA CountSend ==
    ASSUME TypeOK, CountInv, NEW w \in Writers, pc[w] \in {"send", "resend"}, Send(w),
           UNCHANGED <<committed, received, dropped>>
    PROVE  CountInv'
<1>1. Len(changes') = Len(changes) + 1
  BY AppendProperties DEF Send, TypeOK
<1>2. /\ IsFiniteSet(Busy') /\ Cardinality(Busy) \in Nat
      /\ Cardinality(Busy') = Cardinality(Busy) - 1
  BY WriterMoves DEF Send
<1> QED BY <1>1, <1>2, CountType DEF CountInv

\* A send that finds the channel full, and an eviction from a channel empty by now.
LEMMA CountMove ==
    ASSUME TypeOK, CountInv, NEW w \in Writers, NEW to, pc[w] # "idle", to # "idle",
           pc' = [pc EXCEPT ![w] = to], UNCHANGED <<changes, committed, received, dropped>>
    PROVE  CountInv'
<1>1. IsFiniteSet(Busy') /\ Cardinality(Busy') = Cardinality(Busy)
  BY WriterMoves
<1> QED BY <1>1 DEF CountInv

LEMMA CountEvict ==
    ASSUME TypeOK, EmitInv, CountInv, NEW w \in Writers, Evict(w)
    PROVE  CountInv'
<1>1. pc[w] = "evict" /\ pc' = [pc EXCEPT ![w] = "resend"] /\ UNCHANGED <<committed, received>>
  BY DEF Evict
<1>2. CASE changes = <<>> /\ UNCHANGED <<changes, dropped>>
  BY <1>1, <1>2, CountMove
<1>3. CASE changes # <<>> /\ changes' = Tail(changes) /\ dropped' = dropped \cup {Head(changes)}
  <2>1. Len(changes') = Len(changes) - 1
    BY <1>3, HeadTailProperties DEF TypeOK
  <2>2. Head(changes) \notin dropped
    <3>1. received \in Seq(Nat) /\ changes \in Seq(Nat)
      BY DEF TypeOK
    <3>2. PICK k \in 1 .. Len(Stream) : Stream[k] = Head(changes) /\ DOMAIN Stream = 1 .. Len(Stream)
      BY <1>3, <3>1, StreamEvict DEF Stream
    <3> QED BY <3>2 DEF EmitInv, Places
  <2>3. IsFiniteSet(dropped') /\ Cardinality(dropped') = Cardinality(dropped) + 1
    BY <1>3, <2>2, FS_AddElement DEF CountInv
  <2>4. IsFiniteSet(Busy') /\ Cardinality(Busy') = Cardinality(Busy)
    <3>1. "resend" # "idle" /\ pc[w] # "idle" /\ pc' = [pc EXCEPT ![w] = "resend"]
      BY <1>1
    <3> QED BY <3>1, WriterMoves
  <2> QED BY <1>1, <2>1, <2>3, <2>4, CountType DEF CountInv
<1> QED BY <1>2, <1>3 DEF Evict

\* A resend that finds the channel full again gives up its own change.
LEMMA CountGiveUp ==
    ASSUME TypeOK, EmitInv, CountInv, NEW w \in Writers, pc[w] = "resend",
           pc' = [pc EXCEPT ![w] = "idle"], dropped' = dropped \cup {pending[w]},
           UNCHANGED <<changes, committed, received>>
    PROVE  CountInv'
<1>1. /\ IsFiniteSet(Busy') /\ Cardinality(Busy) \in Nat
      /\ Cardinality(Busy') = Cardinality(Busy) - 1
  BY WriterMoves
<1>2. pending[w] \notin dropped
  BY DEF EmitInv, Places
<1>3. IsFiniteSet(dropped') /\ Cardinality(dropped') = Cardinality(dropped) + 1
  BY <1>2, FS_AddElement DEF CountInv
<1> QED BY <1>1, <1>3, CountType DEF CountInv

\* One case for each action of the store.
LEMMA CountStep == TypeOK /\ EmitInv /\ CountInv /\ [Next]_vars => CountInv'
<1> SUFFICES ASSUME TypeOK, EmitInv, CountInv, [Next]_vars PROVE CountInv'
  OBVIOUS
<1>1. ASSUME NEW w \in Writers, NEW e \in Entries, AppendEntry(w, e)  PROVE CountInv'
  BY <1>1, CountCommit DEF AppendEntry
<1>2. ASSUME NEW w \in Writers, NEW p \in Paths, NEW meta \in Meta,
             UpsertFile(w, p, meta) \/ DeleteFile(w, p, meta)
      PROVE  CountInv'
  BY <1>2, CountCommit DEF UpsertFile, DeleteFile
<1>3. ASSUME NEW w \in Writers, TrySend(w)  PROVE CountInv'
  BY <1>3, CountSend, CountMove DEF TrySend, NoteCrowd
<1>4. ASSUME NEW w \in Writers, Evict(w)  PROVE CountInv'
  BY <1>4, CountEvict
<1>5. ASSUME NEW w \in Writers, Resend(w)  PROVE CountInv'
  BY <1>5, CountSend, CountGiveUp DEF Resend
<1>6. CASE Receive
  <2>1. Len(changes') = Len(changes) - 1 /\ Len(received') = Len(received) + 1
    BY <1>6, HeadTailProperties, AppendProperties DEF Receive, TypeOK
  <2> QED BY <1>6, <2>1, CountType DEF Receive, CountInv, Busy
<1>7. ASSUME UNCHANGED <<changes, received, dropped, committed, pc>>  PROVE CountInv'
  BY <1>7 DEF CountInv, Busy
<1>8. CASE Close \/ UNCHANGED vars \/ \E w \in Writers : SendOnClosed(w)
  BY <1>7, <1>8 DEF Close, SendOnClosed, vars, history
<1> QED BY <1>1, <1>2, <1>3, <1>4, <1>5, <1>6, <1>8 DEF Next, Call, Emit

\* A new store has counted nothing.
LEMMA CountInit == Init => CountInv
<1> SUFFICES ASSUME Init PROVE CountInv
  OBVIOUS
<1>1. Busy = {} /\ dropped = {}
  BY DEF Init, Busy
<1>2. Len(committed) = 0 /\ Len(received) = 0 /\ Len(changes) = 0
  BY EmptySeq DEF Init
<1> QED BY <1>1, <1>2, FS_EmptySet DEF CountInv

\* Who is past the first select began in a crowd.
CrowdInv == \A w \in Writers : pc[w] \in {"evict", "resend"} => w \in crowded

LEMMA CrowdStep == TypeOK /\ CountInv /\ CrowdInv /\ [Next]_vars => CrowdInv'
<1> SUFFICES ASSUME TypeOK, CountInv, CrowdInv, [Next]_vars, NEW v \in Writers,
                    pc'[v] \in {"evict", "resend"}
             PROVE  v \in crowded'
  BY DEF CrowdInv
<1>1. ASSUME NEW w \in Writers, Call(w)  PROVE v \in crowded'
  <2>1. pc' = [pc EXCEPT ![w] = "send"] /\ crowded' = crowded
    BY <1>1 DEF Call, AppendEntry, UpsertFile, DeleteFile, Commit
  <2> QED BY <2>1 DEF CrowdInv, TypeOK
<1>2. ASSUME NEW w \in Writers, TrySend(w)  PROVE v \in crowded'
  <2>1. CASE v = w
    <3>1. ChannelFull /\ pc[w] = "send"
      BY <1>2, <2>1 DEF TrySend, Send, TypeOK
    <3>2. Outstanding > ChanCap
      BY <3>1, FullIsACrowd
    <3> QED BY <1>2, <2>1, <3>2 DEF TrySend, NoteCrowd
  <2>2. CASE v # w
    <3>1. pc'[v] = pc[v]
      BY <1>2, <2>2 DEF TrySend, Send, TypeOK
    <3> QED BY <1>2, <2>2, <3>1 DEF TrySend, NoteCrowd, CrowdInv
  <2> QED BY <2>1, <2>2
<1>3. ASSUME NEW w \in Writers, Evict(w) \/ Resend(w)  PROVE v \in crowded'
  <2>1. /\ crowded' = crowded /\ pc[w] \in {"evict", "resend"}
        /\ v # w => pc'[v] = pc[v]
    BY <1>3 DEF Evict, Resend, Send, TypeOK
  <2> QED BY <2>1 DEF CrowdInv
<1>4. CASE Receive \/ Close \/ UNCHANGED vars \/ \E w \in Writers : SendOnClosed(w)
  <2>1. UNCHANGED <<pc, crowded>>
    BY <1>4 DEF Receive, Close, SendOnClosed, vars, history
  <2> QED BY <2>1 DEF CrowdInv
<1> QED BY <1>1, <1>2, <1>3, <1>4 DEF Next, Emit

\* Every loss is the loss of an emission that began with more outstanding than the channel
\* holds, and a writer gives its own change up only while that is so (store.go 64, 228-244).
THEOREM LossOnlyByOverflow == Spec => LossBounded
<1> DEFINE Loss == dropped' # dropped =>
              \E w \in Writers, n \in 1 .. Len(committed) :
                 /\ dropped' = dropped \cup {n}
                 /\ pc[w] # "idle" /\ pc'[w] # pc[w] /\ w \in crowded
                 /\ n = pending[w] => Outstanding > ChanCap
<1>1. ASSUME TypeOK, EmitInv, CountInv, CrowdInv, Next
      PROVE  Loss
  <2>1. ASSUME NEW w \in Writers, Evict(w), dropped' # dropped
        PROVE  Loss
    <3>1. pc[w] = "evict" /\ pc'[w] = "resend" /\ w \in crowded
      BY <1>1, <2>1 DEF Evict, CrowdInv, TypeOK
    <3>2. changes # <<>> /\ dropped' = dropped \cup {Head(changes)}
      BY <2>1 DEF Evict
    <3>3. received \in Seq(Nat) /\ changes \in Seq(Nat)
      BY <1>1 DEF TypeOK
    <3>4. PICK k \in 1 .. Len(Stream) : Stream[k] = Head(changes) /\ DOMAIN Stream = 1 .. Len(Stream)
      BY <3>2, <3>3, StreamEvict DEF Stream
    <3>5. Head(changes) \in 1 .. Len(committed) /\ Head(changes) # pending[w]
      BY <1>1, <3>1, <3>4 DEF EmitInv, Places, Numbers, InStream
    <3> QED BY <3>1, <3>2, <3>5
  <2>2. ASSUME NEW w \in Writers, Resend(w), dropped' # dropped
        PROVE  Loss
    <3>1. /\ pc[w] = "resend" /\ pc'[w] = "idle" /\ w \in crowded
          /\ ChannelFull /\ dropped' = dropped \cup {pending[w]}
      BY <1>1, <2>2 DEF Resend, Send, CrowdInv, TypeOK
    <3>2. Outstanding > ChanCap
      BY <1>1, <3>1, FullIsACrowd
    <3>3. pending[w] \in 1 .. Len(committed)
      BY <1>1, <3>1 DEF EmitInv, Places, Numbers
    <3> QED BY <3>1, <3>2, <3>3
  <2>3. ASSUME NEW w \in Writers, Call(w) \/ TrySend(w) \/ SendOnClosed(w)
        PROVE  dropped' = dropped
    BY <2>3 DEF Call, AppendEntry, UpsertFile, DeleteFile, Commit, TrySend, NoteCrowd, SendOnClosed, history
  <2>4. Receive \/ Close => dropped' = dropped
    BY DEF Receive, Close, history
  <2> QED BY <1>1, <2>1, <2>2, <2>3, <2>4 DEF Next, Emit
<1>2. Init => CrowdInv
  BY DEF Init, CrowdInv
<1>3. TypeOK /\ EmitInv /\ CountInv /\ CrowdInv /\ [Next]_vars => [Loss]_vars
  BY <1>1
<1>4. Spec => [][Loss]_vars
  BY <1>2, <1>3, CountInit, CountStep, CrowdStep, EmitInvariant, StoreTypeCorrect, PTL DEF Spec
<1> QED BY <1>4 DEF LossBounded
====
