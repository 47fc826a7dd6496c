---- MODULE Store ----
(***************************************************************************)
(* One peer's store (internal/store/store.go): the conversation log, the   *)
(* file index and the bounded channel on which every change is announced   *)
(* to the sync engine.                                                     *)
(*                                                                         *)
(* The writers are the goroutines that call the store: MCP handlers, the   *)
(* terminal UI, the debounce timers of the directory watcher and the sync  *)
(* engine itself.  The section a call runs under the mutex is one action;  *)
(* the change is emitted after the unlock, in up to three channel          *)
(* operations, so emissions of several writers interleave with each other, *)
(* with the subscriber and with Close.  The source a caller passes along   *)
(* (local or peer) is not looked at here and is left out.                  *)
(***************************************************************************)
EXTENDS FileIndex, Sequences, FiniteSets

CONSTANTS Writers,     \* goroutines that call the store
          Engine,      \* the writer that is also the subscriber
          Entries,     \* log entries, told apart by their ID
          TimeOf,      \* the timestamp an entry carries
          ChanCap,     \* capacity of the change channel (256 in the code)
          MaxChanges   \* bound: mutations of the store in one behaviour

ASSUME EngineAssumption == Engine \in Writers
ASSUME TimeOfAssumption == TimeOf \in [Entries -> Nat]
ASSUME ChanCapAssumption == ChanCap \in Nat \ {0}
ASSUME MaxChangesAssumption == MaxChanges \in Nat

VARIABLES
    entries,      \* the log, a sequence of entries
    entryIDs,     \* the IDs in the log
    files,        \* path -> metadata or Absent
    tombstones,   \* path -> version of the last delete or Absent
    changes,      \* the change channel: numbers of changes, oldest first
    closed,       \* Close has run
    pc,           \* writer -> where its call is
    pending,      \* writer -> number of the change it is emitting
    committed,    \* history: change number -> the change, in the order of the mutex
    received,     \* history: what the subscriber has received, in order
    dropped,      \* history: changes that no longer reach the subscriber
    crowded,      \* history: the writers that began their last emission in a crowd
    panicked      \* a send on the closed channel has ended the process

index == <<entries, entryIDs, files, tombstones>>
history == <<committed, received, dropped, crowded>>
vars == <<index, changes, closed, pc, pending, history, panicked>>

Kinds == {"entry_appended", "file_upserted", "file_deleted"}
Change == [kind : Kinds, of : Entries \cup Paths, by : Writers]

TypeOK ==
    /\ entries \in Seq(Entries)
    /\ entryIDs \subseteq Entries
    /\ files \in [Paths -> Meta \cup {Absent}]
    /\ tombstones \in [Paths -> Version \cup {Absent}]
    /\ committed \in Seq(Change)
    /\ changes \in Seq(Nat)
    /\ Len(changes) <= ChanCap
    /\ closed \in BOOLEAN
    /\ pc \in [Writers -> {"idle", "send", "evict", "resend"}]
    /\ pending \in [Writers -> Nat]
    /\ received \in Seq(Nat)
    /\ dropped \subseteq Nat
    /\ crowded \subseteq Writers
    /\ panicked \in BOOLEAN

Init ==
    /\ entries = <<>>
    /\ entryIDs = {}
    /\ files = [p \in Paths |-> Absent]
    /\ tombstones = [p \in Paths |-> Absent]
    /\ changes = <<>>
    /\ closed = FALSE
    /\ pc = [w \in Writers |-> "idle"]
    /\ pending = [w \in Writers |-> 0]
    /\ committed = <<>>
    /\ received = <<>>
    /\ dropped = {}
    /\ crowded = {}
    /\ panicked = FALSE

----
(* The critical sections.                                                  *)

\* The mutation made under the mutex is the next change, which w now emits.
Commit(w, kind, of) ==
    /\ Len(committed) < MaxChanges
    /\ committed' = Append(committed,
           [kind |-> kind, of |-> of, by |-> w])
    /\ pending' = [pending EXCEPT ![w] = Len(committed) + 1]
    /\ pc' = [pc EXCEPT ![w] = "send"]
    /\ UNCHANGED <<changes, closed, received, dropped, crowded, panicked>>

\* Mutation: the log is not kept in timestamp order.
AppendAtEnd(log, pos, e) == pos = Len(log) + 1

\* sort.Search: pos is the first index whose entry is later than e.
InsertionPoint(log, pos, e) ==
    \A i \in DOMAIN log : i >= pos <=> TimeOf[log[i]] > TimeOf[e]

\* The log with e at pos and what was there moved up by one.
InsertAtPos(log, pos, e) ==
    [i \in 1 .. Len(log) + 1 |->
        IF i < pos THEN log[i] ELSE IF i = pos THEN e ELSE log[i - 1]]

\* AppendEntry of an entry the log does not have; a duplicate returns at once
\* and announces nothing.
AppendEntry(w, e) ==
    /\ ~panicked
    /\ pc[w] = "idle"
    /\ e \notin entryIDs
    /\ \E pos \in 1 .. Len(entries) + 1 :
          /\ InsertionPoint(entries, pos, e)
          /\ entries' = InsertAtPos(entries, pos, e)
    /\ entryIDs' = entryIDs \cup {e}
    /\ Commit(w, "entry_appended", e)
    /\ UNCHANGED <<files, tombstones>>

\* Mutation: the tombstone survives the write.
UpsertKeepingTombstone(w, p, meta) ==
    /\ ~panicked
    /\ pc[w] = "idle"
    /\ UpsertAccepted(files[p], tombstones[p], meta)
    /\ files' = [files EXCEPT ![p] = meta]
    /\ Commit(w, "file_upserted", p)
    /\ UNCHANGED <<entries, entryIDs, tombstones>>

\* UpsertFile that the merge accepts; a rejected one changes nothing.
UpsertFile(w, p, meta) ==
    /\ ~panicked
    /\ pc[w] = "idle"
    /\ UpsertAccepted(files[p], tombstones[p], meta)
    /\ files' = [files EXCEPT ![p] = meta]
    /\ tombstones' = [tombstones EXCEPT ![p] = Absent]
    /\ Commit(w, "file_upserted", p)
    /\ UNCHANGED <<entries, entryIDs>>

\* DeleteFile that the merge accepts, whether or not the file is there.
DeleteFile(w, p, meta) ==
    /\ ~panicked
    /\ pc[w] = "idle"
    /\ DeleteAccepted(files[p], tombstones[p], meta)
    /\ files' = [files EXCEPT ![p] = Absent]
    /\ tombstones' = [tombstones EXCEPT ![p] = VersionOf(meta)]
    /\ Commit(w, "file_deleted", p)
    /\ UNCHANGED <<entries, entryIDs>>

----
(* emit, one action for each of its three non-blocking channel operations. *)

\* Mutations: the capacity is off by one.
FullOneLate == Len(changes) > ChanCap
FullOneEarly == Len(changes) >= ChanCap - 1
ChannelFull == Len(changes) = ChanCap

\* How many changes have been announced and neither been received nor lost.
Outstanding == Len(committed) - Len(received) - Cardinality(dropped)

\* w begins to emit: is there more outstanding, its own change included, than the channel
\* has room for?
NoteCrowd(w) ==
    /\ crowded' = IF Outstanding > ChanCap THEN crowded \cup {w} ELSE crowded \ {w}
    /\ UNCHANGED <<committed, received, dropped>>

Send(w) ==
    /\ changes' = Append(changes, pending[w])
    /\ pc' = [pc EXCEPT ![w] = "idle"]

\* Sending on a closed channel panics, whether or not its buffer is full.
SendOnClosed(w) ==
    /\ ~panicked
    /\ pc[w] \in {"send", "resend"}
    /\ closed
    /\ panicked' = TRUE
    /\ UNCHANGED <<index, changes, closed, pc, pending, history>>

\* Mutation: the return after the first send is missing.
TrySendThenFallThrough(w) ==
    /\ ~panicked
    /\ pc[w] = "send"
    /\ ~closed
    /\ \/ ~ChannelFull /\ changes' = Append(changes, pending[w])
       \/ ChannelFull /\ UNCHANGED changes
    /\ pc' = [pc EXCEPT ![w] = "evict"]
    /\ NoteCrowd(w)
    /\ UNCHANGED <<index, closed, pending, panicked>>

\* Mutation: the send has no default.
BlockingSend(w) ==
    /\ ~panicked
    /\ pc[w] = "send"
    /\ ~closed
    /\ ~ChannelFull
    /\ Send(w)
    /\ NoteCrowd(w)
    /\ UNCHANGED <<index, closed, pending, panicked>>

TrySend(w) ==
    /\ ~panicked
    /\ pc[w] = "send"
    /\ ~closed
    /\ \/ ~ChannelFull /\ Send(w)
       \/ ChannelFull /\ pc' = [pc EXCEPT ![w] = "evict"] /\ UNCHANGED changes
    /\ NoteCrowd(w)
    /\ UNCHANGED <<index, closed, pending, panicked>>

\* Mutation: the oldest change is put back behind the others.
EvictToBack(w) ==
    /\ ~panicked
    /\ pc[w] = "evict"
    /\ pc' = [pc EXCEPT ![w] = "resend"]
    /\ changes' = IF changes = <<>> THEN <<>> ELSE Append(Tail(changes), Head(changes))
    /\ UNCHANGED <<index, closed, pending, history, panicked>>

\* The second select takes whatever is oldest by now, and nothing from an empty
\* channel.
Evict(w) ==
    /\ ~panicked
    /\ pc[w] = "evict"
    /\ pc' = [pc EXCEPT ![w] = "resend"]
    /\ \/ /\ changes # <<>>
          /\ changes' = Tail(changes)
          /\ dropped' = dropped \cup {Head(changes)}
       \/ changes = <<>> /\ UNCHANGED <<changes, dropped>>
    /\ UNCHANGED <<index, closed, pending, committed, received, crowded, panicked>>

\* The third select sends, or gives the new change up if the room is gone again.
Resend(w) ==
    /\ ~panicked
    /\ pc[w] = "resend"
    /\ ~closed
    /\ \/ ~ChannelFull /\ Send(w) /\ UNCHANGED dropped
       \/ /\ ChannelFull
          /\ dropped' = dropped \cup {pending[w]}
          /\ pc' = [pc EXCEPT ![w] = "idle"]
          /\ UNCHANGED changes
    /\ UNCHANGED <<index, closed, pending, committed, received, crowded, panicked>>

----
(* The subscriber and Close.                                               *)

\* The sync engine takes the oldest change, when it is in no store call of its own;
\* a closed channel is still drained.
Receive ==
    /\ ~panicked
    /\ pc[Engine] = "idle"
    /\ changes # <<>>
    /\ received' = Append(received, Head(changes))
    /\ changes' = Tail(changes)
    /\ UNCHANGED <<index, closed, pc, pending, committed, dropped, crowded, panicked>>

\* Close, which waits for the mutex and for nothing else.
Close ==
    /\ ~panicked
    /\ ~closed
    /\ closed' = TRUE
    /\ UNCHANGED <<index, changes, pc, pending, history, panicked>>

Call(w) ==
    \/ \E e \in Entries : AppendEntry(w, e)
    \/ \E p \in Paths, meta \in Meta :
          UpsertFile(w, p, meta) \/ DeleteFile(w, p, meta)

Emit(w) == TrySend(w) \/ Evict(w) \/ Resend(w) \/ SendOnClosed(w)

Next == Receive \/ Close \/ \E w \in Writers : Call(w) \/ Emit(w)

Spec == Init /\ [][Next]_vars

\* A goroutine that has work to do is scheduled in the end.  Nothing is assumed of
\* the subscriber: the engine may be busy for good, or have returned.
FairSpec == Spec /\ \A w \in Writers : WF_vars(Emit(w))

----
(* Properties.                                                             *)

\* The log is in timestamp order and holds each entry once, and the ID set that
\* AppendEntry deduplicates by is exactly the IDs in the log (store.go 50-51, 75-86).
LogAgreesWithIDs ==
    /\ \A i, j \in DOMAIN entries :
          /\ i < j => TimeOf[entries[i]] <= TimeOf[entries[j]]
          /\ entries[i] = entries[j] => i = j
    /\ {entries[i] : i \in DOMAIN entries} = entryIDs

\* No path is both a file and a tombstone, which is what lets DeleteFile ignore the
\* tombstone of a path that has a file (store.go 147-162).
FileOrTombstone == \A p \in Paths : files[p] = Absent \/ tombstones[p] = Absent

\* What lookups of path p show.
Shown(p) == Register(files[p], tombstones[p])

\* Whatever the writers call and in whatever order, the register of a path is never
\* forgotten and moves only to what outranks it: a deleted file does not come back
\* with a version the delete has seen (store.go 115-128, 147-162).
IndexOnlyAdvances ==
    [][\A p \in Paths :
          Shown(p)' # Shown(p) =>
             Shown(p)' # Absent /\ (Shown(p) # Absent => Outranks(Shown(p)', Shown(p)))]_vars

\* What is with the subscriber or on its way to it, in the order of arrival.
Stream == received \o changes

\* The writers that still hold change n.
EmittersOf(n) == {w \in Writers : pc[w] # "idle" /\ pending[w] = n}

\* Each mutation is announced by one change, and that change is in exactly one
\* place: with the one writer that emits it, once in the stream, or dropped.  So no
\* interleaving of the three steps of emit duplicates a change or loses one
\* silently (store.go 228-244).
EachChangeInOnePlace ==
    \A n \in 1 .. Len(committed) :
       LET emitted == \E i \in DOMAIN Stream : Stream[i] = n
       IN  /\ \A i, j \in DOMAIN Stream : Stream[i] = n /\ Stream[j] = n => i = j
           /\ \A v, w \in EmittersOf(n) : v = w
           /\ emitted => n \notin dropped
           /\ EmittersOf(n) # {} <=> ~emitted /\ n \notin dropped

\* The changes of one writer reach the subscriber in the order the writer made
\* them, although those of different writers need not (store.go 86-88).
WriterOrderKept ==
    \A i, j \in DOMAIN Stream :
       i < j /\ committed[Stream[i]].by = committed[Stream[j]].by => Stream[i] < Stream[j]

\* A change is lost only for want of room.  Who loses one, be it the oldest or its own, has
\* begun to emit when more was outstanding than the channel holds, although the eviction
\* may find room again by the time it happens; and who gives up its own change does so when
\* that is so even then.  What was received before counts for nothing, and one step costs
\* one change (store.go 64, 228-244).
LossBounded ==
    [][dropped' # dropped =>
          \E w \in Writers, n \in 1 .. Len(committed) :
             /\ dropped' = dropped \cup {n}
             /\ pc[w] # "idle" /\ pc'[w] # pc[w] /\ w \in crowded
             /\ n = pending[w] => Outstanding > ChanCap]_vars

\* emit never waits: the caller of a store method gets it back in the end, with no
\* help from the subscriber (store.go 226-244).
CallsReturn == \A w \in Writers : pc[w] # "idle" ~> (pc[w] = "idle" \/ panicked)

\* "Safe for concurrent use" (store.go 46-47), read as: no call and no Close, in any
\* interleaving, panics.
NoPanic == ~panicked
====
