---- MODULE FileSync ----
(***************************************************************************)
(* One shared path on every peer: the file on disk, the index in the       *)
(* store, the watcher with its debounce timer, the recent-write mark that  *)
(* keeps an applied write from being taken for an edit, and the engine     *)
(* that mirrors accepted file_chunk messages to disk (watchDir,            *)
(* processFsEvent, handleLocalDelete and applyInboundFileChunk in          *)
(* internal/sync/sync.go).  Paths do not interact, so one is enough.       *)
(*                                                                         *)
(* The engine, the watcher, each timer that has fired and the tracker that *)
(* replays the host's files to a joiner are goroutines of their own:       *)
(* between the check of the mark, the read of the disk, the merge in the   *)
(* store and the write to disk any other may take a step.  The             *)
(* notifications of the operating system are external; those that are      *)
(* pending for the path count as one.  Messages arrive in any order and    *)
(* none is lost.  All peers read one clock; what skewed clocks do to the   *)
(* index is in Replicas.  A joiner has the host in its table as soon as    *)
(* the host has it; what it sends earlier, and between joiners, is lost as *)
(* in Session.                                                             *)
(***************************************************************************)
EXTENDS FileIndex, FiniteSets

CONSTANTS Host,    \* the peer that ran "collab create"; the others join it
          Empty,   \* what a file holds between the truncation and the write
          Timers,  \* bound: timers of one peer that run processFsEvent at a time
          Bounds   \* bounds for each pace looked at ("calm", "busy" or "slow", see below): the
                   \* edits and joins, the failing disk operations and the times read

ASSUME ContentsAssumption == Empty \in Hashes /\ Absent \notin Hashes
ASSUME HostAssumption == Host \in Peers
ASSUME BoundsAssumption ==
    /\ DOMAIN Bounds \subseteq {"calm", "busy", "slow"}
    /\ \A p \in DOMAIN Bounds : Bounds[p] \in [events : Nat, failures : Nat, times : SUBSET Times]

VARIABLES
    pace,      \* the pace of users and machines; it never changes
    edits,     \* history: edits made so far
    latest,    \* history: the content of the last edit, if the pace is calm
    failures,  \* history: disk operations that have failed so far
    unread,    \* history: a timer could not read what the last edit has left, likewise
    unwritten, \* history: the peers whose engine could not write its last change, likewise
    joined,    \* the joiners that have the host, and the host them, in their tables
    due,       \* the joiners whose join the host's tracker has not got to yet
    replay,    \* where the host's Replay is
    late,      \* history: the joiners that have joined so far
    missed,    \* history: the joiners to which Replay could not send what the index had
    clock,     \* time.Now(), which every reading moves
    disk,      \* peer -> the content of the file, or Absent
    files,     \* peer -> the store's metadata of the file, or Absent
    tombstones,\* peer -> the version of the last delete, or Absent
    notified,  \* peer -> the watcher has an event to read
    pending,   \* peer -> the debounce timer is running
    mark,      \* peer -> recentWrites has a mark that has not expired
    timers,    \* peer -> timer -> where its processFsEvent is
    applying,  \* peer -> where the engine's applyInboundFileChunk is
    net        \* file_chunk messages on their way

index == <<files, tombstones>>
watcher == <<notified, pending>>
history == <<edits, late, latest, failures, unread, unwritten, missed>>
tracker == <<due, replay>>
vars == <<pace, history, joined, tracker, clock, disk, index, watcher, mark, timers, applying, net>>

Idle == [at |-> "idle"]
Contents == Hashes \cup {Absent}

\* A file_chunk: what it says, whose hash is in it, and the content it carries.
Chunk == [to : Peers, op : Op, content : Contents]

TypeOK ==
    /\ pace \in DOMAIN Bounds
    /\ edits \in 0 .. Bounds[pace].events
    /\ latest \in Contents
    /\ failures \in 0 .. Bounds[pace].failures
    /\ unread \in BOOLEAN /\ unwritten \subseteq Peers
    /\ due \cup missed \subseteq late /\ late \subseteq joined /\ joined \subseteq Peers \ {Host}
    /\ replay \in {Idle} \cup [at : {"read"}, to : late, meta : Meta]
                        \cup [at : {"send"}, chunk : Chunk]
    /\ clock \in Times
    /\ disk \in [Peers -> Contents]
    /\ files \in [Peers -> Meta \cup {Absent}]
    /\ tombstones \in [Peers -> Version \cup {Absent}]
    /\ notified \in [Peers -> BOOLEAN]
    /\ pending \in [Peers -> BOOLEAN]
    /\ mark \in [Peers -> BOOLEAN]
    /\ timers \in [Peers -> [Timers -> {Idle, [at |-> "read"]} \cup [at : {"merge", "send"}, op : Op]]]
    /\ applying \in [Peers -> {Idle} \cup [at : {"mark", "mirror", "fill"}, op : Op]]
    /\ net \subseteq Chunk

Init ==
    /\ pace \in DOMAIN Bounds
    /\ edits = 0
    /\ latest = Absent
    /\ late = {} /\ failures = 0 /\ unread = FALSE /\ unwritten = {} /\ missed = {}
    /\ joined \in SUBSET (Peers \ {Host})
    /\ due = {} /\ replay = Idle
    /\ clock \in Times /\ \A t \in Times : clock <= t
    /\ disk = [p \in Peers |-> Absent]
    /\ files = [p \in Peers |-> Absent]
    /\ tombstones = [p \in Peers |-> Absent]
    /\ notified = [p \in Peers |-> FALSE]
    /\ pending = [p \in Peers |-> FALSE]
    /\ mark = [p \in Peers |-> FALSE]
    /\ timers = [p \in Peers |-> [t \in Timers |-> Idle]]
    /\ applying = [p \in Peers |-> Idle]
    /\ net = {}

\* Users at a calm pace leave each other and the program the time to finish before they
\* edit or join; else they do so at any moment.  Unless the pace is slow the machines are prompt:
\* no debounce timer (100 ms) fires and no mark (1.5 s) expires while a write of the
\* engine is unfinished or unnoticed, which is what these times are chosen for.
Calm == pace = "calm"
Prompt == pace # "slow"

\* Nothing is on its way from a disk to an index or from a peer to another.
Quiet ==
    /\ net = {} /\ due = {} /\ replay = Idle
    /\ \A p \in Peers :
          /\ ~notified[p] /\ ~pending[p] /\ applying[p] = Idle
          /\ \A t \in Timers : timers[p][t] = Idle

\* Users edit and join when it is time to, up to the bound.
MoreMayHappen ==
    /\ edits + Cardinality(late) < Bounds[pace].events
    /\ Calm => Quiet /\ \A q \in Peers : ~mark[q]

\* One more disk operation fails.
Fails == failures < Bounds[pace].failures /\ failures' = failures + 1

----
(* The user and the watcher.                                               *)

\* Someone saves or removes the file in the shared directory of p.
Edit(p, content) ==
    /\ p \in joined \cup {Host}
    /\ MoreMayHappen
    /\ content # disk[p] /\ content # Empty
    /\ edits' = edits + 1
    /\ latest' = IF Calm THEN content ELSE latest
    /\ unread' = FALSE /\ unwritten' = unwritten \ {p}
    /\ disk' = [disk EXCEPT ![p] = content]
    /\ notified' = [notified EXCEPT ![p] = TRUE]
    /\ UNCHANGED <<pace, failures, late, missed, joined, tracker, clock, index, pending, mark, timers, applying, net>>

\* watchDir reads an event: a timer that is still running is replaced.
Watch(p) ==
    /\ notified[p]
    /\ notified' = [notified EXCEPT ![p] = FALSE]
    /\ pending' = [pending EXCEPT ![p] = TRUE]
    /\ UNCHANGED <<pace, history, joined, tracker, clock, disk, index, mark, timers, applying, net>>

Expire(p) ==
    /\ mark[p]
    /\ Prompt => applying[p] = Idle /\ ~notified[p] /\ ~pending[p]
    /\ mark' = [mark EXCEPT ![p] = FALSE]
    /\ UNCHANGED <<pace, history, joined, tracker, clock, disk, index, watcher, timers, applying, net>>

\* Mutation: a mark never keeps an event back.
MarkIgnored(p) == FALSE
Marked(p) == mark[p]

\* The timer fires.  wasRecentWrite uses the mark up, and the event is then taken for
\* the engine's own.
Fire(p, t) ==
    /\ pending[p]
    /\ Prompt => applying[p].at # "fill" /\ ~notified[p]
    /\ timers[p][t] = Idle /\ \A u \in Timers : timers[p][u] = Idle => t <= u
    /\ pending' = [pending EXCEPT ![p] = FALSE]
    /\ mark' = [mark EXCEPT ![p] = FALSE]
    /\ timers' = IF Marked(p) THEN timers ELSE [timers EXCEPT ![p][t] = [at |-> "read"]]
    /\ UNCHANGED <<pace, history, joined, tracker, clock, disk, index, notified, applying, net>>

----
(* processFsEvent past the mark.                                           *)

\* It reads the file, or notes that it is gone, and then the clock.
Read(p, t) ==
    /\ timers[p][t].at = "read"
    /\ clock + 1 \in Bounds[pace].times
    /\ clock' = clock + 1
    /\ timers' = [timers EXCEPT ![p][t] =
           [at |-> "merge",
            op |-> [version |-> [time |-> clock, peer |-> p],
                    deleted |-> disk[p] = Absent, hash |-> disk[p]]]]
    /\ UNCHANGED <<pace, history, joined, tracker, disk, index, watcher, mark, applying, net>>

\* The file is there and cannot be read, or it is too large; the timer is done with it.
ReadFails(p, t) ==
    /\ timers[p][t].at = "read"
    /\ disk[p] # Absent
    /\ Fails
    /\ unread' = Calm
    /\ timers' = [timers EXCEPT ![p][t] = Idle]
    /\ UNCHANGED <<pace, edits, late, latest, unwritten, missed, joined, tracker, clock, disk, index, watcher,
                   mark, applying, net>>

MetaOf(op) == [time |-> op.version.time, peer |-> op.version.peer, hash |-> op.hash]

\* What the store of p answers to UpsertFile or DeleteFile.
Accepted(p, op) ==
    IF op.deleted THEN DeleteAccepted(files[p], tombstones[p], op.version)
    ELSE UpsertAccepted(files[p], tombstones[p], op.version)

\* Mutation: a delete is kept as a file of no content.
DeleteAsFile(p, op) ==
    /\ files' = [files EXCEPT ![p] = MetaOf(op)]
    /\ tombstones' = [tombstones EXCEPT ![p] = Absent]

\* Mutation: a delete leaves no tombstone.
NoTombstone(p, op) ==
    /\ files' = [files EXCEPT ![p] = IF op.deleted THEN Absent ELSE MetaOf(op)]
    /\ tombstones' = [tombstones EXCEPT ![p] = Absent]
Record(p, op) ==
    /\ files' = [files EXCEPT ![p] = IF op.deleted THEN Absent ELSE MetaOf(op)]
    /\ tombstones' = [tombstones EXCEPT ![p] = IF op.deleted THEN op.version ELSE Absent]

Merge(p, t) ==
    /\ timers[p][t].at = "merge"
    /\ LET op == timers[p][t].op
       IN  \/ /\ Accepted(p, op)
              /\ Record(p, op)
              /\ timers' = [timers EXCEPT ![p][t] = [at |-> "send", op |-> op]]
           \/ /\ ~Accepted(p, op)
              /\ timers' = [timers EXCEPT ![p][t] = Idle]
              /\ UNCHANGED index
    /\ UNCHANGED <<pace, history, joined, tracker, clock, disk, watcher, mark, applying, net>>

\* The host has its joiners in its table, and each joiner has the host.
Targets(p) == IF p = Host THEN joined ELSE IF p \in joined THEN {Host} ELSE {}

\* Mutation: it waits for somebody to send to.
SendToSomebody(p, t) ==
    /\ Targets(p) # {}
    /\ timers[p][t].at = "send"
    /\ net' = net \cup {[to |-> q, op |-> timers[p][t].op, content |-> timers[p][t].op.hash] :
                           q \in Targets(p)}
    /\ timers' = [timers EXCEPT ![p][t] = Idle]
    /\ UNCHANGED <<pace, history, joined, tracker, clock, disk, index, watcher, mark, applying>>

Send(p, t) ==
    /\ timers[p][t].at = "send"
    /\ net' = net \cup {[to |-> q, op |-> timers[p][t].op, content |-> timers[p][t].op.hash] :
                           q \in Targets(p)}
    /\ timers' = [timers EXCEPT ![p][t] = Idle]
    /\ UNCHANGED <<pace, history, joined, tracker, clock, disk, index, watcher, mark, applying>>

----
(* applyInboundFileChunk.                                                  *)

\* What comes back under our own ID is dropped, and so is a content with another hash.
Genuine(p, m) == m.op.version.peer # p /\ m.content = m.op.hash

\* The merge in the store comes first.
Apply(p, m) ==
    /\ m \in net /\ m.to = p
    /\ applying[p] = Idle
    /\ net' = net \ {m}
    /\ \/ /\ Genuine(p, m) /\ Accepted(p, m.op)
          /\ Record(p, m.op)
          /\ applying' = [applying EXCEPT ![p] = [at |-> "mark", op |-> m.op]]
       \/ /\ ~(Genuine(p, m) /\ Accepted(p, m.op))
          /\ UNCHANGED <<index, applying>>
    /\ UNCHANGED <<pace, history, joined, tracker, clock, disk, watcher, mark, timers>>

\* markRecentWrite, before the disk is touched.
Mark(p) ==
    /\ applying[p].at = "mark"
    /\ mark' = [mark EXCEPT ![p] = TRUE]
    /\ applying' = [applying EXCEPT ![p].at = "mirror"]
    /\ UNCHANGED <<pace, history, joined, tracker, clock, disk, index, watcher, timers, net>>

\* Mutation: a delete is merged and not mirrored.
MirrorWritesOnly(p) ==
    /\ applying[p].at = "mirror"
    /\ LET deleted == applying[p].op.deleted
       IN  /\ disk' = [disk EXCEPT ![p] = IF deleted THEN @ ELSE Empty]
           /\ notified' = [notified EXCEPT ![p] = @ \/ ~deleted]
           /\ applying' = [applying EXCEPT ![p] =
                  IF deleted THEN Idle ELSE [@ EXCEPT !.at = "fill"]]
    /\ UNCHANGED <<pace, history, joined, tracker, clock, index, pending, mark, timers, net>>

\* os.Remove, which is noticed only if there was a file, or the truncation that
\* os.WriteFile begins with.
Mirror(p) ==
    /\ applying[p].at = "mirror"
    /\ LET deleted == applying[p].op.deleted
       IN  /\ disk' = [disk EXCEPT ![p] = IF deleted THEN Absent ELSE Empty]
           /\ notified' = [notified EXCEPT ![p] = @ \/ ~deleted \/ disk[p] # Absent]
           /\ unwritten' = IF deleted THEN unwritten \ {p} ELSE unwritten
           /\ applying' = [applying EXCEPT ![p] =
                  IF deleted THEN Idle ELSE [@ EXCEPT !.at = "fill"]]
    /\ UNCHANGED <<pace, edits, late, latest, failures, unread, missed, joined, tracker, clock, index, pending,
                   mark, timers, net>>

Fill(p) ==
    /\ applying[p].at = "fill"
    /\ disk' = [disk EXCEPT ![p] = applying[p].op.hash]
    /\ notified' = [notified EXCEPT ![p] = TRUE]
    /\ unwritten' = unwritten \ {p}
    /\ applying' = [applying EXCEPT ![p] = Idle]
    /\ UNCHANGED <<pace, edits, late, latest, failures, unread, missed, joined, tracker, clock, index, pending,
                   mark, timers, net>>

\* The directory, the file or its content cannot be written, or the file not removed; an
\* error is logged, the index stays ahead of the disk, and the mark stays.
MirrorFails(p) ==
    /\ applying[p].at \in {"mirror", "fill"}
    /\ Fails
    /\ unwritten' = IF Calm THEN unwritten \cup {p} ELSE unwritten
    /\ applying' = [applying EXCEPT ![p] = Idle]
    /\ UNCHANGED <<pace, edits, late, latest, unread, missed, joined, tracker, clock, disk, index, watcher, mark,
                   timers, net>>

----
(* A joiner comes, and the host replays its files to it: Replay lists the  *)
(* index, then reads each file and sends it with what the list says of it. *)
(* The file of a deleted path is not in the list.                          *)

Join(q) ==
    /\ q \in Peers \ ({Host} \cup joined)
    /\ MoreMayHappen
    /\ late' = late \cup {q}
    /\ joined' = joined \cup {q}
    /\ due' = due \cup {q}
    /\ UNCHANGED <<pace, edits, latest, failures, unread, unwritten, missed, replay, clock, disk, index, watcher, mark, timers, applying, net>>

List(q) ==
    /\ q \in due /\ replay = Idle
    /\ due' = due \ {q}
    /\ IF files[Host] = Absent
       THEN /\ replay' = Idle
            /\ missed' = IF tombstones[Host] = Absent THEN missed ELSE missed \cup {q}
       ELSE /\ replay' = [at |-> "read", to |-> q, meta |-> files[Host]]
            /\ UNCHANGED missed
    /\ UNCHANGED <<pace, edits, late, latest, failures, unread, unwritten, joined, clock, disk, index, watcher, mark, timers, applying, net>>

\* Mutation: the hash is taken of what is read.
ReadRehashed ==
    /\ replay # Idle /\ replay.at = "read"
    /\ LET meta == replay.meta
           content == disk[Host]
       IN  /\ replay' = IF content = Absent THEN Idle
                        ELSE [at |-> "send",
                              chunk |-> [to |-> replay.to, content |-> content,
                                         op |-> [version |-> VersionOf(meta), deleted |-> FALSE,
                                                 hash |-> content]]]
           /\ missed' = IF content = meta.hash THEN missed ELSE missed \cup {replay.to}
    /\ UNCHANGED <<pace, edits, late, latest, failures, unread, unwritten, joined, due, clock, disk, index, watcher,
                   mark, timers, applying, net>>

\* A file that is gone by now is skipped.
ReadListed ==
    /\ replay # Idle /\ replay.at = "read"
    /\ LET meta == replay.meta
           content == disk[Host]
       IN  /\ replay' = IF content = Absent THEN Idle
                        ELSE [at |-> "send",
                              chunk |-> [to |-> replay.to, content |-> content,
                                         op |-> [version |-> VersionOf(meta), deleted |-> FALSE,
                                                 hash |-> meta.hash]]]
           /\ missed' = IF content = meta.hash THEN missed ELSE missed \cup {replay.to}
    /\ UNCHANGED <<pace, edits, late, latest, failures, unread, unwritten, joined, due, clock, disk, index, watcher,
                   mark, timers, applying, net>>

SendListed ==
    /\ replay # Idle /\ replay.at = "send"
    /\ net' = net \cup {replay.chunk}
    /\ replay' = Idle
    /\ UNCHANGED <<pace, history, joined, due, clock, disk, index, watcher, mark, timers, applying>>

----
EngineStep(p) == Mark(p) \/ Mirror(p) \/ Fill(p) \/ MirrorFails(p) \/ \E m \in net : Apply(p, m)
TimerStep(p, t) == Read(p, t) \/ ReadFails(p, t) \/ Merge(p, t) \/ Send(p, t)
TrackStep == ReadListed \/ SendListed \/ \E q \in due : List(q)
WatchStep(p) == Watch(p) \/ \E t \in Timers : Fire(p, t)

Next ==
    \/ TrackStep
    \/ \E p \in Peers :
          \/ \E content \in Contents : Edit(p, content)
          \/ Join(p) \/ Expire(p) \/ EngineStep(p) \/ WatchStep(p)
          \/ \E t \in Timers : TimerStep(p, t)

Spec == Init /\ [][Next]_vars

\* Each goroutine goes on with what it has begun, and marks expire.
FairSpec ==
    /\ Spec
    /\ WF_vars(TrackStep)
    /\ \A p \in Peers :
          /\ WF_vars(EngineStep(p)) /\ WF_vars(WatchStep(p)) /\ WF_vars(Expire(p))
          /\ \A t \in Timers : WF_vars(TimerStep(p, t))

----
(* Properties.                                                             *)

\* The content the index of p has for the path.
Indexed(p) == IF files[p] = Absent THEN Absent ELSE files[p].hash

Members == joined \cup {Host}

\* Joiner p shows something older than the host, and will: Replay found the file deleted or
\* not as it was listed, or another joiner wrote it and the host does not forward that.
LeftBehind(p) ==
    LET ours == Register(files[p], tombstones[p])
        theirs == Register(files[Host], tombstones[Host])
    IN  /\ p \in joined
        /\ theirs # Absent /\ (ours # Absent => Outranks(theirs, ours))
        /\ p \in missed \/ theirs.version.peer \notin {p, Host}

\* Once nothing is under way all indexes have the same file, whoever edited what and
\* when, whoever joined when, whatever failed and whatever the engines, the watchers and
\* Replay did in between; a joiner may be left behind, but never has anything else
\* (sync.go 104-154, 213-272, 329-398).
IndexesAgree == Quiet => \A p \in joined : files[p] = files[Host] \/ LeftBehind(p)

\* Users who leave each other time find the last save, or the last removal, on every
\* disk and in every index that is not left behind, those of late joiners too, and never
\* an older or a half-written file: no step of the engine comes back as an edit that
\* undoes it.  An engine that could not write leaves its own disk behind, not its index,
\* and not for longer than until the next edit (sync.go 33-36, 104-154, 242, 264-272,
\* 331-334).
LastEditEverywhere ==
    Calm /\ Quiet /\ ~unread =>
       \A p \in Members : \/ Indexed(p) = latest /\ (p \in unwritten \/ disk[p] = latest)
                          \/ LeftBehind(p)

\* For them every edit is also published once, by one peer: what the engine writes is not
\* published again, so no write goes back and forth (sync.go 33-36, 434-455).
NoEcho == Calm => Cardinality({t \in Times : t < clock}) <= edits

\* And the session comes to rest after each edit.
EditsSettle == Calm => []<>Quiet

\* "Genuine edits made shortly after aren't suppressed" (sync.go 33-36): once nothing is
\* under way, what is on a peer's disk is what its index, and so every other, has.
NothingSuppressed == Prompt /\ Quiet /\ failures = 0 => \A p \in Peers : disk[p] = Indexed(p)
====
