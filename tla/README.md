# collab in TLA+

`collab` is a Go program that joins the AI coding agents of several developers in
one session: a shared conversation log and a shared directory, replicated between
peers over an external peer-to-peer daemon (Axl).  This directory holds TLA+
models of the program's core, TLC configurations that check them on small
instances, and TLAPS proofs of the most important properties for every instance.
Source paths are relative to the repository; `store.go 228` means line 228.

Contents: [the system](#1-the-system), [the modules](#2-the-modules),
[the runs](#3-the-runs-and-their-bounds), [fairness](#4-fairness),
[the proofs](#5-the-proofs), [where code and docs disagree](#6-where-code-and-docs-disagree),
[what is not modelled](#7-what-is-not-modelled), [the plan](#8-the-plan).

## 1. The system

One process per peer.  Inside it, goroutines share a store; between processes,
messages of six kinds travel through the Axl daemon.

| component | state it keeps | operations | correct when |
|---|---|---|---|
| **Store** `internal/store` | log, ID set, files, tombstones, change channel (256) | `AppendEntry`, `UpsertFile`, `DeleteFile`, lookups (`EntriesSince`, `GetFile`, `ListFiles`), `Subscribe`, `Close` | the log is a timestamp-ordered set; a path's version only advances; every mutation is announced once unless the channel overflows; nobody waits |
| **Sync engine** `internal/sync` | recent-write marks, debounce timers | `Run` (changes out, messages in), `watchDir`, `processFsEvent`, `Replay` | peers that got the same operations show the same; its own writes to disk do not come back as edits; no gap between replay and broadcast |
| **Axl transport** `internal/transport/axl.go` | peer table with status lines, own status line, session ID, receive channel (256), event channel (16) | `Host`, `Join`, handshake, `Broadcast`, `SendTo`, `BroadcastStatus`, `Close` | only invited peers take part; a joiner that counts the host is counted by it; who is told a status has the last one; a goodbye is final |
| **Daemon supervisor** `supervisor.go` | the child process and its directory | start, wait until ready, stop | no start leaves a process or directory behind |
| **CLI session** `cmd/collab` | deferred calls, the session's own peer table (the models call it the roster), the session ID shown | `create`, `join`, `trackPeerEvents`, the polling for the session ID | whatever step fails, what came before is taken back; shutdown ends; a joiner shows the host's session ID |
| **Bootstrap** `internal/bootstrap` | the build directory | `EnsureAxl`, `buildAxl` | the directory goes, whatever fails |
| **State writer** `internal/state` | `state.json`, its temporary name | write, rename, remove | a reader finds a whole file; the session that is left has it |
| **Terminal UI** `internal/tui` | the last snapshot | tick, launch the agent, quit | it follows the tables; a signal ends it and its agent |
| **MCP server** `internal/mcp` | none | `post_to_log`, `ask_peer`, `respond_to_peer`, `get_shared_log`, `list_shared_files`, `set_status` | an agent that reads on misses and repeats nothing |
| **Protocol, invites** `pkg/protocol`, `invite.go` | none | encode, decode | (data) |
| **MemHub** `memory.go` | hub of in-memory transports | test double of the transport | as the transport |
| status, export, path filter, names, web, experiments | - | input and output, pure functions | - |

How they interact.  A call on the store mutates it under a mutex and *after the
unlock* announces the change on a bounded channel.  The sync engine is the
channel's only reader: it broadcasts local changes to the transport's peer table
and, in the same goroutine, merges what the transport receives into the store.
The directory watcher and each debounce timer run beside it.  The transport's
receive loop handles the handshake, fills the receive channel and emits join and
leave events; `trackPeerEvents`, another goroutine, follows the events and, on the
host, replays the log to who joined.  `runCreate` and `runJoin` bring all of it up
in order and take it down through deferred calls.

What is hard to test here: emissions of several goroutines into a full channel;
the same path written and deleted on several peers with skewed clocks; the engine
writing a file that the watcher then reports; a joiner added while entries are
being posted and replayed; a message lost, a channel full, a goodbye overtaking a
join; two status calls at once; two sessions of a machine sharing a file; a signal or a
dead daemon between any two steps of start-up or shut-down.
`PROJECT.json` lists each hazard at its line with the properties that cover it.

## 2. The modules

| module | models | abstraction it checks against |
|---|---|---|
| `FileIndex` | the merge rules of a path: versions, `UpsertFile`, `DeleteFile` | the register ordered by `Outranks` |
| `Store` (extends `FileIndex`) | one store, its writers and its subscriber | - |
| `NewestWins` | abstract: each peer shows the newest operation it knows | - |
| `Replicas` (extends `FileIndex`) | one store per peer over an arbitrary network | `NewestWins`, by `Abstract == INSTANCE NewestWins WITH ...` |
| `Session` | host, joiners, membership, broadcast, replay, leaving | - |
| `FileSync` (extends `FileIndex`) | disk, watcher, timers, marks and engine of one path | - |
| `Presence` | status lines, the roster and the session ID on the way to a screen | - |
| `StateFile` | `state.json` and the writers of a machine's sessions | - |
| `Lifecycle` (extends `StateFile`) | one run of `create` or `join`: bootstrap, daemon, UI, agent, state writer, beside other sessions | `StateFile`'s `StateSpec`, by a proof |
| `SharedLog` | the log as agents page through it | - |
| `MC*` | finite instances for TLC | |
| `*Proofs` | theorems (section 5) | |

**FileIndex.** `Version` is `(timestamp, peer)`; `LaterThan` is `laterThan` with its
tie-break on the peer ID.  `UpsertAccepted` and `DeleteAccepted` are the conditions
under which `upsertFile` and `deleteFile` go past their early returns.  A content is
its hash.  `Register` is what a pair of map entries means, `Outranks` the order it
should follow (at the same version the delete wins); neither is in the code, they are what
the two maps are measured by.

**Store.** One action is one critical section: `AppendEntry`, `UpsertFile`,
`DeleteFile` mutate and leave the change with the writer (`pc`, `pending`).  The
three selects of `emit` are three actions, `TrySend`, `Evict` and `Resend`, and a send
on the closed channel is `SendOnClosed`, which panics.  `Receive` is the engine taking
a change, only while it is in no store call of its own.  `committed`, `received`,
`dropped` and `crowded` are history: every change has a number, so that a duplicate, a loss or an
overtaking is visible, and a writer is in `crowded` if more changes were outstanding
(announced, and neither received nor lost) than the channel holds when it began to emit.  `sort.Search` is modelled by what it finds, not how.

**Replicas.** `LocalChange` is a local write or delete that its own store accepts and
broadcasts; `Apply` merges an operation that some peer broadcast, in any order and any
number of times, or never.  Clocks are arbitrary: a peer may stamp with any time at
any moment.  `known` is history, and the refinement maps the two maps of each store
to the one register of `NewestWins`.

**Session.** Per peer: `main` (`Join`, `Post`, `Close`, `SendGoodbye`, `Exit`), the receive
loop (`HandleHello`, `HandleHelloAck`, `HandleGoodbye`, `HandleLogEntry`, and the steps
`AddPeer` and `EmitEvent` that follow a handler's sends), the engine (`Broadcast`,
`SendNext`, `ApplyEntry`) and the tracker (`Track`, `SendReplay`).  When the receive channel is
full, `HandleLogEntry` is the first select of `dispatch` and `MakeRoom` the other two, which are
one step because only the receive loop sends on that channel.  A broadcast takes a
snapshot of the peer table and then sends to one destination per step, so that
anything may happen in between.  `Crash` and `Lose` are bounded by `MaxEnding` and
`MaxLost`.  The network delivers in any order.  The joiners in `Former` have been in the
session and left before the behaviours begin: the host's log has their entries, and a
replay sends them under their author's ID.

**Presence.** A call of `set_status` is `StoreStatus` (under the mutex), `SnapshotPeers` and one
`SendStatus` per peer; calls overlap, and go on while `Close` says goodbye.  A line is named
by the number of its call.  `HandleHello` answers before `AddPeer` adds, as the code does;
`HandleHelloAck` and `AddPeer` are the two ends of writing the session ID, which the poller
(`PollInVain`, `Adopt`, `Torn`) reads without a lock, and `Adopt` and `Adopted` those of
writing the copy that `Snapshots` reads: a string is two words, and each reader may find
one of each.  Half a string with no bytes behind it (`Torn`) ends the process.  `Tick`
replaces the last snapshot of a screen; a peer started with `--detach` has none.

**FileSync.** `Edit` is a user, `Watch` the watcher reading an event and (re)starting the
debounce timer, `Fire` the timer with its check of the mark, `Read`, `Merge` and `Send`
the rest of `processFsEvent`; `Apply`, `Mark`, `Mirror` and `Fill` are
`applyInboundFileChunk`: the merge in the store, the mark, and `os.WriteFile`, which
truncates (content `Empty`) and then writes.  `ReadFails` and `MirrorFails` are the disk
operations whose error is logged and forgotten.  `Expire` ends a mark.  A joiner comes with
`Join`, and the host's tracker replays: `List` takes the index, `ReadListed` reads the disk,
`SendListed` sends what it read with the hash that was listed.  Three paces set when users
edit and join and what may be slow: *calm* users wait until all is quiet, *busy* ones do
not, and at the *slow* pace the debounce and the mark may also run out in the middle of a
write.  The pace is chosen in `Init` and never changes.

**StateFile.** Two names, and what each leads to: `OpenTmp` and `WriteTmp` are `os.WriteFile`,
`RenameTmp` and `RenameFails` `os.Rename`, `Tick` and `RemoveFile` the two arms of the select in
`Run`.  A writer that has the temporary file open goes on writing to it under whatever
name another writer's rename has given it.  `StartWriter`, `CloseStop` and `EndProcess` are all
that main does to it.

**Lifecycle.** `at` is where `runCreate` or `runJoin` is, `defers` the stack of its deferred
calls.  Each step of bringing a session up, the build of the node included, succeeds and
goes on, or fails and returns through what is deferred.  A session that is up is the UI
and the agent it launches (`LaunchAgent`, `AgentDone`, `Quit`), or the agent alone with
`--detach`.  `Signal`, `KillDaemon` and `KillAgent` (what `exec.CommandContext` does when the context
is cancelled), `DaemonDies`, the peer table, the state writer and another session of the
machine move at any time.  A goodbye is one attempt (`SendGoodbye`): a running daemon takes
it (`told`), or refuses it or is too slow (`refused`), and `Close` goes on either way; one that
is gone takes nothing.

**SharedLog.** `Post` stamps an entry with any clock value, `Deliver` brings it to a
peer, in any order and again; `ReadOn` is `get_shared_log` called with the timestamp of
the last entry it gave, `ReadOnFromPost` with the timestamp that `post_to_log` returned, which
is cut to the second (`Cut`), and `StartOver` called without one.  `ReadOnFromPost` is for an
agent that has been given everything else and whose post is the newest entry: that is an
assumption about the agent, to which nothing in `mcp.go` or in the description of the tool
holds it.  One that reads on from its post without it misses what came before.

Operators marked "Mutation" are plausible slips (a dropped guard, a forgotten
reset); `PROJECT.json` says which definition each replaces and which property must
then fail.  They show that the property depends on the code, and nothing uses them.

## 3. The runs and their bounds

Every `MC*.cfg` gives values to constants and nothing else.  `CHECK_DEADLOCK FALSE`
is set throughout because every one of these systems may stop: users stop editing,
posting and leaving (a bound of the model), and a process exits.

| run | instance | what it shows |
|---|---|---|
| `store` | 2 writers, one of them the engine; 2 entries with inverted timestamps; 1 path; channel of 2; 4 changes | log = sorted set; no path both file and tombstone; the index only advances; each change in exactly one place; a writer's order kept; only an emission that began with more outstanding than the channel holds loses a change, and only one at a step; calls return although the subscriber may never take anything |
| `store_closed` | the same | *violated:* `NoPanic` |
| `replicas` | 3 peers, 1 path, 2 contents, 2 clock values, 4 operations | strong convergence; no version for two contents; refinement of `NewestWins` |
| `session` | host, a joiner that has left and a joiner, invited or not; an entry of each; channels of 1; one peer may leave or crash, one message may be lost | no gap between replay and broadcast; uninvited peers stay out; a joiner that counts the host is counted by it (the host may count one whose ack was lost); the roster catches up; posts arrive; who says goodbye is gone for good |
| `session_relay` | host and 2 joiners | *violated:* `JoinersShareEntries` |
| `session_early` | host and 1 joiner | *violated:* `EarlyPostsArrive` |
| `filesync` | 2 peers, the joiner there or to come, 1 path, 2 contents and the empty file, 2 timers a peer; edits, joins, failures and times by pace (`MCBounds`) | indexes agree when all is quiet, but for joiners left behind (below); at a calm pace the last edit is on every disk, is published once, and everything comes to rest |
| `filesync_busy` | the same | *violated:* `NothingSuppressed` |
| `lifecycle` | host or joiner, with or without `--detach`, 1 peer to know, another session on the machine | nothing left behind; every known peer offered a goodbye before the stop; the run ends; the state file is whole while sessions do not overlap, and the last one's in the end |
| `lifecycle_signal` | 2 peers to know | *violated:* `GoodbyeOnInterrupt` |
| `shared_log` | 2 peers, 4 entries, 3 timestamps of which 2 are one second, pages of 2 | one conversation up to ties; reading on misses only late or tied entries, and repeats only those of the second of an own post |
| `presence` | host and 1 joiner with a screen, 2 calls by either, 1 round of polling | who is told a line has the last one; it gets to the screen; who has taken a goodbye never adds the leaver again; who leaves vanishes from the screen; the joiner shows the host's session ID |

Why the bounds are enough.

- *Store:* a change is lost only when more changes are under way than the channel
  holds: with room for 2, 4 changes of 2 writers give an eviction, an eviction that
  races a receive, a refill between `Evict` and `Resend`, and a writer that overtakes
  another.  The proofs of section 5 remove the bounds.
- *Replicas:* every decision compares two versions; two clock values and three peers
  give ties, skew, and an operation that is stale at one peer and new at another.
  Symmetry is on contents only (peers are ordered by the tie-break).  Unbounded in
  the proofs.
- *Session:* the host, one peer that has been in and one that comes in are all roles
  there are; an entry of each are the kinds of entry there are, for the host replays what
  others wrote.  Channels of one overflow at once, which the properties must then excuse.
  A second joiner that stays changes nothing for the first, since joiners know only the
  host; `session_relay` has two, for what they do not see of each other.
- *FileSync:* two edits are enough for a conflict and for a second edit while the
  first is applied, an edit and a join for an edit during `Replay`; two timers for a timer
  that fires while another still runs; one failure, since the properties are about
  what one failure leaves behind.  `Times` has room for more readings of the clock than
  the edits account for (`NoEcho` counts them).  Paths do not interact in the code.
  A joiner is *left behind* (`LeftBehind`) when what it shows is older than what the host
  shows and nothing will bring it the difference: `Replay` skipped the path (it was deleted, or
  no longer what it was listed as), or a second joiner wrote it and the host does not
  forward.  With two peers only the first can happen; the proofs are for any number.
- *Lifecycle, StateFile:* two sessions give every order of opening, writing, renaming and
  removing; one peer gives a goodbye due, said or late (two in `lifecycle_signal`).  The
  proofs remove the bounds, except for liveness.
- *Presence:* two calls overlap or follow each other, one before and one after the join,
  or one during the goodbye; any number of calls and of joiners is in the proofs.  The screen is the joiner's, which adopts the ID; the
  host's table is checked by `ToldAreUpToDate`.  A round of polling comes before,
  during or after the ack.
- *SharedLog:* pages of 2 with 4 entries give a cut page and two pages; 3 timestamps
  give ties on and off the page border, and two of
  them the same second (`Second`).  Symmetry is sound: peers and entries appear
  only as such.

## 4. Fairness

Weak fairness stands for one thing: the Go scheduler runs a goroutine that can
run.  `Store` assumes it of the steps of `emit` and *not* of the subscriber, since
`CallsReturn` says that callers need no help from it.  `Session` assumes it of each
peer's receive loop, engine, tracker and closing main; nobody has to join, post, leave
or crash, and the network is only asked to deliver what it does not lose.  `FileSync`
assumes it of engine, watcher, each fired timer and the expiry of a mark (a clock).
`Lifecycle` assumes it of main, of the writers, and that a cancelled context ends the
agent and the UI (the code selects on it); nothing of users, peers, the agent or the
daemon.  Its main is also assumed to get through each step of bringing a session up and
taking it down: `git clone`, `go build`, `claude mcp add` (`WF(Up)`) and `claude mcp remove`
(`WF(Down)`) end at some time, which the code leaves to them, since it runs them without a
context or a timeout.  `Presence` assumes it of each call, receive loop, tracker, poller,
closing main and tick.
The safety runs have no fairness.

## 5. The proofs

All theorems are about `Spec` of the module they extend, for every value of the
constants that satisfies the named assumptions: times and peers are natural
numbers (`VersionsOrdered`: both are only ever compared), the absent value is no
record (`AbsentIsNoRecord`), the channel has some capacity (`ChanCapAssumption`), the
bounds are natural numbers, `Presence` has finitely many joiners (its type invariant counts
events), a content is not the absent value, entries carry natural timestamps (positive ones in `SharedLog`,
where 0 is the zero time), a page has room for an entry, the engine is a writer.

**`FileIndexProofs`** - lemmas: `laterThan` is a strict total order, `Outranks` is transitive
and asymmetric, and what `UpsertAccepted` and `DeleteAccepted` decide from two maps is what one register
would.  `StoreProofs`, `ReplicasProofs` and `FileSyncProofs` cite them.

**`StoreProofs`**

- `StoreTypeCorrect`, `LogIsSortedSet` and `NeverFileAndTombstone`: each inductive by
  itself, given types.
- `RegistersOnlyAdvance` (`IndexOnlyAdvances`): an action property, from the previous
  two and `DecisionsAdvance`.
- `ChangesInOnePlace`, `WritersKeepTheirOrder`: from `EmitInv`.
  Neither is inductive.  `EmitInv` adds that a writer in `emit` holds a change
  of its own that is the *newest* of its changes (so that sending it keeps the order).
  The proof follows the number of every change through the three steps of `emit` on the
  one sequence `received \o changes`.
- `LossOnlyByOverflow` (`LossBounded`), an action property.  `CountInv`: as many changes were
  announced as are received, in the channel, dropped, or with a writer in `emit`.  So a
  writer that finds the channel full sees more outstanding than the channel holds, its own
  change being one of them (`FullIsACrowd`), and who is past the first select began in a
  crowd (`CrowdInv`).  What the subscriber has received counts for nothing.

**`ReplicasProofs`**

- The invariant `IInv` is types, "a peer knows only what was sent", "a peer knows its own
  operations", `FileOrTombstone`, `VersionsUnique`, and `RegistersNewest`: *each store
  shows the newest operation it knows*.  The last one is the heart: it makes what a
  store shows a function of a set, so that order and repetition of messages cannot
  matter.  It needs the others: `VersionsUnique` so that the newest is one operation,
  `OwnOpsKnown` so that a new local operation cannot collide with an older one of the
  same peer.
- `IndexesConverge` (`StrongConvergence`) and `VersionsAreUnique` follow from it.
- `ImplementsNewestWins`: the initial state maps to the initial state, a local change to
  `Issue`, a merge to `Learn` or a stutter.

**`LifecycleProofs`**

- `OwnersInvariant`: the deferred calls are those of a session brought up that far
  (`StackFitsPlace`), a running daemon or agent, a directory or a registration always has
  somebody due to take it away (`EverythingHasOwner`, `DaemonLives`), and, while the daemon lives, the
  goodbyes told, refused and due are the peers Close found (`GoodbyeBook`).
- `NothingLeftBehind` (`LeavesNothingBehind`) and `GoodbyesAreOffered` (`GoodbyesPrecedeStop`) are
  its last states.
- `RunIsASession`: `Spec => StateSpec`.  Every step of a run is a step of `StateFile` or leaves
  its variables alone; with it `FileWholeDuringRun` is `WholeFile` for a run.

- `WholeFile`, of `StateFile` by itself: while no two sessions have been up at once, the file is whole.  What makes
  it inductive is what each writer has open: only the session that is up has a writer
  past `none`, it has the temporary file open between opening and writing, and what
  it renames is what it wrote, whatever the one before has left under that name.

**`SessionProofs`** - any set of joiners and entries, any channels, any
number of losses and of peers that leave or crash.

- `SessionTypeCorrect`: types, with what a message under way may look like.
- `SessionUninvitedStayOut`, from `OnlyInsiders`: not only the tables but everything that leads to
  one (a hello's token, an ack, an event in a channel, a send half done, a message under way)
  names invited peers only.
- `SessionHostKnowsItsJoiners`, from `Membership`: an accepting ack is sent by a host that adds the
  joiner in the same handler, and what takes it out again is a goodbye that the joiner sends
  when it has stopped receiving (`GoodbyesAreMeant`), so it cannot count the host afterwards.
- `SessionRosterCatchesUp`, from `RostersFollow`: the events in the channel, and the one the receive
  loop is about to emit, lead the roster to the table.  `Settled` looks at the last word on each
  peer; that each one has a last one (`LastWords`), and that tracking the first event or adding
  one at the end keeps it, is what the proof is about.
- `SessionNoGap`, from `DebtsServed`: every entry the host owes to a joiner is in the joiner's log, or
  waits with the engine, or is on its way, or is in a replay that is due (`Served`).  A broadcast
  that began before the joiner was added does not count it, and the replay that its own
  joined event starts makes up for it, because the event comes after the table has changed.

**`SharedLogProofs`** - any peers, entries, clocks, pages and seconds.

- The invariant `IInv` is types, `Ordered` (each copy sorted, no entry twice), `MissesOnlyLateOrTied` and
  `GivenAgainOnlyAfterPost` (`RepeatsOnlyTheSecondOfAPost` said of entries and not of places).
- `SharedLogOneConversation` is two sorted copies side by side.
- `SharedLogMissesOnlyLateOrTied`: what is before the end of a page in a sorted log is in the page
  (`PageIsAPrefix`), so a cursor moved to its last timestamp leaves behind only ties.
- `SharedLogRepeatsOnlyTheSecondOfAPost`: a cut timestamp is behind the post by less than a second,
  and nothing in the log is after the post (`SameSecond`).

**`FileSyncProofs`** - any peers, contents, timers and bounds, any disk operation failing.

- `FileSyncTypeCorrect`: types; the set of late joiners stays finite.
- `FileSyncIndexesAgree`, from `IndexInv`, at every pace.  `Quiet` says that nothing is under way, so
  the invariant has to say what is, for every difference of two indexes.  `Downwards`: a joiner
  shows what the host shows, or a later operation, or the host's timer has it to send, or
  it is in the network, or due or listed in `Replay` - or the joiner is left behind.  `Upwards`: the
  same from a joiner to the host, where there is no replay and no excuse.  Neither is
  inductive without `AuthorsAhead` (who wrote an operation shows it or a later one, so a
  message cannot overtake its own author), `HostAhead` (what goes to a joiner the host has
  shown), and `VersionsUnique`, which in turn needs `InThePast`: the clock has been read once for
  each operation.
- `FileSyncNoEcho` and `FileSyncLastEdit`, from `CalmInv`.  At a calm pace an edit is in one of three
  phases.  `Saved`: its event is to come, everything else is at rest.  `Taken`: one timer has it,
  with an operation newer than every index.  `Spreads`: the rest, in which no timer is busy, at most one
  message is to come to a peer and it comes to a peer at rest (`OneToCome`), and every event at
  a peer is *marked* (`Covered`), so that the timer that fires for it uses the mark up and
  reads nothing.  Hence each edit reads the clock once, which is `NoEcho`, and when `Spreads` is
  over each disk has what its index has, or its peer could not write or is left behind.
  A failed write leaves a mark with no event: that is why `Covered` says "event implies mark"
  and not "exactly when", and why calm users also wait until every mark has run out.

**`PresenceProofs`** - any finite set of joiners, any number of calls and polls.

- `PresenceTypeCorrect`, from `Meeting`: a joiner and the host meet once.  The hello is the first line
  to the host and the ack the first to the joiner (`Openings`), and before it is taken neither
  knows or has named the other (`Freshness`); so no event is emitted twice (`EventsOnce`), and
  `FewEvents` counts them by an injection.
- `PresenceToldAreUpToDate`, from `Telling`: a line that was sent is in the table of the receiver or the
  last of its kind under way (`Told`).  The receiver drops a line of a peer it does not have, so
  `Mutual` is needed: while both run, who has the other in its table, or is to add it, is had
  or to be added by the other, because the joiner adds the host only for an ack, and the
  host takes nothing between sending the ack and adding.
- `PresenceGoodbyeHolds`, from `Parting`: the goodbye is behind every hello and ack of the leaver, so
  that who has taken it has nothing left to add the leaver for, and the joiner's own hello has been
  taken before the host can say goodbye to it.

Only model-checked: all liveness (`CallsReturn`, `PostsArrive`, `GoodbyeIsFinal`,
`EditsSettle`, `EndsWhenAsked`, `LastSessionOwnsFile`, `StatusIsShown`, `LeaversVanish`,
`HostIdShown`), which is out of the prover's reach.  Every safety property that a passing run
checks is a theorem as well.

## 6. Where code and docs disagree

Five runs end in a violation, each of a sentence the repository writes about itself.

1. `store_closed` - the store is "Safe for concurrent use" (store.go 46-47), but `emit` runs
   after the unlock and sends on a channel that `Close` may have closed: a tool call or
   a debounce timer that is in `emit` during shutdown panics.
2. `session_relay` - "every `post_to_log` from any peer's agent appears in every other peer's
   `get_shared_log`" (README.md:56-58).  A joiner knows only the host, and the host does not
   forward: of two joiners, what one posts after the other joined never gets to it.
3. `session_early` - the same sentence, in a session of two: what a joiner posts before the
   host's ack is in goes to an empty peer table and is never sent again.
4. `filesync_busy` - "genuine edits made shortly after aren't suppressed" (sync.go 33-36): an
   edit in the debounce window of an applied write, or the first timer after a write
   that raised no event, uses the mark up, and the edit is in no index.
5. `lifecycle_signal` - a goodbye is "Sent before clean disconnect" (docs/07-protocol.md:32),
   but the signal that ends a session kills the daemon the goodbye needs.

Met on the way, and not given a run of their own:

- Of two entries with one timestamp the ID is to decide (docs/04-component-store.md:129), but
  the store keeps them in order of arrival (store.go 80), so two peers may show them in
  different orders.  `OneConversation` is therefore stated up to ties.
- A deleted file comes back at a joiner if the delete was broadcast before it joined and a
  timer sends an older write of the file only after: the joiner has no tombstone to
  refuse it with, and `Replay` sends none (`IndexesAgree` excuses a joiner that is left behind).
- Of three peers, the one that did not write a path keeps its old version: the host does
  not forward a joiner's files any more than its entries (`LeftBehind`).  A proof of
  `IndexesAgree` for more than one joiner failed on it; a run has two peers.
- A join during an edit can bring the joiner two versions back to back, whose two writes
  share the one mark: the second is then published by the joiner.  This is why *calm*
  users do not join during an edit either.
- `set_status` "appears under your handle in everyone's TUI" (README.md:186), and the
  "latest wins per peer" (protocol.go 109): a later joiner is not told, joiners do not
  see each other's lines, and of two calls that overlap the older may be shown.
  `StatusIsShown` is for peers that have met and calls that do not overlap.
- main does not wait for the state writer: the file of a session often outlives it, and
  `collab status` then shows a session that has ended.
- A joiner whose ack takes more than ten seconds shows the ID of its own directory for good.

## 7. What is not modelled

- In `FileSync`: directories that appear (a file created before the watch is added is not
  noticed, sync.go 305), the path filter, clocks of each peer (one clock per peer is more
  than TLC can do here; the index under skew is in `Replicas`), and the window between
  `os.Stat` and `os.ReadFile` in `processFsEvent` (they are one `Read`).  Messages are not
  lost there.
- In `Presence`: lost and reordered messages.  Lines have no version and are sent once, so
  nothing could be said of them.
- In `Lifecycle`: clean-up commands that fail, and the panic of a goroutine (it is in
  `Store`).  The restart of a dead daemon that docs/06-component-transport.md describes is
  not in the code, nor is the removal of peers that have crashed.
- In `Session`: a log is a set (its order is `Store`'s and `SharedLog`'s business), and files
  travel like entries (they are in `FileSync`).
- `MemHub`: a test double that only tests construct.
- The race for the MCP port (create.go 348), which is the operating system's.
- Encoding, invites' text, names, layout of the terminal UI, status and export commands,
  web site and experiments: formatting or plain input and output; an invite is
  whether it carries the host's token.

## 8. The plan

In the order of importance; what is left is marked.

1. `FileIndex`, `Store`, `Replicas` with `NewestWins`: the data that is replicated. *(done, proved)*
2. `Session`, `FileSync`: how it travels. *(done, proved)*
3. `StateFile`, `Lifecycle`: the run around it. *(done, proved)*
4. `SharedLog`, `Presence`: the agents' and the users' view of it. *(done, proved)*
5. `FileSync` implements `NewestWins` on one path, with the index of each peer as what it shows
   (so far its agreement is proved directly); a second look at what the hazards without a
   property would need: directories that appear, and a clock per peer. *(to do)*
