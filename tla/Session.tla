---- MODULE Session ----
(***************************************************************************)
(* A session of one host and its joiners: the handshake, the peer tables,  *)
(* the join and leave events, the broadcast of posted entries, the replay  *)
(* of the host's log to a joiner, and leaving (internal/transport/axl.go,  *)
(* Run, Replay and the two message handlers of internal/sync/sync.go, and  *)
(* runCreate, runJoin and trackPeerEvents of cmd/collab).                  *)
(*                                                                         *)
(* Four goroutines of a peer are separate here: the receive loop of the    *)
(* transport, the sync engine, the event tracker, and main, which joins    *)
(* and closes.  A broadcast or a replay is one step per destination or     *)
(* message.  The Axl network is external: it delivers in any order, and    *)
(* may lose a message, which no peer notices or retries.                   *)
(*                                                                         *)
(* A log is the set of its entries (Store orders it), and the changes the  *)
(* store announces are a set, which is what Store shows of them while they *)
(* fit in the channel.  Files travel like entries and are left to modules  *)
(* of their own.  Every run of the program has a fresh daemon with a fresh *)
(* key, so a peer ID joins once.  The host may have been at it for a while *)
(* before the behaviours begin, with joiners that have left their entries. *)
(***************************************************************************)
EXTENDS Naturals, Sequences, FiniteSets

CONSTANTS Host,      \* the peer that ran "collab create"
          Joiners,   \* the peers that run "collab join"
          Former,    \* those of them that have been in the session and left it
          Entries,   \* log entries, by ID
          AuthorOf,  \* the peer whose agent or user posts an entry
          InCap,     \* capacity of the transport's receive channel (256 in the code)
          EventCap,  \* capacity of its event channel (16 in the code)
          MaxEnding, \* bound: peers that close or crash in one behaviour
          MaxLost    \* bound: messages the network loses in one behaviour

Peers == {Host} \cup Joiners

\* The peers whose part in the session is still to come.
Present == Peers \ Former

ASSUME MembersAssumption == Host \notin Joiners /\ Former \subseteq Joiners
ASSUME AuthorAssumption == AuthorOf \in [Entries -> Peers]
ASSUME CapAssumption == InCap \in Nat \ {0} /\ EventCap \in Nat \ {0}

VARIABLES
    invited,     \* the joiners whose invite carries the host's token; it never changes
    life,        \* peer -> "out", "running", "closing", "left" or "crashed"
    table,       \* peer -> the transport's peers
    recvLoop,    \* peer -> what the receive loop is in the middle of
    events,      \* peer -> the event channel
    roster,      \* peer -> the session's own peers
    in,          \* peer -> the receive channel
    log,         \* peer -> the entries in its store
    announced,   \* peer -> local entries the engine has not taken up yet
    outbox,      \* peer -> the rest of the engine's current broadcast
    replay,      \* peer -> the rest of the tracker's current replay
    farewell,    \* peer -> the peers Close has still to say goodbye to
    net,         \* messages on their way
    lost,        \* history: messages the network has lost
    overflowed,  \* history: peer -> a full channel has dropped something
    backlog      \* history: joiner -> the host's log when it was added

transport == <<table, recvLoop, events, in>>
engine == <<log, announced, outbox>>
vars == <<invited, life, transport, engine, roster, replay, farewell, net, lost, overflowed, backlog>>

\* `from` is the PeerID of the envelope, and `via` tells apart the copies of an entry
\* that reach one peer by a broadcast and by a replay.
Control == [kind : {"hello"}, to : Peers, from : Peers, invited : BOOLEAN]
    \cup [kind : {"hello_ack"}, to : Peers, from : Peers, accepted : BOOLEAN]
    \cup [kind : {"goodbye"}, to : Peers, from : Peers]
LogEntry == [kind : {"log_entry"}, to : Peers, from : Peers, entry : Entries,
             via : {"broadcast", "replay"}]
Event == [kind : {"joined", "left"}, peer : Peers]
Polling == [at |-> "poll"]
Stopped == [at |-> "stopped"]

TypeOK ==
    /\ invited \subseteq Joiners
    /\ life \in [Peers -> {"out", "running", "closing", "left", "crashed"}]
    /\ table \in [Peers -> SUBSET Peers]
    /\ recvLoop \in [Peers -> {Polling, Stopped}
                         \cup [at : {"addPeer"}, peer : Peers]
                         \cup [at : {"emit"}, event : Event]
                         \cup [at : {"makeRoom"}, msg : LogEntry]]
    /\ events \in [Peers -> Seq(Event)] /\ \A p \in Peers : Len(events[p]) <= EventCap
    /\ roster \in [Peers -> SUBSET Peers]
    /\ in \in [Peers -> Seq(LogEntry)] /\ \A p \in Peers : Len(in[p]) <= InCap
    /\ log \in [Peers -> SUBSET Entries]
    /\ announced \in [Peers -> SUBSET Entries]
    /\ outbox \in [Peers -> SUBSET LogEntry]
    /\ replay \in [Peers -> SUBSET LogEntry]
    /\ farewell \in [Peers -> SUBSET Peers]
    /\ net \subseteq Control \cup LogEntry
    /\ lost \in Nat
    /\ overflowed \in [Peers -> BOOLEAN]
    /\ backlog \in [Joiners -> SUBSET Entries]

Init ==
    /\ invited \in SUBSET Joiners /\ Former \subseteq invited
    /\ life = [p \in Peers |-> IF p = Host THEN "running" ELSE IF p \in Former THEN "left" ELSE "out"]
    /\ table = [p \in Peers |-> {}]
    /\ recvLoop = [p \in Peers |-> Polling]
    /\ events = [p \in Peers |-> <<>>]
    /\ roster = [p \in Peers |-> {}]
    /\ in = [p \in Peers |-> <<>>]
    /\ log = [p \in Peers |-> IF p = Host THEN {e \in Entries : AuthorOf[e] \in Former} ELSE {}]
    /\ announced = [p \in Peers |-> {}]
    /\ outbox = [p \in Peers |-> {}]
    /\ replay = [p \in Peers |-> {}]
    /\ farewell = [p \in Peers |-> {}]
    /\ net = {}
    /\ lost = 0
    /\ overflowed = [p \in Peers |-> FALSE]
    /\ backlog = [j \in Joiners |-> {}]

Alive(p) == life[p] \in {"running", "closing"}

\* What is sent to a peer that is gone is refused by its daemon; the sender goes on.
InTransit(msgs) == {m \in msgs : life[m.to] \notin {"left", "crashed"}}

----
(* main: joining, posting for the agent, leaving.                          *)

Join(j) ==
    /\ j \in Joiners
    /\ life[j] = "out"
    /\ life' = [life EXCEPT ![j] = "running"]
    /\ net' = net \cup InTransit({[kind |-> "hello", to |-> Host, from |-> j,
                                   invited |-> j \in invited]})
    /\ UNCHANGED <<invited, transport, engine, roster, replay, farewell, lost, overflowed, backlog>>

\* A tool of the MCP server appends an entry; the store announces it as local.
Post(p, e) ==
    /\ life[p] = "running"
    /\ AuthorOf[e] = p
    /\ e \notin log[p]
    /\ log' = [log EXCEPT ![p] = @ \cup {e}]
    /\ announced' = [announced EXCEPT ![p] = @ \cup {e}]
    /\ UNCHANGED <<invited, life, transport, outbox, roster, replay, farewell, net, lost, overflowed, backlog>>

Ending == {p \in Present : life[p] \in {"closing", "left", "crashed"}}
MayEnd(p) == Cardinality(Ending \cup {p}) <= MaxEnding

\* Close tells the receive loop to stop and snapshots the peer table.
Close(p) ==
    /\ life[p] = "running"
    /\ MayEnd(p)
    /\ life' = [life EXCEPT ![p] = "closing"]
    /\ farewell' = [farewell EXCEPT ![p] = table[p]]
    /\ UNCHANGED <<invited, transport, engine, roster, replay, net, lost, overflowed, backlog>>

SendGoodbye(p, q) ==
    /\ life[p] = "closing"
    /\ q \in farewell[p]
    /\ farewell' = [farewell EXCEPT ![p] = @ \ {q}]
    /\ net' = net \cup InTransit({[kind |-> "goodbye", to |-> q, from |-> p]})
    /\ UNCHANGED <<invited, life, transport, engine, roster, replay, lost, overflowed, backlog>>

\* The process ends, and its memory with it.
End(p, how) ==
    /\ life' = [life EXCEPT ![p] = how]
    /\ table' = [table EXCEPT ![p] = {}]
    /\ recvLoop' = [recvLoop EXCEPT ![p] = Stopped]
    /\ events' = [events EXCEPT ![p] = <<>>]
    /\ in' = [in EXCEPT ![p] = <<>>]
    /\ log' = [log EXCEPT ![p] = {}]
    /\ announced' = [announced EXCEPT ![p] = {}]
    /\ outbox' = [outbox EXCEPT ![p] = {}]
    /\ roster' = [roster EXCEPT ![p] = {}]
    /\ replay' = [replay EXCEPT ![p] = {}]
    /\ farewell' = [farewell EXCEPT ![p] = {}]
    /\ net' = {m \in net : m.to # p}
    /\ UNCHANGED <<invited, lost, overflowed, backlog>>

Exit(p) == life[p] = "closing" /\ farewell[p] = {} /\ End(p, "left")

Crash(p) == Alive(p) /\ MayEnd(p) /\ End(p, "crashed")

----
(* The receive loop of the transport.                                      *)

\* The loop goes back to its poll, unless Close has told it to stop.
Loop(p) == IF life[p] = "running" THEN Polling ELSE Stopped

Arrives(p, m) ==
    /\ Alive(p)
    /\ recvLoop[p] = Polling
    /\ m \in net
    /\ m.to = p

\* Mutation: any hello is accepted.
AcceptAnyone(m) == TRUE
Accepted(m) == m.invited

\* Mutation: every hello gets a friendly answer.
AckAnyway(p, m) ==
    /\ Arrives(p, m) /\ m.kind = "hello"
    /\ p = Host
    /\ net' = (net \ {m}) \cup InTransit({[kind |-> "hello_ack", to |-> m.from, from |-> p,
                                           accepted |-> TRUE]})
    /\ recvLoop' = [recvLoop EXCEPT ![p] =
           IF Accepted(m) THEN [at |-> "addPeer", peer |-> m.from] ELSE Loop(p)]
    /\ UNCHANGED <<invited, life, table, events, in, engine, roster, replay, farewell, lost, overflowed, backlog>>

\* handleHello: answer first, then add the peer.
HandleHello(p, m) ==
    /\ Arrives(p, m) /\ m.kind = "hello"
    /\ p = Host
    /\ net' = (net \ {m}) \cup InTransit({[kind |-> "hello_ack", to |-> m.from, from |-> p,
                                           accepted |-> Accepted(m)]})
    /\ recvLoop' = [recvLoop EXCEPT ![p] =
           IF Accepted(m) THEN [at |-> "addPeer", peer |-> m.from] ELSE Loop(p)]
    /\ UNCHANGED <<invited, life, table, events, in, engine, roster, replay, farewell, lost, overflowed, backlog>>

HandleHelloAck(p, m) ==
    /\ Arrives(p, m) /\ m.kind = "hello_ack"
    /\ net' = net \ {m}
    /\ recvLoop' = [recvLoop EXCEPT ![p] =
           IF m.accepted THEN [at |-> "addPeer", peer |-> m.from] ELSE Loop(p)]
    /\ UNCHANGED <<invited, life, table, events, in, engine, roster, replay, farewell, lost, overflowed, backlog>>

\* addPeer: the table first, then the event; a peer that is there already is no news.
AddPeer(p) ==
    /\ Alive(p)
    /\ recvLoop[p].at = "addPeer"
    /\ LET q == recvLoop[p].peer
       IN  /\ table' = [table EXCEPT ![p] = @ \cup {q}]
           /\ recvLoop' = [recvLoop EXCEPT ![p] =
                  IF q \in table[p] THEN Loop(p)
                  ELSE [at |-> "emit", event |-> [kind |-> "joined", peer |-> q]]]
           /\ backlog' = IF p = Host /\ q \notin table[p] THEN [backlog EXCEPT ![q] = log[p]]
                        ELSE backlog
    /\ UNCHANGED <<invited, life, events, in, engine, roster, replay, farewell, net, lost, overflowed>>

\* Mutation: the peer is removed and nobody is told.
RemoveSilently(p, m) ==
    /\ Arrives(p, m) /\ m.kind = "goodbye"
    /\ net' = net \ {m}
    /\ table' = [table EXCEPT ![p] = @ \ {m.from}]
    /\ recvLoop' = [recvLoop EXCEPT ![p] = Loop(p)]
    /\ UNCHANGED <<invited, life, events, in, engine, roster, replay, farewell, lost, overflowed, backlog>>

HandleGoodbye(p, m) ==
    /\ Arrives(p, m) /\ m.kind = "goodbye"
    /\ net' = net \ {m}
    /\ table' = [table EXCEPT ![p] = @ \ {m.from}]
    /\ recvLoop' = [recvLoop EXCEPT ![p] =
           IF m.from \in table[p]
           THEN [at |-> "emit", event |-> [kind |-> "left", peer |-> m.from]]
           ELSE Loop(p)]
    /\ UNCHANGED <<invited, life, events, in, engine, roster, replay, farewell, lost, overflowed, backlog>>

\* Mutation: the event channel has no bound.
EmitAnyway(p) ==
    /\ Alive(p)
    /\ recvLoop[p].at = "emit"
    /\ recvLoop' = [recvLoop EXCEPT ![p] = Loop(p)]
    /\ events' = [events EXCEPT ![p] = Append(@, recvLoop[p].event)]
    /\ UNCHANGED <<invited, life, table, in, engine, roster, replay, farewell, net, lost, overflowed, backlog>>

\* The event is sent, or dropped by a full channel.
EmitEvent(p) ==
    /\ Alive(p)
    /\ recvLoop[p].at = "emit"
    /\ recvLoop' = [recvLoop EXCEPT ![p] = Loop(p)]
    /\ \/ /\ Len(events[p]) < EventCap
          /\ events' = [events EXCEPT ![p] = Append(@, recvLoop[p].event)]
          /\ UNCHANGED overflowed
       \/ /\ Len(events[p]) = EventCap
          /\ overflowed' = [overflowed EXCEPT ![p] = TRUE]
          /\ UNCHANGED events
    /\ UNCHANGED <<invited, life, table, in, engine, roster, replay, farewell, net, lost, backlog>>

\* An entry goes to the engine, if there is room for it.
HandleLogEntry(p, m) ==
    /\ Arrives(p, m) /\ m.kind = "log_entry"
    /\ net' = net \ {m}
    /\ \/ /\ Len(in[p]) < InCap
          /\ in' = [in EXCEPT ![p] = Append(@, m)]
          /\ recvLoop' = [recvLoop EXCEPT ![p] = Loop(p)]
       \/ /\ Len(in[p]) = InCap
          /\ recvLoop' = [recvLoop EXCEPT ![p] = [at |-> "makeRoom", msg |-> m]]
          /\ UNCHANGED in
    /\ UNCHANGED <<invited, life, table, events, engine, roster, replay, farewell, lost, overflowed, backlog>>

\* A full channel gives up its oldest entry for the new one, unless the engine has emptied
\* it by now.  Only the receive loop sends, so there is room for the new one then, and it
\* makes no difference whether the engine takes another in between.
MakeRoom(p) ==
    /\ Alive(p)
    /\ recvLoop[p].at = "makeRoom"
    /\ \/ /\ in[p] # <<>>
          /\ in' = [in EXCEPT ![p] = Append(Tail(@), recvLoop[p].msg)]
          /\ overflowed' = [overflowed EXCEPT ![p] = TRUE]
       \/ /\ in[p] = <<>>
          /\ in' = [in EXCEPT ![p] = <<recvLoop[p].msg>>]
          /\ UNCHANGED overflowed
    /\ recvLoop' = [recvLoop EXCEPT ![p] = Loop(p)]
    /\ UNCHANGED <<invited, life, table, events, engine, roster, replay, farewell, net, lost, backlog>>

----
(* The sync engine, one goroutine: it does one thing at a time.            *)

EngineFree(p) == Alive(p) /\ outbox[p] = {}

\* Mutation: the session's peers are taken for the transport's.
RosterTargets(p) == roster[p]
Targets(p) == table[p]

\* handleLocalChange takes the targets from the peer table as it is now.
Broadcast(p, e) ==
    /\ EngineFree(p)
    /\ e \in announced[p]
    /\ announced' = [announced EXCEPT ![p] = @ \ {e}]
    /\ outbox' = [outbox EXCEPT ![p] =
           {[kind |-> "log_entry", to |-> q, from |-> p, entry |-> e, via |-> "broadcast"] :
               q \in Targets(p)}]
    /\ UNCHANGED <<invited, life, transport, log, roster, replay, farewell, net, lost, overflowed, backlog>>

SendNext(p, m) ==
    /\ Alive(p)
    /\ m \in outbox[p]
    /\ outbox' = [outbox EXCEPT ![p] = @ \ {m}]
    /\ net' = net \cup InTransit({m})
    /\ UNCHANGED <<invited, life, transport, log, announced, roster, replay, farewell, lost, overflowed, backlog>>

\* handleInboundMessage: an entry under our own ID is an echo; any other is appended,
\* and the change it announces is not local and goes no further.
ApplyEntry(p) ==
    /\ EngineFree(p)
    /\ in[p] # <<>>
    /\ in' = [in EXCEPT ![p] = Tail(@)]
    /\ log' = IF Head(in[p]).from = p THEN log
              ELSE [log EXCEPT ![p] = @ \cup {Head(in[p]).entry}]
    /\ UNCHANGED <<invited, life, table, recvLoop, events, announced, outbox, roster, replay, farewell,
                   net, lost, overflowed, backlog>>

----
(* The tracker of peer events; on the host it replays the log in between.  *)

\* Mutation: only what is newer than the join is replayed.
ReplaySinceJoin(p, q) ==
    {[kind |-> "log_entry", to |-> q, from |-> AuthorOf[e], entry |-> e, via |-> "replay"] :
        e \in log[p] \ backlog[q]}
ReplayTo(p, q) ==
    {[kind |-> "log_entry", to |-> q, from |-> AuthorOf[e], entry |-> e, via |-> "replay"] :
        e \in log[p]}

\* Mutation: who has joined is never forgotten.
TrackedJoins(peers, ev) == peers \cup {ev.peer}
Tracked(peers, ev) ==
    IF ev.kind = "joined" THEN peers \cup {ev.peer} ELSE peers \ {ev.peer}

Track(p) ==
    /\ Alive(p)
    /\ replay[p] = {}
    /\ events[p] # <<>>
    /\ LET ev == Head(events[p])
       IN  /\ roster' = [roster EXCEPT ![p] = Tracked(@, ev)]
           /\ replay' = [replay EXCEPT ![p] =
                  IF ev.kind = "joined" /\ p = Host THEN ReplayTo(p, ev.peer) ELSE {}]
    /\ events' = [events EXCEPT ![p] = Tail(@)]
    /\ UNCHANGED <<invited, life, table, recvLoop, in, engine, farewell, net, lost, overflowed, backlog>>

SendReplay(p, m) ==
    /\ Alive(p)
    /\ m \in replay[p]
    /\ replay' = [replay EXCEPT ![p] = @ \ {m}]
    /\ net' = net \cup InTransit({m})
    /\ UNCHANGED <<invited, life, transport, engine, roster, farewell, lost, overflowed, backlog>>

----
(* The network.                                                            *)

Lose(m) ==
    /\ lost < MaxLost
    /\ m \in net
    /\ net' = net \ {m}
    /\ lost' = lost + 1
    /\ UNCHANGED <<invited, life, transport, engine, roster, replay, farewell, overflowed, backlog>>

Receive(p, m) ==
    \/ HandleHello(p, m)
    \/ HandleHelloAck(p, m)
    \/ HandleGoodbye(p, m)
    \/ HandleLogEntry(p, m)

RecvStep(p) == AddPeer(p) \/ EmitEvent(p) \/ MakeRoom(p) \/ \E m \in net : Receive(p, m)
EngineStep(p) ==
    \/ ApplyEntry(p)
    \/ \E e \in announced[p] : Broadcast(p, e)
    \/ \E m \in outbox[p] : SendNext(p, m)
TrackStep(p) == Track(p) \/ \E m \in replay[p] : SendReplay(p, m)
CloseStep(p) == Exit(p) \/ \E q \in farewell[p] : SendGoodbye(p, q)

Next ==
    \/ \E p \in Peers :
          \/ Join(p) \/ Close(p) \/ Crash(p)
          \/ \E e \in Entries : Post(p, e)
          \/ RecvStep(p) \/ EngineStep(p) \/ TrackStep(p) \/ CloseStep(p)
    \/ \E m \in net : Lose(m)

Spec == Init /\ [][Next]_vars

\* Every goroutine that has something to do does it in the end.  Nobody has to join,
\* post, leave or crash, and nothing is assumed of the network but that it loses at
\* most MaxLost messages.
FairSpec ==
    /\ Spec
    /\ \A p \in Present : /\ WF_vars(RecvStep(p)) /\ WF_vars(EngineStep(p))
                          /\ WF_vars(TrackStep(p)) /\ WF_vars(CloseStep(p))

----
(* Properties.                                                             *)

\* A joiner that counts the host among its peers is known to the host, or about to
\* be: the host adds a joiner in the handler that sends it the ack, and removes it
\* only on its goodbye, which it sends when it is past receiving (axl.go 389-426).
HostKnowsItsJoiners ==
    \A j \in Joiners :
       life[j] = "running" /\ Host \in table[j] /\ life[Host] = "running" =>
          \/ j \in table[Host]
          \/ recvLoop[Host] = [at |-> "addPeer", peer |-> j]

\* A joiner whose invite is not the host's sees no entry of others, and its own
\* entries are in no other log, whatever it posts (axl.go 389-405, 414-417).
UninvitedStayOut ==
    \A j \in Joiners \ invited :
       /\ \A e \in log[j] : AuthorOf[e] = j
       /\ \A p \in Peers \ {j} : \A e \in log[p] : AuthorOf[e] # j
       /\ \A p \in Peers : j \notin table[p] \cup roster[p]

\* The session's peers as they will be once the events on their way are tracked.
Settled(p) ==
    LET due == IF recvLoop[p].at = "emit" THEN Append(events[p], recvLoop[p].event)
               ELSE events[p]
        Latest(q) == {i \in DOMAIN due : due[i].peer = q
                                         /\ \A k \in DOMAIN due : due[k].peer = q => k <= i}
    IN  {q \in Peers : IF Latest(q) = {} THEN q \in roster[p]
                       ELSE \A i \in Latest(q) : due[i].kind = "joined"}

\* The session's own peer table, which the state file and the terminal UI show, catches
\* up with the transport's unless the event channel has overflowed (session.go 55-69).
RosterCatchesUp ==
    \A p \in Peers : ~overflowed[p] => Settled(p) = table[p]

\* The ways an entry that is not in j's log yet can still get there from the host.
OnItsWay(e, j) ==
    LET To(msgs) == \E m \in msgs : m.kind = "log_entry" /\ m.to = j /\ m.entry = e
    IN  \/ e \in announced[Host]
        \/ To(net \cup outbox[Host] \cup replay[Host])
        \/ \E i \in DOMAIN in[j] : in[j][i].entry = e
        \/ recvLoop[j].at = "makeRoom" /\ recvLoop[j].msg.entry = e
        \/ [kind |-> "joined", peer |-> j] \in
              {events[Host][i] : i \in DOMAIN events[Host]}
        \/ recvLoop[Host] = [at |-> "emit", event |-> [kind |-> "joined", peer |-> j]]

\* Between replay and broadcast there is no gap: what the host's log held when a
\* joiner was added, and every entry the host itself posts before or after, is in the
\* joiner's log or on its way there, unless a message was lost or a channel
\* overflowed (sync.go 104-154, 160-180; create.go 142-147; axl.go 170-187, 442-454).
NoGapBetweenReplayAndBroadcast ==
    \A j \in table[Host] :
       Alive(Host) /\ life[j] = "running" /\ lost = 0 /\ ~overflowed[Host] /\ ~overflowed[j] =>
          \A e \in log[Host] :
             (AuthorOf[e] = Host \/ e \in backlog[j]) /\ AuthorOf[e] # j =>
                e \in log[j] \/ OnItsWay(e, j)

\* What a peer posts while it has q for a peer gets to q, if both stay and nothing is
\* lost (README.md 56-58, for two peers that have met).
PostsArrive ==
    \A p \in Present : \A q \in Present \ {p} : \A e \in {f \in Entries : AuthorOf[f] = p} :
          (e \in announced[p] /\ q \in table[p]) ~>
             (e \in log[q] \/ life[p] # "running" \/ life[q] # "running"
              \/ lost > 0 \/ overflowed[q])

\* A peer that says goodbye to one that has it in its table disappears from that table
\* and from the session's peers for good, although its join event may still be queued
\* when its goodbye is handled: nothing that is under way adds it again (axl.go 424-426,
\* 442-467; session.go 55-69).
GoodbyeIsFinal ==
    \A p \in Present : \A q \in Present \ {p} :
       (q \in farewell[p] /\ p \in table[q]) ~>
          [](p \notin table[q] \cup roster[q]
             \/ life[p] = "crashed" \/ lost > 0 \/ overflowed[q])

\* "Every post_to_log from any peer's agent appears in every other peer's
\* get_shared_log" (README.md 56-58), once nothing is under way any more.
Quiet ==
    /\ net = {}
    /\ \A p \in Peers :
          /\ recvLoop[p] \in {Polling, Stopped} /\ events[p] = <<>> /\ in[p] = <<>>
          /\ announced[p] = {} /\ outbox[p] = {} /\ replay[p] = {}

\* The host's log is everyone's: what one joiner posts reaches the other joiners.
JoinersShareEntries ==
    Quiet /\ life[Host] = "running" =>
       \A j \in table[Host] : life[j] = "running" => log[Host] \subseteq log[j]

\* What a joiner has posted reaches the host, in a session of two that have met.
EarlyPostsArrive ==
    Quiet /\ life[Host] = "running" =>
       \A j \in table[Host] :
          life[j] = "running" /\ Host \in table[j] => log[j] \subseteq log[Host]
====
