---- MODULE Presence ----
(***************************************************************************)
(* What the terminal UI of a peer shows of the others: their status lines, *)
(* which set_status broadcasts as peer_status messages, the session's peer *)
(* table they are shown in, and the ID of the session, which a joiner      *)
(* adopts from the host (internal/transport/axl.go, trackPeerEvents of     *)
(* cmd/collab/session.go, runJoin and sessionToTUI of cmd/collab/create.go,*)
(* and the tick of internal/tui/model.go).                                 *)
(*                                                                         *)
(* A tool call of the MCP server is a goroutine of its own, so calls of    *)
(* one peer may overlap, and outlive the snapshot that Close takes.  The   *)
(* receive loop, the event tracker, the UI's tick and the polling for the  *)
(* session ID are others.  A status line is named by the call that set it. *)
(*                                                                         *)
(* The Axl network is external.  Here it loses nothing and keeps the order *)
(* of one peer's messages to another: lines carry no version and are not   *)
(* sent again, so without that no line could be relied on.  Session has a  *)
(* network that loses and reorders, and joiners with a bad invite.  The    *)
(* event channel, which has room for 16, is not filled: no peer has more   *)
(* than two events to tell of each other peer.                             *)
(***************************************************************************)
EXTENDS Naturals, Sequences, FiniteSets, SequencesExt

CONSTANTS Host,         \* the peer that ran "collab create"
          Joiners,      \* the peers that run "collab join"
          Screens,      \* the peers with a UI; the others were started with --detach
          MaxCalls,     \* bound: calls of set_status
          Unset,        \* the status line of a peer that has set none
          Absent,       \* the status line of a peer that is not in a table
          MaxPolls      \* how often a joiner polls for the session ID (100 in the code)

Peers == {Host} \cup Joiners
Calls == 1..MaxCalls
Lines == Calls \cup {Unset}

ASSUME MembersAssumption == Host \notin Joiners /\ Screens \subseteq Peers /\ IsFiniteSet(Joiners)
ASSUME LinesAssumption == Unset \notin Calls /\ Absent \notin Lines
ASSUME BoundsAssumption == MaxCalls \in Nat /\ MaxPolls \in Nat

VARIABLES
    caller,      \* the calls so far, each by the peer whose agent makes it
    life,        \* peer -> "out", "running", "closing", "left" or "crashed"
    table,       \* peer -> the transport's peers with their lines
    myStatus,    \* peer -> its own line
    recvLoop,    \* peer -> what the receive loop is in the middle of
    events,      \* peer -> the event channel
    roster,      \* peer -> the session's own peers
    net,         \* sender -> receiver -> messages on their way
    call,        \* call -> "idle", "stored" or "sending"
    rest,        \* call -> the peers it has still to send to
    farewell,    \* peer -> the peers Close has still to say goodbye to
    hostID,      \* peer -> what the transport's session ID holds of the host's
    sessID,      \* peer -> what the session's own ID holds of the host's
    polls,       \* peer -> how often it will still poll for the ID
    view,        \* peer -> the last snapshot of its UI
    audience,    \* history: peer -> the peers its own line was meant for
    overlapped,  \* history: the peers that had two calls at one time
    parted       \* history: who has said goodbye to whom

transport == <<table, recvLoop, events>>
status == <<myStatus, call, rest, audience, overlapped>>
session == <<hostID, sessID, polls>>
vars == <<caller, life, transport, status, session, roster, net, farewell, view, parted>>

Message == [kind : {"hello", "hello_ack", "goodbye"}]
    \cup [kind : {"peer_status"}, status : Calls]
Event == [kind : {"joined", "left"}, peer : Peers]
Polling == [at |-> "poll"]
Stopped == [at |-> "stopped"]

\* A Go string is two words: whoever reads it while it is written may see one of each.
Copy == {"none", "halfway", "whole"}

TypeOK ==
    /\ caller \in Seq(Peers) /\ Len(caller) <= MaxCalls
    /\ life \in [Peers -> {"out", "running", "closing", "left", "crashed"}]
    /\ table \in [Peers -> [Peers -> Lines \cup {Absent}]]
    /\ myStatus \in [Peers -> Lines]
    /\ recvLoop \in [Peers -> {Polling, Stopped} \cup [at : {"addPeer"}, peer : Peers]]
    /\ events \in [Peers -> Seq(Event)]
    /\ \A p \in Peers : Len(events[p]) <= 2 * Cardinality(Peers \ {p})
    /\ roster \in [Peers -> SUBSET Peers]
    /\ net \in [Peers -> [Peers -> Seq(Message)]]
    /\ call \in [Calls -> {"idle", "stored", "sending"}]
    /\ rest \in [Calls -> SUBSET Peers]
    /\ farewell \in [Peers -> SUBSET Peers]
    /\ hostID \in [Peers -> Copy] /\ sessID \in [Peers -> Copy]
    /\ polls \in [Peers -> 0..MaxPolls]
    /\ view \in [Peers -> [rows : [Peers -> Lines \cup {Absent}], id : Copy]]
    /\ audience \in [Peers -> SUBSET Peers]
    /\ overlapped \subseteq Peers
    /\ parted \subseteq Peers \X Peers

Known(p) == {q \in Peers : table[p][q] # Absent}

Nobody == [q \in Peers |-> Absent]
NoView == [rows |-> Nobody, id |-> "none"]

Init ==
    /\ caller = <<>>
    /\ life = [p \in Peers |-> IF p = Host THEN "running" ELSE "out"]
    /\ table = [p \in Peers |-> Nobody]
    /\ myStatus = [p \in Peers |-> Unset]
    /\ recvLoop = [p \in Peers |-> Polling]
    /\ events = [p \in Peers |-> <<>>]
    /\ roster = [p \in Peers |-> {}]
    /\ net = [p \in Peers |-> [q \in Peers |-> <<>>]]
    /\ call = [c \in Calls |-> "idle"]
    /\ rest = [c \in Calls |-> {}]
    /\ farewell = [p \in Peers |-> {}]
    /\ hostID = [p \in Peers |-> IF p = Host THEN "whole" ELSE "none"]
    /\ sessID = hostID
    /\ polls = [p \in Peers |-> IF p = Host THEN 0 ELSE MaxPolls]
    /\ view = [p \in Peers |-> [NoView EXCEPT !.id = sessID[p]]]
    /\ audience = [p \in Peers |-> {}]
    /\ overlapped = {}
    /\ parted = {}

Alive(p) == life[p] \in {"running", "closing"}

\* What is sent to a peer that is gone is refused by its daemon; the sender goes on.
Sent(p, q, m) ==
    IF life[q] \in {"left", "crashed"} THEN net
    ELSE [net EXCEPT ![p][q] = Append(@, m)]

----
(* set_status (BroadcastStatus), joining and leaving.                      *)

UnderWay(c) == call[c] = "stored" \/ rest[c] # {}

\* The line is stored under the mutex, before it is sent.
StoreStatus(p) ==
    LET c == Len(caller) + 1
    IN  /\ life[p] = "running"
        /\ c \in Calls
        /\ caller' = Append(caller, p)
        /\ myStatus' = [myStatus EXCEPT ![p] = c]
        /\ audience' = [audience EXCEPT ![p] = {}]
        /\ call' = [call EXCEPT ![c] = "stored"]
        /\ overlapped' = IF \E d \in DOMAIN caller : caller[d] = p /\ UnderWay(d)
                         THEN overlapped \cup {p} ELSE overlapped
    /\ UNCHANGED <<life, transport, rest, session, roster, net, farewell, view, parted>>

\* Mutation: the line goes to the peers that the session shows.
RosterOf(p) == roster[p]
Recipients(p) == Known(p)

\* The peers are those of this moment; who joins later is not told.
SnapshotPeers(c) ==
    LET p == caller[c]
    IN  /\ Alive(p)
        /\ call[c] = "stored"
        /\ call' = [call EXCEPT ![c] = "sending"]
        /\ rest' = [rest EXCEPT ![c] = Recipients(p)]
        /\ audience' = IF myStatus[p] = c THEN [audience EXCEPT ![p] = Known(p)] ELSE audience
        /\ UNCHANGED <<caller, life, transport, myStatus, overlapped, session, roster, net, farewell,
                       view, parted>>

SendStatus(c, q) ==
    LET p == caller[c]
    IN  /\ Alive(p)
        /\ q \in rest[c]
        /\ rest' = [rest EXCEPT ![c] = @ \ {q}]
        /\ net' = Sent(p, q, [kind |-> "peer_status", status |-> c])
        /\ UNCHANGED <<caller, life, transport, myStatus, call, audience, overlapped, session, roster,
                       farewell, view, parted>>

Join(j) ==
    /\ j \in Joiners
    /\ life[j] = "out"
    /\ life' = [life EXCEPT ![j] = "running"]
    /\ net' = Sent(j, Host, [kind |-> "hello"])
    /\ UNCHANGED <<caller, transport, status, session, roster, farewell, view, parted>>

\* Close takes its own snapshot of the peers; a call under way keeps the one it has.
Close(p) ==
    /\ life[p] = "running"
    /\ life' = [life EXCEPT ![p] = "closing"]
    /\ farewell' = [farewell EXCEPT ![p] = Known(p)]
    /\ UNCHANGED <<caller, transport, status, session, roster, net, view, parted>>

SendGoodbye(p, q) ==
    /\ life[p] = "closing"
    /\ q \in farewell[p]
    /\ farewell' = [farewell EXCEPT ![p] = @ \ {q}]
    /\ net' = Sent(p, q, [kind |-> "goodbye"])
    /\ parted' = parted \cup {<<p, q>>}
    /\ UNCHANGED <<caller, life, transport, status, session, roster, view>>

\* The process ends, and its memory and its screen with it.
End(p, how) ==
    /\ life' = [life EXCEPT ![p] = how]
    /\ recvLoop' = [recvLoop EXCEPT ![p] = Stopped]
    /\ table' = [table EXCEPT ![p] = Nobody]
    /\ events' = [events EXCEPT ![p] = <<>>]
    /\ roster' = [roster EXCEPT ![p] = {}]
    /\ view' = [view EXCEPT ![p] = NoView]
    /\ net' = [q \in Peers |-> [net[q] EXCEPT ![p] = <<>>]]
    /\ rest' = [c \in Calls |-> IF c \in DOMAIN caller /\ caller[c] = p THEN {} ELSE rest[c]]
    /\ farewell' = [farewell EXCEPT ![p] = {}]
    /\ hostID' = [hostID EXCEPT ![p] = "none"]
    /\ sessID' = [sessID EXCEPT ![p] = "none"]
    /\ polls' = [polls EXCEPT ![p] = 0]
    /\ audience' = [audience EXCEPT ![p] = {}]
    /\ myStatus' = [myStatus EXCEPT ![p] = Unset]
    /\ UNCHANGED <<caller, call, overlapped, parted>>

Exit(p) == life[p] = "closing" /\ farewell[p] = {} /\ End(p, "left")

----
(* The receive loop of the transport.                                      *)

\* The loop goes back to its poll, unless Close has told it to stop.
Loop(p) == IF life[p] = "running" THEN Polling ELSE Stopped

Arrives(p, q, m) ==
    /\ Alive(p)
    /\ recvLoop[p] = Polling
    /\ net[q][p] # <<>> /\ m = Head(net[q][p])

Taken(p, q) == [net EXCEPT ![q][p] = Tail(@)]

\* handleHello answers first, and then adds the peer.
HandleHello(p, q, m) ==
    /\ Arrives(p, q, m) /\ m.kind = "hello"
    /\ net' = IF Alive(q) THEN [Taken(p, q) EXCEPT ![p][q] = Append(@, [kind |-> "hello_ack"])]
              ELSE Taken(p, q)
    /\ recvLoop' = [recvLoop EXCEPT ![p] = [at |-> "addPeer", peer |-> q]]
    /\ UNCHANGED <<caller, life, table, events, status, session, roster, farewell, view, parted>>

\* handleHelloAck is in the middle of taking over the host's session ID, if it has none.
HandleHelloAck(p, q, m) ==
    /\ Arrives(p, q, m) /\ m.kind = "hello_ack"
    /\ net' = Taken(p, q)
    /\ hostID' = [hostID EXCEPT ![p] = IF @ = "none" THEN "halfway" ELSE @]
    /\ recvLoop' = [recvLoop EXCEPT ![p] = [at |-> "addPeer", peer |-> q]]
    /\ UNCHANGED <<caller, life, table, events, status, sessID, polls, roster, farewell, view, parted>>

\* Mutation: the ID is not taken over.
KeptID(p) == IF hostID[p] = "halfway" THEN "none" ELSE hostID[p]
NewID(p) == "whole"

\* The ID is there, and addPeer puts the peer in the table and sends the event: nobody
\* reads the events but the tracker, which may be as late as it likes.
AddPeer(p) ==
    /\ Alive(p)
    /\ recvLoop[p].at = "addPeer"
    /\ LET q == recvLoop[p].peer
       IN  /\ table' = [table EXCEPT ![p][q] = IF @ = Absent THEN Unset ELSE @]
           /\ events' = IF q \in Known(p) THEN events
                        ELSE [events EXCEPT ![p] = Append(@, [kind |-> "joined", peer |-> q])]
    /\ hostID' = [hostID EXCEPT ![p] = NewID(p)]
    /\ recvLoop' = [recvLoop EXCEPT ![p] = Loop(p)]
    /\ UNCHANGED <<caller, life, status, sessID, polls, roster, net, farewell, view, parted>>

\* removePeer: the peer goes with its line.
HandleGoodbye(p, q, m) ==
    /\ Arrives(p, q, m) /\ m.kind = "goodbye"
    /\ net' = Taken(p, q)
    /\ table' = [table EXCEPT ![p][q] = Absent]
    /\ events' = IF q \in Known(p)
                 THEN [events EXCEPT ![p] = Append(@, [kind |-> "left", peer |-> q])]
                 ELSE events
    /\ recvLoop' = [recvLoop EXCEPT ![p] = Loop(p)]
    /\ UNCHANGED <<caller, life, status, session, roster, farewell, view, parted>>

\* Mutation: a status line puts its peer in the table.
Upsert(line, m) == m.status
\* Mutation: the first line a peer sends is kept.
KeepFirst(line, m) == IF line = Unset THEN m.status ELSE line
\* The line of a peer that is not in the table is dropped.
Updated(line, m) == IF line = Absent THEN Absent ELSE m.status

HandlePeerStatus(p, q, m) ==
    /\ Arrives(p, q, m) /\ m.kind = "peer_status"
    /\ net' = Taken(p, q)
    /\ table' = [table EXCEPT ![p][q] = Updated(@, m)]
    /\ recvLoop' = [recvLoop EXCEPT ![p] = Loop(p)]
    /\ UNCHANGED <<caller, life, events, status, session, roster, farewell, view, parted>>

----
(* The event tracker, the session ID, and the UI.                          *)

\* Mutation: who has joined is never forgotten.
TrackedJoins(peers, ev) == peers \cup {ev.peer}
Tracked(peers, ev) ==
    IF ev.kind = "joined" THEN peers \cup {ev.peer} ELSE peers \ {ev.peer}

Track(p) ==
    /\ Alive(p)
    /\ events[p] # <<>>
    /\ roster' = [roster EXCEPT ![p] = Tracked(@, Head(events[p]))]
    /\ events' = [events EXCEPT ![p] = Tail(@)]
    /\ UNCHANGED <<caller, life, table, recvLoop, status, session, net, farewell, view, parted>>

\* Mutation: one round too many.
PollOnceMore(j) ==
    /\ Alive(j)
    /\ sessID[j] = "none"
    /\ hostID[j] \in {"none", "halfway"}
    /\ polls' = [polls EXCEPT ![j] = @ - 1]
    /\ UNCHANGED <<caller, life, transport, status, hostID, sessID, roster, net, farewell, view, parted>>

\* One round of the goroutine of runJoin that waits for the host's ID.  It reads the
\* transport's copy without a lock, so it may see a write of it before it is through.
PollInVain(j) ==
    /\ Alive(j)
    /\ polls[j] > 0 /\ sessID[j] = "none"
    /\ hostID[j] \in {"none", "halfway"}
    /\ polls' = [polls EXCEPT ![j] = @ - 1]
    /\ UNCHANGED <<caller, life, transport, status, hostID, sessID, roster, net, farewell, view, parted>>

Adopt(j) ==
    /\ Alive(j)
    /\ polls[j] > 0 /\ sessID[j] = "none"
    /\ hostID[j] \in {"halfway", "whole"}
    /\ sessID' = [sessID EXCEPT ![j] = "halfway"]
    /\ polls' = [polls EXCEPT ![j] = 0]
    /\ UNCHANGED <<caller, life, transport, status, hostID, roster, net, farewell, view, parted>>

\* A length without its bytes: the first use of such a string is a fault.
Torn(j) ==
    /\ Alive(j)
    /\ polls[j] > 0 /\ sessID[j] = "none"
    /\ hostID[j] = "halfway"
    /\ End(j, "crashed")

Adopted(j) ==
    /\ Alive(j)
    /\ sessID[j] = "halfway"
    /\ sessID' = [sessID EXCEPT ![j] = "whole"]
    /\ UNCHANGED <<caller, life, transport, status, hostID, polls, roster, net, farewell, view, parted>>

\* A peer that the transport has lost already has no line.
LineOf(p, q) == IF table[p][q] = Absent THEN Unset ELSE table[p][q]

\* sessionToTUI: the session's peers with the lines the transport has, and the session
\* ID, which is read without a lock.
Snapshots(p) ==
    {[rows |-> [q \in Peers |-> IF q \in roster[p] THEN LineOf(p, q) ELSE Absent], id |-> id] :
        id \in {i \in Copy : i = sessID[p] \/ sessID[p] = "halfway"}}

Tick(p) ==
    /\ p \in Screens
    /\ life[p] = "running"
    /\ \E snap \in Snapshots(p) : view' = [view EXCEPT ![p] = snap]
    /\ UNCHANGED <<caller, life, transport, status, session, roster, net, farewell, parted>>

Receive(p) ==
    \E q \in Peers : \E m \in ToSet(net[q][p]) :
       \/ HandleHello(p, q, m)
       \/ HandleHelloAck(p, q, m)
       \/ HandleGoodbye(p, q, m)
       \/ HandlePeerStatus(p, q, m)
RecvStep(p) == Receive(p) \/ AddPeer(p)
CallStep(c) ==
    c \in DOMAIN caller /\ (SnapshotPeers(c) \/ \E q \in rest[c] : SendStatus(c, q))
CloseStep(p) == Exit(p) \/ \E q \in farewell[p] : SendGoodbye(p, q)
PollStep(p) == PollInVain(p) \/ Adopt(p) \/ Torn(p) \/ Adopted(p)

Next ==
    \/ \E p \in Peers :
          \/ Join(p) \/ Close(p) \/ StoreStatus(p)
          \/ RecvStep(p) \/ Track(p) \/ PollStep(p) \/ Tick(p) \/ CloseStep(p)
    \/ \E c \in Calls : CallStep(c)

Spec == Init /\ [][Next]_vars

\* Every goroutine that has something to do does it in the end, and the UI ticks.  Nobody
\* has to join, leave or set a status.
FairSpec ==
    /\ Spec
    /\ \A p \in Peers : /\ WF_vars(RecvStep(p)) /\ WF_vars(Track(p)) /\ WF_vars(PollStep(p))
                        /\ WF_vars(Tick(p)) /\ WF_vars(CloseStep(p))
    /\ \A c \in Calls : WF_vars(CallStep(c))

----
(* Properties.                                                             *)

Running(p, q) == life[p] = "running" /\ life[q] = "running"

\* Who was in the setter's table when it sent its last line has that line in its own, once
\* the message is through: a joiner's ack is ahead of the line, and the host adds a joiner
\* before it takes another message (axl.go 211-228, 389-404, 428-440).
ToldAreUpToDate ==
    \A p \in Peers : \A q \in Peers \ {p} : \A c \in Calls :
       /\ Running(p, q)
       /\ myStatus[p] = c /\ p \notin overlapped
       /\ q \in audience[p] \ rest[c]
       /\ [kind |-> "peer_status", status |-> c] \notin ToSet(net[p][q])
       => table[q][p] = c

\* Who has taken a goodbye does not have the leaver in its table, whatever is sent or taken
\* after it: a status that a call still sends while its program closes, or an ack that comes
\* for a hello (axl.go 278-298, 424-440).
GoodbyeHolds ==
    \A p, q \in Peers :
       /\ <<p, q>> \in parted /\ life[q] = "running"
       /\ [kind |-> "goodbye"] \notin ToSet(net[p][q])
       => p \notin Known(q)

\* The line gets from the agent of one peer to the screen of another that was its peer at
\* the time, through the table and the session's peers (README.md 186, for two that have
\* met; axl.go 211-228, create.go 268-290, model.go 109-113).
StatusIsShown ==
    \A c \in Calls : \A p \in Peers : \A q \in Screens \ {p} :
       (myStatus[p] = c /\ q \in audience[p]) ~>
          \/ view[q].rows[p] = c
          \/ myStatus[p] # c \/ p \in overlapped
          \/ ~Running(p, q)

\* A peer that says goodbye disappears for good, from the screen as from the table: its
\* goodbye is taken in the end and the tick shows it (axl.go 278-298, 428-440).
LeaversVanish ==
    \A p \in Peers : \A q \in Screens \ {p} :
       <<p, q>> \in parted ~>
          [](life[q] = "running" => p \notin Known(q) /\ view[q].rows[p] = Absent)

\* A joiner that has met the host before it gives up polling shows the host's session ID in
\* the end, whatever its screen showed while the ID was written (axl.go 418-420,
\* create.go 212-220).
HostIdShown ==
    \A j \in Joiners \cap Screens :
       (Host \in Known(j) /\ sessID[j] = "none" /\ polls[j] > 0) ~>
          [](view[j].id = "whole" \/ life[j] # "running")
====
