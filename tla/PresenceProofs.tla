---- MODULE PresenceProofs ----
(***************************************************************************)
(* Theorems about Presence for every finite set of joiners and any number  *)
(* of calls and of rounds of polling.                                      *)
(*                                                                         *)
(* Four parts, each an inductive invariant given the ones before it:       *)
(*   Shapes    the range of every variable but for the length of events;   *)
(*   Meeting   the one handshake of a joiner and the host, from which come *)
(*             the order of their lines and the number of their events;    *)
(*   Telling   what a line sent to a peer still needs to be in its table;  *)
(*   Parting   why a peer that said goodbye is never added again.          *)
(***************************************************************************)
EXTENDS Presence, SequenceTheorems, FiniteSetTheorems, TLAPS

----
(* Types.  How many events there may be follows from who has met whom.     *)

Loops == {Polling, Stopped} \cup [at : {"addPeer"}, peer : Peers]

Shapes ==
    /\ caller \in Seq(Peers) /\ Len(caller) <= MaxCalls
    /\ life \in [Peers -> {"out", "running", "closing", "left", "crashed"}]
    /\ table \in [Peers -> [Peers -> Lines \cup {Absent}]]
    /\ myStatus \in [Peers -> Lines]
    /\ recvLoop \in [Peers -> Loops]
    /\ events \in [Peers -> Seq(Event)]
    /\ roster \in [Peers -> SUBSET Peers]
    /\ net \in [Peers -> [Peers -> Seq(Message)]]
    /\ call \in [Calls -> {"idle", "stored", "sending"}]
    /\ rest \in [Calls -> SUBSET Peers]
    /\ farewell \in [Peers -> SUBSET Peers]
    /\ hostID \in [Peers -> Copy] /\ sessID \in [Peers -> Copy]
    /\ polls \in [Peers -> 0..MaxPolls]
    /\ view \in [Peers -> [rows : [Peers -> Lines \cup {Absent}], id : Copy]]
    /\ audience \in [Peers -> SUBSET Peers]
    /\ overlapped \subseteq Peers
    /\ parted \subseteq Peers \X Peers

EventsBounded == \A p \in Peers : Len(events[p]) <= 2 * Cardinality(Peers \ {p})

LEMMA TypeParts == TypeOK <=> Shapes /\ EventsBounded
BY DEF TypeOK, Shapes, EventsBounded, Loops

----
(* Who has met whom.                                                       *)

\* Only the host and a joiner have to do with each other.
Linked(p, q) == p # q /\ Host \in {p, q}

\* The receive loop of p is about to add q.
Adding(p, q) == recvLoop[p] = [at |-> "addPeer", peer |-> q]

Sends(p, q, kind) == \E i \in DOMAIN net[p][q] : net[p][q][i].kind = kind
Named(p, q) == \E i \in DOMAIN events[p] : events[p][i].peer = q

\* Who p is about to tell something.
Calling(p, q) == \E c \in DOMAIN caller : caller[c] = p /\ q \in rest[c]
Addressed(p, q) == q \in farewell[p] \/ Calling(p, q)

Strangers ==
    \A p, q \in Peers : ~Linked(p, q) =>
       /\ q \notin Known(p) /\ net[p][q] = <<>> /\ ~Adding(p, q) /\ ~Named(p, q)
       /\ ~Addressed(p, q) /\ q \notin audience[p]

\* The handshake is the first that either sends to the other.
Openings ==
    \A p, q \in Peers : \A i \in DOMAIN net[p][q] :
       /\ net[p][q][i].kind = "hello" => i = 1 /\ p # Host /\ q = Host
       /\ net[p][q][i].kind = "hello_ack" => i = 1 /\ p = Host /\ q # Host

\* The hello of j has not been taken.
Fresh(j) == life[j] = "out" \/ Sends(j, Host, "hello")

Freshness ==
    \A j \in Joiners : Fresh(j) =>
       /\ net[Host][j] = <<>> /\ ~Adding(Host, j) /\ ~Adding(j, Host)
       /\ j \notin Known(Host) /\ Host \notin Known(j)
       /\ ~Named(Host, j) /\ ~Named(j, Host)
       /\ ~Addressed(Host, j) /\ j \notin audience[Host]

\* A joiner that has not come has not done anything.
NotYet ==
    \A j \in Joiners : life[j] = "out" =>
       /\ net[j][Host] = <<>> /\ audience[j] = {}
       /\ \A c \in DOMAIN caller : caller[c] # j

\* Who is about to be added has not been there before, and is added once.
Before ==
    \A p, q \in Peers :
       /\ Adding(p, q) \/ Sends(q, p, "hello_ack") => q \notin Known(p) /\ ~Named(p, q)
       /\ Adding(p, q) => ~Sends(q, p, "hello_ack")

\* No event comes twice, and that a peer has left comes when it is in the table no more.
EventsOnce ==
    \A p \in Peers :
       /\ \A i, k \in DOMAIN events[p] : events[p][i] = events[p][k] => i = k
       /\ \A i \in DOMAIN events[p] : events[p][i].kind = "left" => events[p][i].peer \notin Known(p)

\* Nothing is sent for a call that has not been made.
Uncalled == \A c \in Calls : c \notin DOMAIN caller => rest[c] = {} /\ call[c] = "idle"

Meeting ==
    Strangers /\ Openings /\ Freshness /\ NotYet /\ Before /\ EventsOnce /\ Uncalled

----
(* Who has been told what.                                                 *)

\* Only a peer that goes says goodbye.
Goodbyes ==
    \A p, q \in Peers : Sends(p, q, "goodbye") => life[p] \notin {"out", "running"}

\* What p does of the handshake with q.
Side(p, q) == q \in Known(p) \/ Adding(p, q) \/ Sends(q, p, "hello_ack")

Mutual == \A p, q \in Peers : Running(p, q) /\ Side(p, q) => Side(q, p)

\* Lines go to peers in the table.
ToPeers ==
    \A p, q \in Peers :
       Running(p, q) /\ (Sends(p, q, "peer_status") \/ q \in audience[p] \/ Calling(p, q))
          => q \in Known(p)

\* A peer's line is one that it has set.
Mine == \A p \in Peers : myStatus[p] \in Calls =>
           myStatus[p] \in DOMAIN caller /\ caller[myStatus[p]] = p

\* Calls that do not overlap are over when the next one begins.
OneCall ==
    \A p \in Peers : life[p] = "running" /\ p \notin overlapped =>
       \A c \in DOMAIN caller : caller[c] = p /\ UnderWay(c) => myStatus[p] = c

\* The last line in msgs is c.
LastLine(msgs, c) ==
    \E i \in DOMAIN msgs :
       /\ msgs[i] = [kind |-> "peer_status", status |-> c]
       /\ \A k \in DOMAIN msgs : k > i => msgs[k].kind # "peer_status"

\* p has sent its line c to q.
SentTo(p, q, c) ==
    /\ Running(p, q) /\ p # q
    /\ myStatus[p] = c /\ p \notin overlapped
    /\ q \in audience[p] \ rest[c]

\* q has the line c of p, or the line is on its way and none is behind it.
HasOrGets(q, p, c) ==
    \/ LastLine(net[p][q], c)
    \/ table[q][p] = c /\ ~Sends(p, q, "peer_status")

Told == \A p, q \in Peers : \A c \in Calls : SentTo(p, q, c) => HasOrGets(q, p, c)

Telling == Goodbyes /\ Mutual /\ ToPeers /\ Mine /\ OneCall /\ Told

----
(* The steps keep the types.                                               *)

LEMMA HostIsPeer == Host \in Peers /\ Joiners \subseteq Peers /\ \A p \in Peers : p = Host \/ p \in Joiners
BY DEF Peers

LEMMA MessageShapes ==
    ASSUME NEW m \in Message
    PROVE  /\ m.kind \in {"hello", "hello_ack", "goodbye", "peer_status"}
           /\ m.kind = "peer_status" => m.status \in Calls /\ m = [kind |-> "peer_status", status |-> m.status]
BY DEF Message

LEMMA LoopShapes ==
    ASSUME NEW r \in Loops, r.at = "addPeer"
    PROVE  r.peer \in Peers /\ r = [at |-> "addPeer", peer |-> r.peer]
BY DEF Loops, Polling, Stopped

LEMMA AddsOne ==
    ASSUME NEW q, NEW s, [at |-> "addPeer", peer |-> q] = [at |-> "addPeer", peer |-> s]
    PROVE  s = q
<1>1. [at |-> "addPeer", peer |-> q].peer = [at |-> "addPeer", peer |-> s].peer
  OBVIOUS
<1> QED BY <1>1

LEMMA CallerShapes ==
    ASSUME Shapes
    PROVE  /\ \A c \in DOMAIN caller : caller[c] \in Peers /\ c \in Calls
           /\ Len(caller) \in Nat /\ DOMAIN caller = 1..Len(caller)
<1>1. caller \in Seq(Peers) /\ Len(caller) <= MaxCalls /\ MaxCalls \in Nat
  BY BoundsAssumption DEF Shapes
<1>2. Len(caller) \in Nat /\ DOMAIN caller = 1..Len(caller)
  BY <1>1
<1>3. ASSUME NEW c \in DOMAIN caller
      PROVE  caller[c] \in Peers /\ c \in Calls
  BY <1>1, <1>2, <1>3 DEF Calls
<1> QED BY <1>2, <1>3

\* Sending puts one message at the end of one queue, or is refused.
LEMMA Sending ==
    ASSUME Shapes, NEW p \in Peers, NEW q \in Peers, NEW m \in Message
    PROVE  Sent(p, q, m) \in [Peers -> [Peers -> Seq(Message)]]
<1>1. net[p][q] \in Seq(Message) /\ net[p] \in [Peers -> Seq(Message)] /\ net \in [Peers -> [Peers -> Seq(Message)]]
  BY DEF Shapes
<1>2. Append(net[p][q], m) \in Seq(Message)
  BY <1>1, AppendProperties
<1> QED BY <1>1, <1>2 DEF Sent

LEMMA SentNet ==
    ASSUME Shapes, NEW p \in Peers, NEW q \in Peers, NEW m \in Message, net' = Sent(p, q, m)
    PROVE  /\ \A r, s \in Peers : r # p \/ s # q => net'[r][s] = net[r][s]
           /\ net'[p][q] = net[p][q] \/ net'[p][q] = Append(net[p][q], m)
           /\ life[q] \notin {"left", "crashed"} => net'[p][q] = Append(net[p][q], m)
<1>1. net \in [Peers -> [Peers -> Seq(Message)]]
  BY DEF Shapes
<1> QED BY <1>1 DEF Sent

\* Taking the first message of a queue.
LEMMA Taking ==
    ASSUME Shapes, NEW p \in Peers, NEW q \in Peers, net[q][p] # <<>>
    PROVE  /\ Taken(p, q) \in [Peers -> [Peers -> Seq(Message)]]
           /\ \A r, s \in Peers : r # q \/ s # p => Taken(p, q)[r][s] = net[r][s]
           /\ Taken(p, q)[q][p] = Tail(net[q][p])
           /\ Head(net[q][p]) \in Message
<1>1. net[q][p] \in Seq(Message) /\ net[q] \in [Peers -> Seq(Message)] /\ net \in [Peers -> [Peers -> Seq(Message)]]
  BY DEF Shapes
<1>2. Tail(net[q][p]) \in Seq(Message) /\ Head(net[q][p]) \in Message
  BY <1>1, HeadTailProperties
<1> QED BY <1>1, <1>2 DEF Taken

LEMMA ShapesInit == Init => Shapes
<1> SUFFICES ASSUME Init PROVE Shapes
  OBVIOUS
<1>1. caller \in Seq(Peers) /\ Len(caller) <= MaxCalls
  BY BoundsAssumption DEF Init
<1>2. Nobody \in [Peers -> Lines \cup {Absent}]
  BY DEF Nobody
<1>3. /\ hostID \in [Peers -> Copy] /\ sessID \in [Peers -> Copy]
      /\ polls \in [Peers -> 0..MaxPolls]
  BY BoundsAssumption DEF Init, Copy
<1>4. view \in [Peers -> [rows : [Peers -> Lines \cup {Absent}], id : Copy]]
  <2>1. NoView = [rows |-> Nobody, id |-> "none"]
    BY DEF NoView
  <2>2. \A p \in Peers : [NoView EXCEPT !.id = sessID[p]] = [rows |-> Nobody, id |-> sessID[p]]
    BY <2>1
  <2>3. view = [p \in Peers |-> [NoView EXCEPT !.id = sessID[p]]]
    BY DEF Init
  <2> QED BY <1>2, <1>3, <2>2, <2>3
<1>5. /\ events \in [Peers -> Seq(Event)] /\ net \in [Peers -> [Peers -> Seq(Message)]]
  BY DEF Init
<1>6. /\ life \in [Peers -> {"out", "running", "closing", "left", "crashed"}]
      /\ table \in [Peers -> [Peers -> Lines \cup {Absent}]]
      /\ myStatus \in [Peers -> Lines]
      /\ recvLoop \in [Peers -> Loops]
      /\ roster \in [Peers -> SUBSET Peers]
      /\ call \in [Calls -> {"idle", "stored", "sending"}]
      /\ rest \in [Calls -> SUBSET Peers]
      /\ farewell \in [Peers -> SUBSET Peers]
      /\ audience \in [Peers -> SUBSET Peers]
      /\ overlapped \subseteq Peers
      /\ parted \subseteq Peers \X Peers
  BY <1>2 DEF Init, Loops, Lines
<1> QED BY <1>1, <1>3, <1>4, <1>5, <1>6 DEF Shapes

LEMMA ShapesEnd ==
    ASSUME Shapes, NEW p \in Peers, NEW how \in {"left", "crashed"}, End(p, how)
    PROVE  Shapes'
<1>1. Nobody \in [Peers -> Lines \cup {Absent}] /\ NoView \in [rows : [Peers -> Lines \cup {Absent}], id : Copy]
  BY DEF Nobody, NoView, Copy
<1>2. /\ net' \in [Peers -> [Peers -> Seq(Message)]]
      /\ rest' \in [Calls -> SUBSET Peers]
  BY DEF End, Shapes
<1>3. /\ life' \in [Peers -> {"out", "running", "closing", "left", "crashed"}]
      /\ recvLoop' \in [Peers -> Loops]
      /\ roster' \in [Peers -> SUBSET Peers]
      /\ farewell' \in [Peers -> SUBSET Peers]
  BY DEF End, Shapes, Loops
<1>5. table' \in [Peers -> [Peers -> Lines \cup {Absent}]]
  BY <1>1 DEF End, Shapes
<1>6. events' \in [Peers -> Seq(Event)]
  BY DEF End, Shapes
<1>7. view' \in [Peers -> [rows : [Peers -> Lines \cup {Absent}], id : Copy]]
  BY <1>1 DEF End, Shapes
<1>4. /\ hostID' \in [Peers -> Copy] /\ sessID' \in [Peers -> Copy]
      /\ polls' \in [Peers -> 0..MaxPolls]
      /\ audience' \in [Peers -> SUBSET Peers]
      /\ myStatus' \in [Peers -> Lines]
  BY BoundsAssumption DEF End, Shapes, Copy, Lines
<1> QED BY <1>2, <1>3, <1>4, <1>5, <1>6, <1>7 DEF End, Shapes

\* Calls, comings and goings.
LEMMA ShapesCalls ==
    ASSUME Shapes,
           \/ \E p \in Peers : StoreStatus(p) \/ Join(p) \/ Close(p) \/ CloseStep(p)
           \/ \E c \in Calls : CallStep(c)
    PROVE  Shapes'
<1>0. \A c \in DOMAIN caller : caller[c] \in Peers /\ c \in Calls
  BY CallerShapes
<1>1. ASSUME NEW p \in Peers, StoreStatus(p)
      PROVE  Shapes'
  <2> DEFINE c == Len(caller) + 1
  <2>1. caller' \in Seq(Peers) /\ Len(caller') <= MaxCalls
    <3>1. c \in 1..MaxCalls /\ caller' = Append(caller, p) /\ caller \in Seq(Peers)
      BY <1>1 DEF StoreStatus, Calls, Shapes
    <3> QED BY <3>1, BoundsAssumption, AppendProperties
  <2>2. /\ myStatus' \in [Peers -> Lines] /\ audience' \in [Peers -> SUBSET Peers]
        /\ call' \in [Calls -> {"idle", "stored", "sending"}] /\ overlapped' \subseteq Peers
    BY <1>1 DEF StoreStatus, Shapes, Lines
  <2> QED BY <1>1, <2>1, <2>2 DEF StoreStatus, Shapes, transport, session
<1>2. ASSUME NEW p \in Peers, Join(p)
      PROVE  Shapes'
  <2>1. [kind |-> "hello"] \in Message
    BY DEF Message
  <2>2. net' \in [Peers -> [Peers -> Seq(Message)]]
    BY <1>2, <2>1, Sending, HostIsPeer DEF Join
  <2> QED BY <1>2, <2>2 DEF Join, Shapes, transport, session, status
<1>3. ASSUME NEW p \in Peers, Close(p)
      PROVE  Shapes'
  BY <1>3 DEF Close, Shapes, transport, session, status, Known
<1>4. ASSUME NEW p \in Peers, NEW q \in Peers, SendGoodbye(p, q)
      PROVE  Shapes'
  <2>1. [kind |-> "goodbye"] \in Message
    BY DEF Message
  <2>2. net' \in [Peers -> [Peers -> Seq(Message)]]
    BY <1>4, <2>1, Sending DEF SendGoodbye
  <2>3. farewell' \in [Peers -> SUBSET Peers]
    BY <1>4 DEF SendGoodbye, Shapes
  <2>4. parted' \subseteq Peers \X Peers
    BY <1>4 DEF SendGoodbye, Shapes
  <2> QED BY <1>4, <2>2, <2>3, <2>4 DEF SendGoodbye, Shapes, transport, session, status
<1>5. ASSUME NEW p \in Peers, Exit(p)
      PROVE  Shapes'
  BY <1>5, ShapesEnd DEF Exit
<1>6. ASSUME NEW c \in DOMAIN caller, SnapshotPeers(c)
      PROVE  Shapes'
  BY <1>0, <1>6 DEF SnapshotPeers, Recipients, Known, Shapes, transport, session
<1>7. ASSUME NEW c \in DOMAIN caller, NEW q \in rest[c], SendStatus(c, q)
      PROVE  Shapes'
  <2>1. [kind |-> "peer_status", status |-> c] \in Message /\ q \in Peers
    BY <1>0 DEF Message, Shapes
  <2>2. net' \in [Peers -> [Peers -> Seq(Message)]]
    BY <1>0, <1>7, <2>1, Sending DEF SendStatus
  <2> QED BY <1>0, <1>7, <2>2 DEF SendStatus, Shapes, transport, session
<1>8. \A p \in Peers : farewell[p] \subseteq Peers
  BY DEF Shapes
<1> QED BY <1>1, <1>2, <1>3, <1>4, <1>5, <1>6, <1>7, <1>8 DEF CallStep, CloseStep

\* The receive loop.
LEMMA ShapesReceive ==
    ASSUME Shapes, NEW p \in Peers, RecvStep(p)
    PROVE  Shapes'
<1>1. Loop(p) \in Loops
  BY DEF Loop, Loops
<1>2. ASSUME AddPeer(p)
      PROVE  Shapes'
  <2>1. recvLoop[p].peer \in Peers
    BY <1>2, LoopShapes DEF AddPeer, Shapes
  <2>2. table' \in [Peers -> [Peers -> Lines \cup {Absent}]]
    BY <1>2, <2>1 DEF AddPeer, Shapes, Lines
  <2>3. events' \in [Peers -> Seq(Event)]
    <3>1. [kind |-> "joined", peer |-> recvLoop[p].peer] \in Event
      BY <2>1 DEF Event
    <3>2. events[p] \in Seq(Event)
      BY DEF Shapes
    <3>3. Append(events[p], [kind |-> "joined", peer |-> recvLoop[p].peer]) \in Seq(Event)
      BY <3>1, <3>2, AppendProperties
    <3> QED BY <1>2, <3>3 DEF AddPeer, Shapes
  <2>4. hostID' \in [Peers -> Copy]
    BY <1>2 DEF AddPeer, Shapes, NewID, Copy
  <2> QED BY <1>1, <1>2, <2>2, <2>3, <2>4 DEF AddPeer, Shapes, status
<1>3. ASSUME NEW q \in Peers, NEW m, HandleHello(p, q, m)
      PROVE  Shapes'
  <2>1. net[q][p] # <<>>
    BY <1>3 DEF HandleHello, Arrives
  <2>2. [kind |-> "hello_ack"] \in Message
    BY DEF Message
  <2>3. Taken(p, q) \in [Peers -> [Peers -> Seq(Message)]]
    BY <2>1, Taking
  <2>4. Append(Taken(p, q)[p][q], [kind |-> "hello_ack"]) \in Seq(Message)
    BY <2>2, <2>3, AppendProperties
  <2>5. net' \in [Peers -> [Peers -> Seq(Message)]]
    BY <1>3, <2>3, <2>4 DEF HandleHello
  <2>6. recvLoop' \in [Peers -> Loops]
    BY <1>3 DEF HandleHello, Shapes, Loops
  <2> QED BY <1>3, <2>5, <2>6 DEF HandleHello, Shapes, status, session
<1>4. ASSUME NEW q \in Peers, NEW m, HandleHelloAck(p, q, m)
      PROVE  Shapes'
  <2>1. net' \in [Peers -> [Peers -> Seq(Message)]]
    BY <1>4, Taking DEF HandleHelloAck, Arrives
  <2>2. recvLoop' \in [Peers -> Loops] /\ hostID' \in [Peers -> Copy]
    BY <1>4 DEF HandleHelloAck, Shapes, Loops, Copy
  <2> QED BY <1>4, <2>1, <2>2 DEF HandleHelloAck, Shapes, status
<1>5. ASSUME NEW q \in Peers, NEW m, HandleGoodbye(p, q, m)
      PROVE  Shapes'
  <2>1. net' \in [Peers -> [Peers -> Seq(Message)]]
    BY <1>5, Taking DEF HandleGoodbye, Arrives
  <2>2. events' \in [Peers -> Seq(Event)]
    <3>1. [kind |-> "left", peer |-> q] \in Event
      BY DEF Event
    <3>2. Append(events[p], [kind |-> "left", peer |-> q]) \in Seq(Event)
      BY <3>1, AppendProperties DEF Shapes
    <3> QED BY <1>5, <3>2 DEF HandleGoodbye, Shapes
  <2>3. recvLoop' \in [Peers -> Loops]
    BY <1>1, <1>5 DEF HandleGoodbye, Shapes
  <2>4. table' \in [Peers -> [Peers -> Lines \cup {Absent}]]
    BY <1>5 DEF HandleGoodbye, Shapes
  <2> QED BY <1>5, <2>1, <2>2, <2>3, <2>4 DEF HandleGoodbye, Shapes, status, session
<1>6. ASSUME NEW q \in Peers, NEW m, HandlePeerStatus(p, q, m)
      PROVE  Shapes'
  <2>1. net' \in [Peers -> [Peers -> Seq(Message)]] /\ m \in Message /\ m.kind = "peer_status"
    BY <1>6, Taking DEF HandlePeerStatus, Arrives
  <2>2. m.status \in Lines
    BY <2>1, MessageShapes DEF Lines
  <2>3. table' \in [Peers -> [Peers -> Lines \cup {Absent}]]
    BY <1>6, <2>2 DEF HandlePeerStatus, Updated, Shapes
  <2>4. recvLoop' \in [Peers -> Loops]
    BY <1>1, <1>6 DEF HandlePeerStatus, Shapes
  <2> QED BY <1>6, <2>1, <2>3, <2>4 DEF HandlePeerStatus, Shapes, status, session
<1> QED BY <1>2, <1>3, <1>4, <1>5, <1>6 DEF RecvStep, Receive

\* The tracker, the session ID and the screen.
LEMMA ShapesScreen ==
    ASSUME Shapes, NEW p \in Peers, Track(p) \/ PollStep(p) \/ Tick(p)
    PROVE  Shapes'
<1>1. CASE Track(p)
  <2>1. events[p] \in Seq(Event) /\ events[p] # <<>>
    BY <1>1 DEF Track, Shapes
  <2>2. Head(events[p]).peer \in Peers /\ Tail(events[p]) \in Seq(Event)
    <3>1. Head(events[p]) \in Event /\ Tail(events[p]) \in Seq(Event)
      BY <2>1, HeadTailProperties
    <3> QED BY <3>1 DEF Event
  <2>3. roster' \in [Peers -> SUBSET Peers]
    BY <1>1, <2>2 DEF Track, Tracked, Shapes
  <2>4. events' \in [Peers -> Seq(Event)]
    BY <1>1, <2>2 DEF Track, Shapes
  <2> QED BY <1>1, <2>3, <2>4 DEF Track, Shapes, status, session
<1>2. CASE PollInVain(p)
  <2>1. polls[p] \in 0..MaxPolls /\ polls[p] > 0
    BY <1>2 DEF PollInVain, Shapes
  <2>2. polls[p] - 1 \in 0..MaxPolls
    BY <2>1, BoundsAssumption
  <2> QED BY <1>2, <2>2 DEF PollInVain, Shapes, transport, status
<1>3. CASE Adopt(p) \/ Adopted(p)
  <2>1. "halfway" \in Copy /\ "whole" \in Copy /\ 0 \in 0..MaxPolls
    BY BoundsAssumption DEF Copy
  <2>2. sessID' \in [Peers -> Copy]
    BY <1>3, <2>1 DEF Adopt, Adopted, Shapes
  <2>3. polls' \in [Peers -> 0..MaxPolls]
    BY <1>3, <2>1 DEF Adopt, Adopted, Shapes
  <2> QED BY <1>3, <2>2, <2>3 DEF Adopt, Adopted, Shapes, transport, status
<1>4. CASE Torn(p)
  BY <1>4, ShapesEnd DEF Torn
<1>5. CASE Tick(p)
  <2>1. \A snap \in Snapshots(p) : snap \in [rows : [Peers -> Lines \cup {Absent}], id : Copy]
    <3>1. \A q \in Peers : LineOf(p, q) \in Lines \cup {Absent}
      BY DEF LineOf, Shapes, Lines
    <3> QED BY <3>1 DEF Snapshots
  <2>2. view' \in [Peers -> [rows : [Peers -> Lines \cup {Absent}], id : Copy]]
    BY <1>5, <2>1 DEF Tick, Shapes
  <2> QED BY <1>5, <2>2 DEF Tick, Shapes, transport, status, session
<1> QED BY <1>1, <1>2, <1>3, <1>4, <1>5 DEF PollStep

LEMMA ShapesStep == Shapes /\ [Next]_vars => Shapes'
<1>1. ASSUME Shapes, Next PROVE Shapes'
  BY <1>1, ShapesCalls, ShapesReceive, ShapesScreen DEF Next
<1>2. ASSUME Shapes, UNCHANGED vars PROVE Shapes'
  BY <1>2 DEF vars, Shapes, transport, status, session
<1> QED BY <1>1, <1>2

----
(* The elements of a queue.                                                *)

LEMMA Appended ==
    ASSUME NEW S, NEW seq \in Seq(S), NEW e \in S
    PROVE  /\ DOMAIN seq \subseteq Nat /\ Len(seq) \in Nat
           /\ \A i \in DOMAIN seq : i \in DOMAIN Append(seq, e) /\ Append(seq, e)[i] = seq[i] /\ i <= Len(seq)
           /\ Len(seq) + 1 \in DOMAIN Append(seq, e) /\ Append(seq, e)[Len(seq) + 1] = e
           /\ \A i \in DOMAIN Append(seq, e) : i \in DOMAIN seq \/ i = Len(seq) + 1
           /\ seq = <<>> => Len(seq) + 1 = 1
<1>1. Len(seq) \in Nat /\ DOMAIN seq = 1..Len(seq)
  BY LenProperties
<1>2. DOMAIN Append(seq, e) = 1..(Len(seq) + 1)
  BY AppendProperties, LenProperties
<1>3. /\ \A i \in 1..Len(seq) : Append(seq, e)[i] = seq[i]
      /\ Append(seq, e)[Len(seq) + 1] = e
  BY AppendProperties
<1>4. seq = <<>> => Len(seq) = 0
  OBVIOUS
<1> QED BY <1>1, <1>2, <1>3, <1>4

LEMMA Tailed ==
    ASSUME NEW S, NEW seq \in Seq(S), seq # <<>>
    PROVE  /\ DOMAIN seq \subseteq Nat /\ 1 \in DOMAIN seq /\ Head(seq) = seq[1]
           /\ \A i \in DOMAIN Tail(seq) : /\ i \in Nat /\ i # 0 /\ i + 1 \in DOMAIN seq
                                         /\ Tail(seq)[i] = seq[i + 1]
           /\ \A i \in DOMAIN seq : i = 1 \/ (i - 1 \in DOMAIN Tail(seq) /\ Tail(seq)[i - 1] = seq[i])
<1>1. Len(seq) \in Nat /\ DOMAIN seq = 1..Len(seq) /\ Len(seq) # 0
  BY LenProperties, EmptySeq
<1>2. Len(Tail(seq)) = Len(seq) - 1 /\ DOMAIN Tail(seq) = 1..(Len(seq) - 1)
  BY <1>1, HeadTailProperties, LenProperties
<1>3. \A i \in 1..(Len(seq) - 1) : Tail(seq)[i] = seq[i + 1]
  BY <1>2, HeadTailProperties
<1>4. Head(seq) = seq[1]
  OBVIOUS
<1>5. ASSUME NEW i \in DOMAIN seq, i # 1
      PROVE  i - 1 \in 1..(Len(seq) - 1) /\ (i - 1) + 1 = i
  BY <1>1, <1>5
<1> QED BY <1>1, <1>2, <1>3, <1>4, <1>5

----
(* Steps outside the handshake.                                            *)

\* What becomes of a queue that no part of the handshake is put in.
Later(p, q) ==
    \/ net'[p][q] = net[p][q]
    \/ net'[p][q] = <<>>
    \/ net[p][q] # <<>> /\ net'[p][q] = Tail(net[p][q])
    \/ /\ Addressed(p, q) /\ life[p] # "out"
       /\ \E m \in Message : /\ m.kind \in {"goodbye", "peer_status"}
                              /\ net'[p][q] = Append(net[p][q], m)

LEMMA LaterQueue ==
    ASSUME Shapes, Openings, NEW p \in Peers, NEW q \in Peers, Later(p, q)
    PROVE  /\ \A kind \in {"hello", "hello_ack"} : Sends(p, q, kind)' => Sends(p, q, kind)
           /\ net[p][q] = <<>> /\ (Addressed(p, q) => life[p] = "out") => net'[p][q] = <<>>
           /\ \A i \in DOMAIN net'[p][q] :
                 /\ net'[p][q][i].kind = "hello" => i = 1 /\ p # Host /\ q = Host
                 /\ net'[p][q][i].kind = "hello_ack" => i = 1 /\ p = Host /\ q # Host
<1>0. net[p][q] \in Seq(Message)
  BY DEF Shapes
<1>1. CASE net'[p][q] = net[p][q]
  BY <1>1 DEF Sends, Openings
<1>2. CASE net'[p][q] = <<>>
  BY <1>2 DEF Sends
<1>3. CASE net[p][q] # <<>> /\ net'[p][q] = Tail(net[p][q])
  <2>1. ASSUME NEW i \in DOMAIN net'[p][q]
        PROVE  net'[p][q][i].kind \notin {"hello", "hello_ack"}
    <3>1. i \in Nat /\ i # 0 /\ i + 1 \in DOMAIN net[p][q] /\ net'[p][q][i] = net[p][q][i + 1]
      BY <1>0, <1>3, <2>1, Tailed
    <3>2. i + 1 # 1
      BY <3>1
    <3> QED BY <3>1, <3>2 DEF Openings
  <2> QED BY <1>3, <2>1 DEF Sends
<1>4. ASSUME Addressed(p, q), life[p] # "out",
             NEW m \in Message, m.kind \in {"goodbye", "peer_status"},
             net'[p][q] = Append(net[p][q], m)
      PROVE  /\ \A kind \in {"hello", "hello_ack"} : Sends(p, q, kind)' => Sends(p, q, kind)
             /\ \A i \in DOMAIN net'[p][q] :
                   /\ net'[p][q][i].kind = "hello" => i = 1 /\ p # Host /\ q = Host
                   /\ net'[p][q][i].kind = "hello_ack" => i = 1 /\ p = Host /\ q # Host
  <2>1. \A i \in DOMAIN net'[p][q] :
           \/ i \in DOMAIN net[p][q] /\ net'[p][q][i] = net[p][q][i]
           \/ net'[p][q][i] = m
    BY <1>0, <1>4, Appended
  <2> QED BY <1>4, <2>1 DEF Sends, Openings
<1> QED BY <1>1, <1>2, <1>3, <1>4 DEF Later

\* A step outside the handshake adds nobody, and addresses and names only peers in the table.
LEMMA MeetingKept ==
    ASSUME Shapes, Meeting, EventsOnce', Uncalled',
           \A p, q \in Peers :
              /\ Later(p, q)
              /\ q \in Known(p)' => q \in Known(p)
              /\ Adding(p, q)' => Adding(p, q)
              /\ Named(p, q)' => Named(p, q) \/ q \in Known(p)
              /\ Addressed(p, q)' => Addressed(p, q) \/ q \in Known(p)
              /\ q \in audience'[p] => q \in audience[p] \/ q \in Known(p),
           \A j \in Joiners : life'[j] = "out" =>
              /\ life[j] = "out" /\ audience'[j] = {}
              /\ \A c \in DOMAIN caller' : caller'[c] # j
    PROVE  Meeting'
<1> USE DEF Meeting
<1>1. Strangers'
  <2>1. \A p, q \in Peers : ~Linked(p, q) => net'[p][q] = <<>>
    BY LaterQueue DEF Strangers
  <2> QED BY <2>1 DEF Strangers
<1>2. Openings'
  BY LaterQueue DEF Openings
<1>3. Freshness'
  <2> SUFFICES ASSUME NEW j \in Joiners, Fresh(j)'
               PROVE  /\ net'[Host][j] = <<>> /\ ~Adding(Host, j)' /\ ~Adding(j, Host)'
                      /\ j \notin Known(Host)' /\ Host \notin Known(j)'
                      /\ ~Named(Host, j)' /\ ~Named(j, Host)'
                      /\ ~Addressed(Host, j)' /\ j \notin audience'[Host]
    BY DEF Freshness
  <2>1. Fresh(j)
    BY LaterQueue, HostIsPeer DEF Fresh
  <2>2. net'[Host][j] = <<>>
    BY <2>1, LaterQueue, HostIsPeer DEF Freshness
  <2> QED BY <2>1, <2>2, HostIsPeer DEF Freshness
<1>4. NotYet'
  <2> SUFFICES ASSUME NEW j \in Joiners, life'[j] = "out"
               PROVE  net'[j][Host] = <<>>
    BY DEF NotYet
  <2> QED BY LaterQueue, HostIsPeer DEF NotYet
<1>5. Before'
  <2> SUFFICES ASSUME NEW p \in Peers, NEW q \in Peers
               PROVE  /\ Adding(p, q)' \/ Sends(q, p, "hello_ack")' => q \notin Known(p)' /\ ~Named(p, q)'
                      /\ Adding(p, q)' => ~Sends(q, p, "hello_ack")'
    BY DEF Before
  <2>1. Sends(q, p, "hello_ack")' => Sends(q, p, "hello_ack")
    BY LaterQueue
  <2> QED BY <2>1 DEF Before
<1> QED BY <1>1, <1>2, <1>3, <1>4, <1>5
LEMMA OnceKept ==
    ASSUME Shapes, EventsOnce,
           \A p, q \in Peers : q \in Known(p)' => q \in Known(p),
           \A p \in Peers : \/ events'[p] = events[p]
                            \/ events'[p] = <<>>
                            \/ events[p] # <<>> /\ events'[p] = Tail(events[p])
    PROVE  EventsOnce' /\ \A p, q \in Peers : Named(p, q)' => Named(p, q)
<1> SUFFICES ASSUME NEW p \in Peers
             PROVE  /\ \A i, k \in DOMAIN events'[p] : events'[p][i] = events'[p][k] => i = k
                    /\ \A i \in DOMAIN events'[p] :
                          events'[p][i].kind = "left" => events'[p][i].peer \notin Known(p)'
                    /\ \A q \in Peers : Named(p, q)' => Named(p, q)
  BY DEF EventsOnce
<1>0. events[p] \in Seq(Event) /\ \A e \in Event : e.peer \in Peers
  BY DEF Shapes, Event
<1>1. CASE events'[p] = events[p]
  <2>1. \A i \in DOMAIN events[p] : events[p][i].peer \in Peers
    BY <1>0
  <2> QED BY <1>1, <2>1 DEF EventsOnce, Named
<1>2. CASE events'[p] = <<>>
  BY <1>2 DEF Named
<1>3. CASE events[p] # <<>> /\ events'[p] = Tail(events[p])
  <2>1. \A i \in DOMAIN events'[p] : /\ i \in Nat /\ i + 1 \in DOMAIN events[p]
                                     /\ events'[p][i] = events[p][i + 1]
    BY <1>0, <1>3, Tailed
  <2>2. \A i, k \in DOMAIN events'[p] : events'[p][i] = events'[p][k] => i = k
    <3> SUFFICES ASSUME NEW i \in DOMAIN events'[p], NEW k \in DOMAIN events'[p],
                        events'[p][i] = events'[p][k]
                 PROVE  i = k
      OBVIOUS
    <3>1. i + 1 = k + 1
      BY <2>1 DEF EventsOnce
    <3> QED BY <2>1, <3>1
  <2>3. \A i \in DOMAIN events[p] : events[p][i].peer \in Peers
    BY <1>0
  <2> QED BY <2>1, <2>2, <2>3 DEF EventsOnce, Named
<1> QED BY <1>1, <1>2, <1>3

\* A step that leaves the transport, the calls and the goodbyes alone.
LEMMA MeetingIdle ==
    ASSUME Shapes, Meeting,
           UNCHANGED <<caller, life, table, recvLoop, events, net, rest, call, farewell, audience>>
    PROVE  Meeting'
<1>1. \A p, q \in Peers :
         /\ Known(p)' = Known(p) /\ Adding(p, q)' = Adding(p, q) /\ Named(p, q)' = Named(p, q)
         /\ Addressed(p, q)' = Addressed(p, q) /\ Later(p, q)
  BY DEF Known, Adding, Named, Addressed, Calling, Later
<1>2. EventsOnce' /\ Uncalled'
  BY <1>1, OnceKept DEF Meeting, Uncalled
<1> QED BY <1>1, <1>2, MeetingKept DEF Meeting, NotYet

LEMMA MeetingStore ==
    ASSUME Shapes, Meeting, NEW p \in Peers, StoreStatus(p)
    PROVE  Meeting'
<1>1. /\ UNCHANGED <<life, table, recvLoop, events, net, rest, farewell>>
      /\ audience' = [audience EXCEPT ![p] = {}] /\ life[p] = "running"
      /\ caller' = Append(caller, p)
  BY DEF StoreStatus, transport
<1>2. caller \in Seq(Peers)
  BY DEF Shapes
<1>3. Len(caller) + 1 \notin DOMAIN caller /\ Len(caller) + 1 \in Calls
  BY <1>2, LenProperties DEF StoreStatus
<1>4. \A c \in DOMAIN caller' : \/ c \in DOMAIN caller /\ caller'[c] = caller[c]
                                \/ c = Len(caller) + 1 /\ caller'[c] = p /\ rest[c] = {}
  BY <1>1, <1>2, <1>3, Appended DEF Meeting, Uncalled
<1>5. \A q, r \in Peers :
         /\ Known(q)' = Known(q) /\ Adding(q, r)' = Adding(q, r) /\ Named(q, r)' = Named(q, r)
         /\ Later(q, r)
  BY <1>1 DEF Known, Adding, Named, Later
<1>6. \A q, r \in Peers : Addressed(q, r)' => Addressed(q, r)
  BY <1>1, <1>4 DEF Addressed, Calling
<1>7. Uncalled'
  <2> SUFFICES ASSUME NEW c \in Calls, c \notin DOMAIN caller'
               PROVE  rest'[c] = {} /\ call'[c] = "idle"
    BY DEF Uncalled
  <2>1. c \notin DOMAIN caller /\ c # Len(caller) + 1
    BY <1>1, <1>2, Appended
  <2>2. call \in [Calls -> {"idle", "stored", "sending"}]
    BY DEF Shapes
  <2> QED BY <1>1, <2>1, <2>2 DEF StoreStatus, Meeting, Uncalled
<1>8. EventsOnce'
  BY <1>1, <1>5, OnceKept DEF Meeting
<1>9. \A q \in Peers : audience'[q] \subseteq audience[q]
  BY <1>1 DEF Shapes
<1>10. \A j \in Joiners : life'[j] = "out" => /\ life[j] = "out" /\ audience'[j] = {}
                                            /\ \A c \in DOMAIN caller' : caller'[c] # j
  BY <1>1, <1>4, <1>9, HostIsPeer DEF Meeting, NotYet
<1> QED BY <1>5, <1>6, <1>7, <1>8, <1>9, <1>10, MeetingKept

LEMMA MeetingSnapshot ==
    ASSUME Shapes, Meeting, NEW c \in DOMAIN caller, SnapshotPeers(c)
    PROVE  Meeting'
<1> DEFINE p == caller[c]
<1>0. p \in Peers /\ c \in Calls
  BY CallerShapes
<1>1. /\ UNCHANGED <<caller, life, table, recvLoop, events, net, farewell>>
      /\ life[p] # "out"
  BY DEF SnapshotPeers, transport, Alive
<1>2. /\ rest' = [rest EXCEPT ![c] = Known(p)]
      /\ audience' = [audience EXCEPT ![p] = Known(p)] \/ audience' = audience
      /\ call' = [call EXCEPT ![c] = "sending"]
  BY DEF SnapshotPeers, Recipients
<1>3. \A q, r \in Peers :
         /\ Known(q)' = Known(q) /\ Adding(q, r)' = Adding(q, r) /\ Named(q, r)' = Named(q, r)
         /\ Later(q, r)
  BY <1>1 DEF Known, Adding, Named, Later
<1>4. \A q, r \in Peers : Addressed(q, r)' => Addressed(q, r) \/ r \in Known(q)
  <2> SUFFICES ASSUME NEW q \in Peers, NEW r \in Peers, NEW d \in DOMAIN caller,
                      caller[d] = q, r \in rest'[d]
               PROVE  r \in rest[d] \/ r \in Known(q)
    BY <1>1 DEF Addressed, Calling
  <2>1. d \in Calls /\ rest \in [Calls -> SUBSET Peers]
    BY CallerShapes DEF Shapes
  <2> QED BY <1>2, <2>1
<1>5. Uncalled'
  BY <1>1, <1>2 DEF Meeting, Uncalled, Shapes
<1>6. EventsOnce'
  BY <1>1, <1>3, OnceKept DEF Meeting
<1>7. \A q, r \in Peers : r \in audience'[q] => r \in audience[q] \/ r \in Known(q)
  BY <1>2 DEF Shapes
<1>8. \A j \in Joiners : life'[j] = "out" => /\ life[j] = "out" /\ audience'[j] = {}
                                           /\ \A d \in DOMAIN caller' : caller'[d] # j
  BY <1>1, <1>2, HostIsPeer DEF Meeting, NotYet, Shapes
<1> QED BY <1>3, <1>4, <1>5, <1>6, <1>7, <1>8, MeetingKept

LEMMA MeetingSendStatus ==
    ASSUME Shapes, Meeting, NEW c \in DOMAIN caller, NEW q \in rest[c], SendStatus(c, q)
    PROVE  Meeting'
<1> DEFINE p == caller[c]
<1>0. p \in Peers /\ c \in Calls /\ q \in Peers /\ rest \in [Calls -> SUBSET Peers]
  BY CallerShapes DEF Shapes
<1>1. /\ UNCHANGED <<caller, life, table, recvLoop, events, call, audience, farewell>>
      /\ life[p] # "out"
      /\ rest' = [rest EXCEPT ![c] = @ \ {q}]
      /\ net' = Sent(p, q, [kind |-> "peer_status", status |-> c])
  BY DEF SendStatus, transport, Alive
<1>2. [kind |-> "peer_status", status |-> c] \in Message
  BY <1>0 DEF Message
<1>3. \A r, s \in Peers : Later(r, s)
  <2> SUFFICES ASSUME NEW r \in Peers, NEW s \in Peers PROVE Later(r, s)
    OBVIOUS
  <2>1. Addressed(p, q)
    BY DEF Addressed, Calling
  <2>2. /\ r # p \/ s # q => net'[r][s] = net[r][s]
        /\ net'[p][q] = net[p][q] \/ net'[p][q] = Append(net[p][q], [kind |-> "peer_status", status |-> c])
    BY <1>0, <1>1, <1>2, SentNet
  <2> QED BY <1>1, <1>2, <2>1, <2>2 DEF Later
<1>4. \A r, s \in Peers :
         /\ Known(r)' = Known(r) /\ Adding(r, s)' = Adding(r, s) /\ Named(r, s)' = Named(r, s)
  BY <1>1 DEF Known, Adding, Named
<1>5. \A d \in Calls : rest'[d] \subseteq rest[d]
  BY <1>0, <1>1
<1>6. \A r, s \in Peers : Addressed(r, s)' => Addressed(r, s)
  BY <1>1, <1>5, CallerShapes DEF Addressed, Calling
<1>7. EventsOnce' /\ Uncalled'
  BY <1>1, <1>4, <1>5, OnceKept DEF Meeting, Uncalled
<1> QED BY <1>1, <1>3, <1>4, <1>6, <1>7, MeetingKept DEF Meeting, NotYet

LEMMA MeetingClose ==
    ASSUME Shapes, Meeting, NEW p \in Peers, Close(p)
    PROVE  Meeting'
<1>1. /\ UNCHANGED <<caller, table, recvLoop, events, net, call, rest, audience>>
      /\ life' = [life EXCEPT ![p] = "closing"]
      /\ farewell' = [farewell EXCEPT ![p] = Known(p)]
  BY DEF Close, transport, status
<1>2. \A r, s \in Peers :
         /\ Known(r)' = Known(r) /\ Adding(r, s)' = Adding(r, s) /\ Named(r, s)' = Named(r, s)
         /\ Later(r, s)
  BY <1>1 DEF Known, Adding, Named, Later
<1>3. \A r, s \in Peers : Addressed(r, s)' => Addressed(r, s) \/ s \in Known(r)
  BY <1>1 DEF Addressed, Calling, Shapes
<1>4. EventsOnce' /\ Uncalled'
  BY <1>1, <1>2, OnceKept DEF Meeting, Uncalled
<1>5. \A j \in Joiners : life'[j] = "out" => life[j] = "out"
  BY <1>1, HostIsPeer DEF Shapes
<1> QED BY <1>1, <1>2, <1>3, <1>4, <1>5, MeetingKept DEF Meeting, NotYet

LEMMA MeetingSendGoodbye ==
    ASSUME Shapes, Meeting, NEW p \in Peers, NEW q \in Peers, SendGoodbye(p, q)
    PROVE  Meeting'
<1>1. /\ UNCHANGED <<caller, life, table, recvLoop, events, call, rest, audience>>
      /\ life[p] = "closing" /\ q \in farewell[p]
      /\ farewell' = [farewell EXCEPT ![p] = @ \ {q}]
      /\ net' = Sent(p, q, [kind |-> "goodbye"])
  BY DEF SendGoodbye, transport, status
<1>2. [kind |-> "goodbye"] \in Message
  BY DEF Message
<1>3. \A r, s \in Peers : Later(r, s)
  <2> SUFFICES ASSUME NEW r \in Peers, NEW s \in Peers PROVE Later(r, s)
    OBVIOUS
  <2>1. Addressed(p, q)
    BY <1>1 DEF Addressed, Calling
  <2>2. /\ r # p \/ s # q => net'[r][s] = net[r][s]
        /\ net'[p][q] = net[p][q] \/ net'[p][q] = Append(net[p][q], [kind |-> "goodbye"])
    BY <1>1, <1>2, SentNet
  <2> QED BY <1>1, <1>2, <2>1, <2>2 DEF Later
<1>4. \A r, s \in Peers :
         /\ Known(r)' = Known(r) /\ Adding(r, s)' = Adding(r, s) /\ Named(r, s)' = Named(r, s)
  BY <1>1 DEF Known, Adding, Named
<1>5. \A r, s \in Peers : Addressed(r, s)' => Addressed(r, s)
  BY <1>1 DEF Addressed, Calling, Shapes
<1>6. EventsOnce' /\ Uncalled'
  BY <1>1, <1>4, OnceKept DEF Meeting, Uncalled
<1> QED BY <1>1, <1>3, <1>4, <1>5, <1>6, MeetingKept DEF Meeting, NotYet

LEMMA MeetingEnd ==
    ASSUME Shapes, Meeting, NEW p \in Peers, NEW how \in {"left", "crashed"}, End(p, how)
    PROVE  Meeting'
<1>1. /\ UNCHANGED <<caller, call>>
      /\ life' = [life EXCEPT ![p] = how] /\ recvLoop' = [recvLoop EXCEPT ![p] = Stopped]
      /\ table' = [table EXCEPT ![p] = Nobody] /\ events' = [events EXCEPT ![p] = <<>>]
      /\ farewell' = [farewell EXCEPT ![p] = {}] /\ audience' = [audience EXCEPT ![p] = {}]
  BY DEF End
<1>2. /\ \A q, r \in Peers : net'[q][r] = IF r = p THEN <<>> ELSE net[q][r]
      /\ \A c \in Calls : rest'[c] \subseteq rest[c]
  BY DEF End, Shapes
<1>3. \A q, r \in Peers : r \in Known(q)' => r \in Known(q)
  BY <1>1 DEF Known, Nobody, Shapes
<1>4. \A q, r \in Peers : Adding(q, r)' => Adding(q, r)
  BY <1>1 DEF Adding, Stopped, Shapes
<1>5. \A q, r \in Peers : Addressed(q, r)' => Addressed(q, r)
  BY <1>1, <1>2, CallerShapes DEF Addressed, Calling, Shapes
<1>6. \A q \in Peers : audience'[q] \subseteq audience[q] /\ (events'[q] = events[q] \/ events'[q] = <<>>)
  BY <1>1 DEF Shapes
<1>7. EventsOnce' /\ \A q, r \in Peers : Named(q, r)' => Named(q, r)
  BY <1>3, <1>6, OnceKept DEF Meeting
<1>8. Uncalled'
  BY <1>1, <1>2 DEF Meeting, Uncalled
<1>9. \A j \in Joiners : life'[j] = "out" => life[j] = "out"
  BY <1>1, HostIsPeer DEF Shapes
<1>10. \A q, r \in Peers : Later(q, r)
  BY <1>2 DEF Later
<1> QED BY <1>1, <1>3, <1>4, <1>5, <1>6, <1>7, <1>8, <1>9, <1>10, HostIsPeer, MeetingKept
        DEF Meeting, NotYet

LEMMA MeetingTrack ==
    ASSUME Shapes, Meeting, NEW p \in Peers, Track(p)
    PROVE  Meeting'
<1>1. /\ UNCHANGED <<caller, life, table, recvLoop, net, call, rest, farewell, audience>>
      /\ events[p] # <<>> /\ events' = [events EXCEPT ![p] = Tail(@)]
  BY DEF Track, status
<1>2. \A q, r \in Peers :
         /\ Known(q)' = Known(q) /\ Adding(q, r)' = Adding(q, r)
         /\ Addressed(q, r)' = Addressed(q, r) /\ Later(q, r)
  BY <1>1 DEF Known, Adding, Addressed, Calling, Later
<1>3. \A q \in Peers : events'[q] = events[q] \/ (events[q] # <<>> /\ events'[q] = Tail(events[q]))
  BY <1>1 DEF Shapes
<1>4. EventsOnce' /\ \A q, r \in Peers : Named(q, r)' => Named(q, r)
  BY <1>2, <1>3, OnceKept DEF Meeting
<1>5. Uncalled'
  BY <1>1 DEF Meeting, Uncalled
<1> QED BY <1>1, <1>2, <1>4, <1>5, MeetingKept DEF Meeting, NotYet
LEMMA TakenNet ==
    ASSUME Shapes, NEW p \in Peers, NEW q \in Peers, NEW m, Arrives(p, q, m)
    PROVE  /\ net[q][p] # <<>> /\ 1 \in DOMAIN net[q][p] /\ m = net[q][p][1] /\ m \in Message
           /\ recvLoop[p] = Polling /\ life[p] \in {"running", "closing"}
           /\ net' = Taken(p, q) => /\ \A r, s \in Peers : r # q \/ s # p => net'[r][s] = net[r][s]
                                    /\ net'[q][p] = Tail(net[q][p])
                                    /\ \A r, s \in Peers : Later(r, s)
<1>1. net \in [Peers -> [Peers -> Seq(Message)]] /\ net[q][p] \in Seq(Message)
  BY DEF Shapes
<1>2. /\ net[q][p] # <<>> /\ m = Head(net[q][p]) /\ recvLoop[p] = Polling
      /\ life[p] \in {"running", "closing"}
  BY DEF Arrives, Alive
<1>3. 1 \in DOMAIN net[q][p] /\ Head(net[q][p]) = net[q][p][1] /\ Head(net[q][p]) \in Message
  BY <1>1, <1>2, Tailed, HeadTailProperties
<1>4. net' = Taken(p, q) => /\ \A r, s \in Peers : r # q \/ s # p => net'[r][s] = net[r][s]
                            /\ net'[q][p] = Tail(net[q][p])
  BY <1>1 DEF Taken
<1> QED BY <1>2, <1>3, <1>4 DEF Later

\* Whoever gets a message is linked with who sent it.
LEMMA ArrivesLinked ==
    ASSUME Shapes, Meeting, NEW p \in Peers, NEW q \in Peers, net[q][p] # <<>>
    PROVE  p # q /\ Linked(p, q) /\ Linked(q, p)
BY DEF Meeting, Strangers, Linked

LEMMA LoopIsOver ==
    ASSUME NEW p \in Peers
    PROVE  Loop(p) \in {Polling, Stopped} /\ \A q : Loop(p) # [at |-> "addPeer", peer |-> q]
BY DEF Loop, Polling, Stopped

LEMMA MeetingPeerStatus ==
    ASSUME Shapes, Meeting, NEW p \in Peers, NEW q \in Peers, NEW m, HandlePeerStatus(p, q, m)
    PROVE  Meeting'
<1>1. /\ UNCHANGED <<caller, life, events, call, rest, farewell, audience>>
      /\ Arrives(p, q, m) /\ m.kind = "peer_status" /\ net' = Taken(p, q)
      /\ table' = [table EXCEPT ![p][q] = Updated(@, m)]
      /\ recvLoop' = [recvLoop EXCEPT ![p] = Loop(p)]
  BY DEF HandlePeerStatus, status
<1>2. \A r, s \in Peers : Later(r, s)
  BY <1>1, TakenNet
<1>3. \A r, s \in Peers : s \in Known(r)' => s \in Known(r)
  BY <1>1 DEF Known, Updated, Shapes
<1>4. \A r, s \in Peers : Adding(r, s)' => Adding(r, s)
  BY <1>1, LoopIsOver DEF Adding, Shapes
<1>5. \A r, s \in Peers : Named(r, s)' = Named(r, s) /\ Addressed(r, s)' = Addressed(r, s)
  BY <1>1 DEF Named, Addressed, Calling
<1>6. EventsOnce' /\ Uncalled'
  BY <1>1, <1>3, OnceKept DEF Meeting, Uncalled
<1> QED BY <1>1, <1>2, <1>3, <1>4, <1>5, <1>6, MeetingKept DEF Meeting, NotYet

LEMMA MeetingGoodbye ==
    ASSUME Shapes, Meeting, NEW p \in Peers, NEW q \in Peers, NEW m, HandleGoodbye(p, q, m)
    PROVE  Meeting'
<1>1. /\ UNCHANGED <<caller, life, call, rest, farewell, audience>>
      /\ Arrives(p, q, m) /\ net' = Taken(p, q)
      /\ table' = [table EXCEPT ![p][q] = Absent]
      /\ events' = IF q \in Known(p) THEN [events EXCEPT ![p] = Append(@, [kind |-> "left", peer |-> q])]
                   ELSE events
      /\ recvLoop' = [recvLoop EXCEPT ![p] = Loop(p)]
  BY DEF HandleGoodbye, status
<1>2. \A r, s \in Peers : Later(r, s)
  BY <1>1, TakenNet
<1>3. (\A r, s \in Peers : s \in Known(r)' => s \in Known(r)) /\ q \notin Known(p)'
  BY <1>1 DEF Known, Shapes
<1>4. \A r, s \in Peers : Adding(r, s)' => Adding(r, s)
  BY <1>1, LoopIsOver DEF Adding, Shapes
<1>5. \A r, s \in Peers : Addressed(r, s)' = Addressed(r, s)
  BY <1>1 DEF Addressed, Calling
<1>6. Uncalled'
  BY <1>1 DEF Meeting, Uncalled
<1>7. EventsOnce' /\ \A r, s \in Peers : Named(r, s)' => Named(r, s) \/ s \in Known(r)
  <2>1. CASE q \notin Known(p)
    BY <1>1, <1>3, <2>1, OnceKept DEF Meeting
  <2>2. CASE q \in Known(p)
    <3> DEFINE left == [kind |-> "left", peer |-> q]
    <3>1. left \in Event /\ events \in [Peers -> Seq(Event)] /\ events[p] \in Seq(Event)
      BY DEF Event, Shapes
    <3>2. events'[p] = Append(events[p], left) /\ \A r \in Peers : r # p => events'[r] = events[r]
      BY <1>1, <2>2, <3>1
    <3>3. \A i \in DOMAIN events'[p] : \/ i \in DOMAIN events[p] /\ events'[p][i] = events[p][i]
                                       \/ i = Len(events[p]) + 1 /\ events'[p][i] = left
      BY <3>1, <3>2, Appended
    <3>4. \A i \in DOMAIN events[p] : events[p][i] # left
      BY <2>2 DEF Meeting, EventsOnce
    <3>5. \A e \in Event : e.peer \in Peers
      BY DEF Event
    <3>6. \A r \in Peers : \A i \in DOMAIN events[r] : events[r][i].peer \in Peers
      BY <3>1, <3>5
    <3>7. EventsOnce'
      <4> SUFFICES ASSUME NEW r \in Peers
                   PROVE  /\ \A i, k \in DOMAIN events'[r] : events'[r][i] = events'[r][k] => i = k
                          /\ \A i \in DOMAIN events'[r] :
                                events'[r][i].kind = "left" => events'[r][i].peer \notin Known(r)'
        BY DEF EventsOnce
      <4>1. CASE r # p
        BY <1>3, <3>2, <3>6, <4>1 DEF Meeting, EventsOnce
      <4>2. CASE r = p
        <5>1. \A i, k \in DOMAIN events'[p] : events'[p][i] = events'[p][k] => i = k
          BY <3>3, <3>4 DEF Meeting, EventsOnce
        <5>2. \A i \in DOMAIN events'[p] :
                 events'[p][i].kind = "left" => events'[p][i].peer \notin Known(p)'
          BY <1>3, <3>3, <3>6 DEF Meeting, EventsOnce
        <5> QED BY <4>2, <5>1, <5>2
      <4> QED BY <4>1, <4>2
    <3>8. \A r, s \in Peers : Named(r, s)' => Named(r, s) \/ s \in Known(r)
      <4> SUFFICES ASSUME NEW r \in Peers, NEW s \in Peers, NEW i \in DOMAIN events'[r],
                          events'[r][i].peer = s
                   PROVE  Named(r, s) \/ s \in Known(r)
        BY DEF Named
      <4> QED BY <2>2, <3>2, <3>3 DEF Named
    <3> QED BY <3>7, <3>8
  <2> QED BY <2>1, <2>2
<1> QED BY <1>1, <1>2, <1>3, <1>4, <1>5, <1>6, <1>7, MeetingKept DEF Meeting, NotYet
----
(* The handshake.                                                          *)

LEMMA MeetingJoin ==
    ASSUME Shapes, Meeting, NEW j \in Peers, Join(j)
    PROVE  Meeting'
<1> USE DEF Meeting
<1>1. /\ UNCHANGED <<caller, table, recvLoop, events, call, rest, farewell, audience>>
      /\ j \in Joiners /\ life[j] = "out" /\ j # Host
      /\ life' = [life EXCEPT ![j] = "running"]
      /\ net' = Sent(j, Host, [kind |-> "hello"])
  BY MembersAssumption DEF Join, transport, status
<1>2. \A p, q \in Peers :
         /\ Known(p)' = Known(p) /\ Adding(p, q)' = Adding(p, q) /\ Named(p, q)' = Named(p, q)
         /\ Addressed(p, q)' = Addressed(p, q)
  BY <1>1 DEF Known, Adding, Named, Addressed, Calling
<1>3. [kind |-> "hello"] \in Message
  BY DEF Message
<1>4. /\ \A p, q \in Peers : p # j \/ q # Host => net'[p][q] = net[p][q]
      /\ net'[j][Host] = net[j][Host] \/ net'[j][Host] = Append(net[j][Host], [kind |-> "hello"])
  BY <1>1, <1>3, SentNet, HostIsPeer
<1>5. net[j][Host] = <<>> /\ net[j][Host] \in Seq(Message)
  BY <1>1, HostIsPeer DEF NotYet, Shapes
<1>6. \A i \in DOMAIN net'[j][Host] : i = 1 /\ net'[j][Host][i].kind = "hello"
  BY <1>3, <1>4, <1>5, Appended
<1>7. \A p, q \in Peers : \A kind : Sends(p, q, kind)' =>
         Sends(p, q, kind) \/ (p = j /\ q = Host /\ kind = "hello")
  BY <1>4, <1>6 DEF Sends
<1>8. Linked(j, Host)
  BY <1>1 DEF Linked
<1>9. \A i \in Joiners : (life'[i] = "out" => life[i] = "out" /\ i # j) /\ (Fresh(i)' => Fresh(i))
  BY <1>1, <1>7, HostIsPeer DEF Shapes, Fresh
<1>10. Strangers'
  BY <1>1, <1>2, <1>4, <1>8 DEF Strangers
<1>11. Openings'
  BY <1>1, <1>4, <1>6 DEF Openings
<1>12. Freshness'
  BY <1>1, <1>2, <1>4, <1>9, HostIsPeer DEF Freshness
<1>13. NotYet'
  BY <1>1, <1>4, <1>9, HostIsPeer DEF NotYet
<1>14. Before'
  BY <1>1, <1>2, <1>7 DEF Before
<1>15. EventsOnce' /\ Uncalled'
  BY <1>1, <1>2 DEF EventsOnce, Uncalled
<1> QED BY <1>10, <1>11, <1>12, <1>13, <1>14, <1>15

LEMMA MeetingHello ==
    ASSUME Shapes, Meeting, NEW p \in Peers, NEW q \in Peers, NEW m, HandleHello(p, q, m)
    PROVE  Meeting'
<1> USE DEF Meeting
<1>1. /\ UNCHANGED <<caller, life, table, events, call, rest, farewell, audience>>
      /\ Arrives(p, q, m) /\ m.kind = "hello"
      /\ recvLoop' = [recvLoop EXCEPT ![p] = [at |-> "addPeer", peer |-> q]]
  BY DEF HandleHello, status
<1>2. /\ net[q][p] # <<>> /\ 1 \in DOMAIN net[q][p] /\ m = net[q][p][1] /\ recvLoop[p] = Polling
  BY <1>1, TakenNet
<1>3. p = Host /\ q # Host /\ q \in Joiners
  BY <1>1, <1>2, HostIsPeer DEF Openings
<1>4. Fresh(q) /\ life[q] # "out"
  BY <1>1, <1>2, <1>3 DEF Fresh, Sends, NotYet
<1>5. net[Host][q] = <<>> /\ net[Host][q] \in Seq(Message) /\ [kind |-> "hello_ack"] \in Message
  BY <1>3, <1>4, HostIsPeer DEF Freshness, Shapes, Message
<1>6. /\ \A r, s \in Peers : (r # q \/ s # Host) /\ (r # Host \/ s # q) => net'[r][s] = net[r][s]
      /\ net'[q][Host] = Tail(net[q][Host])
      /\ net'[Host][q] = net[Host][q] \/ net'[Host][q] = Append(net[Host][q], [kind |-> "hello_ack"])
  BY <1>3, HostIsPeer DEF HandleHello, Taken, Shapes
<1>7. \A i \in DOMAIN net'[Host][q] : i = 1 /\ net'[Host][q][i].kind = "hello_ack"
  BY <1>5, <1>6, Appended
<1>8. \A i \in DOMAIN net'[q][Host] : /\ i + 1 \in DOMAIN net[q][Host] /\ i + 1 # 1
                                      /\ net'[q][Host][i] = net[q][Host][i + 1]
  BY <1>2, <1>3, <1>6, HostIsPeer, Tailed DEF Shapes
<1>9. \A i \in DOMAIN net'[q][Host] : net'[q][Host][i].kind \notin {"hello", "hello_ack"}
  BY <1>3, <1>8, HostIsPeer DEF Openings
<1>10. \A r, s \in Peers : \A kind \in {"hello", "hello_ack"} : Sends(r, s, kind)' =>
          \/ Sends(r, s, kind) /\ ~(r = q /\ s = Host)
          \/ r = Host /\ s = q /\ kind = "hello_ack"
  BY <1>6, <1>7, <1>9 DEF Sends
<1>11. \A r, s \in Peers :
          /\ Known(r)' = Known(r) /\ Named(r, s)' = Named(r, s) /\ Addressed(r, s)' = Addressed(r, s)
  BY <1>1 DEF Known, Named, Addressed, Calling
<1>12. \A r, s \in Peers : Adding(r, s)' =>
          (Adding(r, s) /\ r # Host) \/ (r = Host /\ s = q)
  BY <1>1, <1>3 DEF Adding, Shapes
<1>13. Linked(Host, q) /\ Linked(q, Host)
  BY <1>3 DEF Linked
<1>14. \A j \in Joiners : Fresh(j)' => Fresh(j) /\ j # q /\ j # Host
  BY <1>1, <1>3, <1>4, <1>10, HostIsPeer, MembersAssumption DEF Fresh
<1>15. Strangers'
  BY <1>1, <1>6, <1>11, <1>12, <1>13 DEF Strangers
<1>16. Openings'
  <2> SUFFICES ASSUME NEW r \in Peers, NEW s \in Peers, NEW i \in DOMAIN net'[r][s]
               PROVE  /\ net'[r][s][i].kind = "hello" => i = 1 /\ r # Host /\ s = Host
                      /\ net'[r][s][i].kind = "hello_ack" => i = 1 /\ r = Host /\ s # Host
    BY DEF Openings
  <2>1. CASE r = Host /\ s = q
    BY <1>3, <1>7, <2>1
  <2>2. CASE r = q /\ s = Host
    BY <1>9, <2>2
  <2>3. CASE (r # q \/ s # Host) /\ (r # Host \/ s # q)
    BY <1>6, <2>3 DEF Openings
  <2> QED BY <2>1, <2>2, <2>3
<1>17. Freshness'
  <2> SUFFICES ASSUME NEW j \in Joiners, Fresh(j)'
               PROVE  /\ net'[Host][j] = <<>> /\ ~Adding(Host, j)' /\ ~Adding(j, Host)'
                      /\ j \notin Known(Host)' /\ Host \notin Known(j)'
                      /\ ~Named(Host, j)' /\ ~Named(j, Host)'
                      /\ ~Addressed(Host, j)' /\ j \notin audience'[Host]
    BY DEF Freshness
  <2>1. Fresh(j) /\ j # q /\ j # Host
    BY <1>14
  <2> QED BY <1>1, <1>6, <1>11, <1>12, <2>1, HostIsPeer DEF Freshness
<1>18. NotYet'
  <2> SUFFICES ASSUME NEW j \in Joiners, life[j] = "out"
               PROVE  net'[j][Host] = <<>>
    BY <1>1 DEF NotYet
  <2> QED BY <1>3, <1>4, <1>6, HostIsPeer, MembersAssumption DEF NotYet
<1>19. Before'
  <2> SUFFICES ASSUME NEW r \in Peers, NEW s \in Peers
               PROVE  /\ Adding(r, s)' \/ Sends(s, r, "hello_ack")' => s \notin Known(r) /\ ~Named(r, s)
                      /\ Adding(r, s)' => ~Sends(s, r, "hello_ack")'
    BY <1>11 DEF Before
  <2>1. /\ q \notin Known(Host) /\ ~Named(Host, q) /\ Host \notin Known(q) /\ ~Named(q, Host)
        /\ ~Adding(q, Host)
    BY <1>3, <1>4 DEF Freshness
  <2>2. Adding(r, s)' => (Adding(r, s) /\ r # Host) \/ (r = Host /\ s = q)
    BY <1>12
  <2>3. Sends(s, r, "hello_ack")' =>
           (Sends(s, r, "hello_ack") /\ ~(s = q /\ r = Host)) \/ (s = Host /\ r = q)
    BY <1>10
  <2>4. Adding(r, s)' \/ Sends(s, r, "hello_ack")' => s \notin Known(r) /\ ~Named(r, s)
    BY <2>1, <2>2, <2>3 DEF Before
  <2>5. Adding(r, s)' => ~Sends(s, r, "hello_ack")'
    BY <1>3, <2>1, <2>2, <2>3 DEF Before
  <2> QED BY <2>4, <2>5
<1>20. EventsOnce' /\ Uncalled'
  BY <1>1, <1>11 DEF EventsOnce, Uncalled
<1> QED BY <1>15, <1>16, <1>17, <1>18, <1>19, <1>20

LEMMA MeetingHelloAck ==
    ASSUME Shapes, Meeting, NEW p \in Peers, NEW q \in Peers, NEW m, HandleHelloAck(p, q, m)
    PROVE  Meeting'
<1> USE DEF Meeting
<1>1. /\ UNCHANGED <<caller, life, table, events, call, rest, farewell, audience>>
      /\ Arrives(p, q, m) /\ m.kind = "hello_ack" /\ net' = Taken(p, q)
      /\ recvLoop' = [recvLoop EXCEPT ![p] = [at |-> "addPeer", peer |-> q]]
  BY DEF HandleHelloAck, status
<1>2. /\ net[q][p] # <<>> /\ 1 \in DOMAIN net[q][p] /\ m = net[q][p][1] /\ net[q][p] \in Seq(Message)
      /\ \A r, s \in Peers : Later(r, s)
      /\ \A r, s \in Peers : r # q \/ s # p => net'[r][s] = net[r][s]
      /\ net'[q][p] = Tail(net[q][p])
  <2>1. net[q][p] \in Seq(Message)
    BY DEF Shapes
  <2>2. net[q][p] # <<>> /\ 1 \in DOMAIN net[q][p] /\ m = net[q][p][1]
    BY <1>1, TakenNet
  <2>3. \A r, s \in Peers : Later(r, s)
    BY <1>1, TakenNet
  <2>4. /\ \A r, s \in Peers : r # q \/ s # p => net'[r][s] = net[r][s]
        /\ net'[q][p] = Tail(net[q][p])
    BY <1>1, TakenNet
  <2> QED BY <2>1, <2>2, <2>3, <2>4
<1>3. q = Host /\ p # Host /\ p \in Joiners /\ Sends(q, p, "hello_ack")
  BY <1>1, <1>2, HostIsPeer DEF Openings, Sends
<1>4. ~Fresh(p)
  BY <1>2, <1>3 DEF Freshness
<1>5. \A r, s \in Peers : \A kind \in {"hello", "hello_ack"} : Sends(r, s, kind)' => Sends(r, s, kind)
  BY <1>2, LaterQueue
<1>6. ~Sends(q, p, "hello_ack")'
  <2>1. \A i \in DOMAIN net'[q][p] : /\ i + 1 \in DOMAIN net[q][p] /\ i + 1 # 1
                                     /\ net'[q][p][i] = net[q][p][i + 1]
    BY <1>2, Tailed
  <2> QED BY <2>1 DEF Openings, Sends
<1>7. \A r, s \in Peers :
         /\ Known(r)' = Known(r) /\ Named(r, s)' = Named(r, s) /\ Addressed(r, s)' = Addressed(r, s)
  BY <1>1 DEF Known, Named, Addressed, Calling
<1>8. \A r, s \in Peers : Adding(r, s)' => (Adding(r, s) /\ r # p) \/ (r = p /\ s = q)
  BY <1>1 DEF Adding, Shapes
<1>9. Strangers'
  <2>1. Linked(p, q)
    BY <1>3 DEF Linked
  <2>2. \A r, s \in Peers : ~Linked(r, s) => net'[r][s] = <<>>
    BY <1>2, LaterQueue DEF Strangers
  <2> QED BY <1>1, <1>7, <1>8, <2>1, <2>2 DEF Strangers
<1>10. Openings'
  BY <1>2, LaterQueue DEF Openings
<1>11. Freshness'
  <2> SUFFICES ASSUME NEW j \in Joiners, Fresh(j)'
               PROVE  /\ net'[Host][j] = <<>> /\ ~Adding(Host, j)' /\ ~Adding(j, Host)'
                      /\ j \notin Known(Host)' /\ Host \notin Known(j)'
                      /\ ~Named(Host, j)' /\ ~Named(j, Host)'
                      /\ ~Addressed(Host, j)' /\ j \notin audience'[Host]
    BY DEF Freshness
  <2>1. Fresh(j) /\ j # p
    BY <1>1, <1>4, <1>5, HostIsPeer DEF Fresh
  <2> QED BY <1>1, <1>2, <1>3, <1>7, <1>8, <2>1, HostIsPeer DEF Freshness
<1>12. NotYet'
  BY <1>1, <1>2, LaterQueue, HostIsPeer DEF NotYet
<1>13. Before'
  <2> SUFFICES ASSUME NEW r \in Peers, NEW s \in Peers
               PROVE  /\ Adding(r, s)' \/ Sends(s, r, "hello_ack")' => s \notin Known(r) /\ ~Named(r, s)
                      /\ Adding(r, s)' => ~Sends(s, r, "hello_ack")'
    BY <1>7 DEF Before
  <2>1. Sends(s, r, "hello_ack")' => Sends(s, r, "hello_ack")
    BY <1>5
  <2> QED BY <1>3, <1>6, <1>8, <2>1 DEF Before
<1>14. EventsOnce' /\ Uncalled'
  BY <1>1, <1>7 DEF EventsOnce, Uncalled
<1> QED BY <1>9, <1>10, <1>11, <1>12, <1>13, <1>14

LEMMA MeetingAddPeer ==
    ASSUME Shapes, Meeting, NEW p \in Peers, AddPeer(p)
    PROVE  Meeting'
<1> USE DEF Meeting
<1> DEFINE q == recvLoop[p].peer
<1> DEFINE joined == [kind |-> "joined", peer |-> q]
<1>1. q \in Peers /\ Adding(p, q)
  BY LoopShapes DEF AddPeer, Shapes, Adding
<1>2. q \notin Known(p) /\ ~Named(p, q) /\ ~Sends(q, p, "hello_ack") /\ Linked(p, q)
  BY <1>1 DEF Before, Strangers
<1>3. /\ UNCHANGED <<caller, life, net, call, rest, farewell, audience>>
      /\ table' = [table EXCEPT ![p][q] = IF @ = Absent THEN Unset ELSE @]
      /\ events' = [events EXCEPT ![p] = Append(@, joined)]
      /\ recvLoop' = [recvLoop EXCEPT ![p] = Loop(p)]
  BY <1>2 DEF AddPeer, status
<1>4. \A r, s \in Peers : s \in Known(r)' => s \in Known(r) \/ (r = p /\ s = q)
  BY <1>1, <1>3 DEF Known, Shapes
<1>5. \A r, s \in Peers : Adding(r, s)' => Adding(r, s) /\ r # p
  BY <1>3, LoopIsOver DEF Adding, Shapes
<1>6. \A r, s \in Peers : Addressed(r, s)' = Addressed(r, s)
  BY <1>3 DEF Addressed, Calling
<1>7. \A r, s \in Peers : \A kind : Sends(r, s, kind)' = Sends(r, s, kind)
  BY <1>3 DEF Sends
<1>8. joined \in Event /\ events \in [Peers -> Seq(Event)] /\ events[p] \in Seq(Event)
  BY <1>1 DEF Event, Shapes
<1>9. /\ \A r \in Peers : r # p => events'[r] = events[r]
      /\ \A i \in DOMAIN events'[p] : \/ i \in DOMAIN events[p] /\ events'[p][i] = events[p][i]
                                      \/ i = Len(events[p]) + 1 /\ events'[p][i] = joined
  BY <1>3, <1>8, Appended
<1>10. \A r, s \in Peers : Named(r, s)' => Named(r, s) \/ (r = p /\ s = q)
  BY <1>9 DEF Named
<1>11. \A j \in Joiners : Fresh(j)' = Fresh(j)
  BY <1>3 DEF Fresh, Sends
<1>12. Strangers'
  BY <1>2, <1>3, <1>4, <1>5, <1>6, <1>10 DEF Strangers
<1>13. Openings' /\ NotYet' /\ Uncalled'
  BY <1>3 DEF Openings, NotYet, Uncalled
<1>14. Freshness'
  BY <1>1, <1>3, <1>4, <1>5, <1>6, <1>10, <1>11, HostIsPeer DEF Freshness
<1>15. Before'
  BY <1>2, <1>4, <1>5, <1>7, <1>10 DEF Before
<1>16. EventsOnce'
  <2> SUFFICES ASSUME NEW r \in Peers
               PROVE  /\ \A i, k \in DOMAIN events'[r] : events'[r][i] = events'[r][k] => i = k
                      /\ \A i \in DOMAIN events'[r] :
                            events'[r][i].kind = "left" => events'[r][i].peer \notin Known(r)'
    BY DEF EventsOnce
  <2>1. \A i \in DOMAIN events[r] : events[r][i].peer \in Peers
    <3>1. \A e \in Event : e.peer \in Peers
      BY DEF Event
    <3> QED BY <1>8, <3>1
  <2>2. CASE r # p
    BY <1>4, <1>9, <2>1, <2>2 DEF EventsOnce
  <2>3. CASE r = p
    <3>1. \A i \in DOMAIN events[p] : events[p][i] # joined
      BY <1>2 DEF Named
    <3>2. \A i, k \in DOMAIN events'[p] : events'[p][i] = events'[p][k] => i = k
      BY <1>9, <3>1 DEF EventsOnce
    <3>3. \A i \in DOMAIN events[p] : events[p][i].peer # q
      BY <1>2 DEF Named
    <3>4. \A i \in DOMAIN events'[p] :
             events'[p][i].kind = "left" => events'[p][i].peer \notin Known(p)'
      BY <1>4, <1>9, <2>1, <2>3, <3>3 DEF EventsOnce
    <3> QED BY <2>3, <3>2, <3>4
  <2> QED BY <2>2, <2>3
<1> QED BY <1>12, <1>13, <1>14, <1>15, <1>16

LEMMA MeetingInit == Init => Meeting
<1> SUFFICES ASSUME Init PROVE Meeting
  OBVIOUS
<1>1. \A p, q \in Peers :
         /\ Known(p) = {} /\ ~Adding(p, q) /\ ~Named(p, q) /\ ~Addressed(p, q)
         /\ net[p][q] = <<>> /\ audience[p] = {}
  BY DEF Init, Known, Nobody, Adding, Polling, Named, Addressed, Calling
<1>2. \A p, q \in Peers : \A kind : ~Sends(p, q, kind)
  BY <1>1 DEF Sends
<1>3. Strangers /\ Openings /\ Freshness /\ Before
  BY <1>1, <1>2, HostIsPeer DEF Strangers, Openings, Freshness, Before
<1>4. NotYet /\ EventsOnce /\ Uncalled
  BY <1>1, HostIsPeer DEF NotYet, EventsOnce, Uncalled, Init
<1> QED BY <1>3, <1>4 DEF Meeting

LEMMA MeetingStep == Shapes /\ Meeting /\ [Next]_vars => Meeting'
<1> SUFFICES ASSUME Shapes, Meeting, [Next]_vars PROVE Meeting'
  OBVIOUS
<1>1. ASSUME NEW p \in Peers, Join(p) \/ Close(p) \/ StoreStatus(p) \/ Track(p)
      PROVE  Meeting'
  BY <1>1, MeetingJoin, MeetingClose, MeetingStore, MeetingTrack
<1>2. ASSUME NEW p \in Peers, RecvStep(p)
      PROVE  Meeting'
  BY <1>2, MeetingHello, MeetingHelloAck, MeetingAddPeer, MeetingGoodbye, MeetingPeerStatus
     DEF RecvStep, Receive
<1>3. ASSUME NEW p \in Peers, CloseStep(p)
      PROVE  Meeting'
  <2>1. farewell[p] \subseteq Peers
    BY DEF Shapes
  <2> QED BY <1>3, <2>1, MeetingEnd, MeetingSendGoodbye DEF CloseStep, Exit
<1>4. ASSUME NEW p \in Peers, Torn(p)
      PROVE  Meeting'
  BY <1>4, MeetingEnd DEF Torn
<1>5. ASSUME NEW p \in Peers, PollInVain(p) \/ Adopt(p) \/ Adopted(p) \/ Tick(p)
      PROVE  Meeting'
  BY <1>5, MeetingIdle DEF PollInVain, Adopt, Adopted, Tick, transport, status
<1>6. ASSUME NEW c \in Calls, CallStep(c)
      PROVE  Meeting'
  BY <1>6, MeetingSnapshot, MeetingSendStatus DEF CallStep
<1>7. CASE UNCHANGED vars
  BY <1>7, MeetingIdle DEF vars, transport, status
<1> QED BY <1>1, <1>2, <1>3, <1>4, <1>5, <1>6, <1>7 DEF Next, PollStep
----
(* Types.                                                                  *)

\* A peer has no more than two events of each other peer to tell.
LEMMA FewEvents == Shapes /\ Meeting => EventsBounded
<1> SUFFICES ASSUME Shapes, Meeting, NEW p \in Peers
             PROVE  Len(events[p]) <= 2 * Cardinality(Peers \ {p})
  BY DEF EventsBounded
<1> DEFINE Others == Peers \ {p}
           About(kind) == {i \in DOMAIN events[p] : events[p][i].kind = kind}
<1>1. IsFiniteSet(Others) /\ Cardinality(Others) \in Nat
  <2>1. IsFiniteSet(Peers)
    BY MembersAssumption, FS_Singleton, FS_Union DEF Peers
  <2> QED BY <2>1, FS_Subset, FS_CardinalityType
<1>2. \A i \in DOMAIN events[p] : /\ events[p][i].kind \in {"joined", "left"}
                                  /\ events[p][i].peer \in Others
                                  /\ events[p][i] = [kind |-> events[p][i].kind,
                                                     peer |-> events[p][i].peer]
  <2> SUFFICES ASSUME NEW i \in DOMAIN events[p]
               PROVE  /\ events[p][i].kind \in {"joined", "left"}
                      /\ events[p][i].peer \in Others
                      /\ events[p][i] = [kind |-> events[p][i].kind, peer |-> events[p][i].peer]
    OBVIOUS
  <2>1. events[p][i] \in Event
    BY DEF Shapes
  <2>2. /\ events[p][i].kind \in {"joined", "left"} /\ events[p][i].peer \in Peers
        /\ events[p][i] = [kind |-> events[p][i].kind, peer |-> events[p][i].peer]
    BY <2>1 DEF Event
  <2>3. Named(p, events[p][i].peer)
    BY DEF Named
  <2>4. events[p][i].peer # p
    BY <2>2, <2>3 DEF Meeting, Strangers, Linked
  <2> QED BY <2>2, <2>4
<1>3. ASSUME NEW kind \in {"joined", "left"}
      PROVE  IsFiniteSet(About(kind)) /\ Cardinality(About(kind)) <= Cardinality(Others)
  <2> DEFINE f == [i \in About(kind) |-> events[p][i].peer]
  <2>1. f \in [About(kind) -> Others]
    BY <1>2
  <2>2. \A i, k \in About(kind) : f[i] = f[k] => i = k
    <3> SUFFICES ASSUME NEW i \in About(kind), NEW k \in About(kind), f[i] = f[k]
                 PROVE  i = k
      OBVIOUS
    <3>1. /\ i \in DOMAIN events[p] /\ k \in DOMAIN events[p]
          /\ events[p][i].kind = kind /\ events[p][k].kind = kind
          /\ events[p][i].peer = events[p][k].peer
      OBVIOUS
    <3>2. events[p][i] = events[p][k]
      BY <1>2, <3>1
    <3> QED BY <3>1, <3>2 DEF Meeting, EventsOnce
  <2>3. f \in Injection(About(kind), Others)
    BY <2>1, <2>2 DEF Injection, IsInjective
  <2> QED BY <1>1, <2>3, FS_Injection
<1>4. /\ DOMAIN events[p] = About("joined") \cup About("left")
      /\ About("joined") \cap About("left") = {}
  BY <1>2
<1>5. Cardinality(DOMAIN events[p]) = Cardinality(About("joined")) + Cardinality(About("left"))
  <2>1. /\ IsFiniteSet(About("joined")) /\ IsFiniteSet(About("left"))
        /\ Cardinality(About("joined")) \in Nat /\ Cardinality(About("left")) \in Nat
    BY <1>3, FS_CardinalityType
  <2>2. Cardinality(About("joined") \cup About("left"))
           = Cardinality(About("joined")) + Cardinality(About("left"))
                - Cardinality(About("joined") \cap About("left"))
    BY <2>1, FS_Union
  <2>3. Cardinality(About("joined") \cap About("left")) = 0
    BY <1>4, FS_EmptySet
  <2> HIDE DEF About
  <2> QED BY <1>4, <2>1, <2>2, <2>3
<1>6. Len(events[p]) \in Nat /\ DOMAIN events[p] = 1..Len(events[p])
  BY LenProperties DEF Shapes
<1>7. Cardinality(1..Len(events[p])) = Len(events[p])
  BY <1>6, FS_Interval
<1>8. /\ Cardinality(About("joined")) \in Nat /\ Cardinality(About("left")) \in Nat
      /\ Cardinality(About("joined")) <= Cardinality(Others)
      /\ Cardinality(About("left")) <= Cardinality(Others)
  BY <1>3, FS_CardinalityType
<1> HIDE DEF About
<1> QED BY <1>1, <1>5, <1>6, <1>7, <1>8

\* Every variable keeps its type, whoever joins, leaves, crashes or sets its status; an
\* event channel never holds more than two events of each other peer, so that its room for
\* 16 is enough for eight of them (axl.go 55, 442-468).
THEOREM PresenceTypeCorrect == Spec => []TypeOK
<1>1. Init => Shapes /\ Meeting
  BY ShapesInit, MeetingInit
<1>2. Shapes /\ Meeting /\ [Next]_vars => (Shapes /\ Meeting)'
  BY ShapesStep, MeetingStep
<1>3. Shapes /\ Meeting => TypeOK
  BY TypeParts, FewEvents
<1> QED BY <1>1, <1>2, <1>3, PTL DEF Spec
----
(* Who has the line it was sent.                                           *)

LEMMA LastAppended ==
    ASSUME NEW seq \in Seq(Message), NEW c \in Calls
    PROVE  LastLine(Append(seq, [kind |-> "peer_status", status |-> c]), c)
<1> DEFINE line == [kind |-> "peer_status", status |-> c]
<1>1. line \in Message
  BY DEF Message
<1>2. /\ Len(seq) \in Nat /\ Len(seq) + 1 \in DOMAIN Append(seq, line)
      /\ Append(seq, line)[Len(seq) + 1] = line
      /\ \A i \in DOMAIN seq : i <= Len(seq)
      /\ \A i \in DOMAIN Append(seq, line) : i \in DOMAIN seq \/ i = Len(seq) + 1
      /\ DOMAIN seq \subseteq Nat
  BY <1>1, Appended
<1>3. \A k \in DOMAIN Append(seq, line) : ~(k > Len(seq) + 1)
  BY <1>2
<1> QED BY <1>2, <1>3 DEF LastLine

LEMMA LastTailed ==
    ASSUME NEW seq \in Seq(Message), seq # <<>>, NEW c, LastLine(seq, c)
    PROVE  \/ LastLine(Tail(seq), c)
           \/ /\ seq[1] = [kind |-> "peer_status", status |-> c]
              /\ \A k \in DOMAIN Tail(seq) : Tail(seq)[k].kind # "peer_status"
<1>1. PICK i \in DOMAIN seq : /\ seq[i] = [kind |-> "peer_status", status |-> c]
                              /\ \A k \in DOMAIN seq : k > i => seq[k].kind # "peer_status"
  BY DEF LastLine
<1>2. \A k \in DOMAIN Tail(seq) : k \in Nat /\ k # 0 /\ k + 1 \in DOMAIN seq /\ Tail(seq)[k] = seq[k + 1]
  BY Tailed
<1>3. CASE i = 1
  <2>1. \A k \in DOMAIN Tail(seq) : k + 1 > i
    BY <1>2, <1>3
  <2> QED BY <1>1, <1>2, <1>3, <2>1
<1>4. CASE i # 1
  <2>1. i \in Nat /\ i - 1 \in DOMAIN Tail(seq) /\ Tail(seq)[i - 1] = seq[i]
    BY <1>4, Tailed
  <2>2. \A k \in DOMAIN Tail(seq) : k > i - 1 => k + 1 > i
    BY <1>2, <2>1
  <2>3. \A k \in DOMAIN Tail(seq) : k > i - 1 => Tail(seq)[k].kind # "peer_status"
    BY <1>1, <1>2, <2>2
  <2> QED BY <1>1, <2>1, <2>3 DEF LastLine
<1> QED BY <1>3, <1>4

\* What the queue of q to p still has of each kind when its head is taken.
LEMMA TakenSends ==
    ASSUME Shapes, NEW p \in Peers, NEW q \in Peers, NEW m, Arrives(p, q, m),
           net'[q][p] = Tail(net[q][p])
    PROVE  /\ Sends(q, p, m.kind)
           /\ \A kind : Sends(q, p, kind)' => Sends(q, p, kind)
           /\ \A kind : Sends(q, p, kind) /\ kind # m.kind => Sends(q, p, kind)'
<1>1. net[q][p] \in Seq(Message) /\ net[q][p] # <<>>
  BY DEF Shapes, Arrives
<1>2. 1 \in DOMAIN net[q][p] /\ m = net[q][p][1]
  BY TakenNet
<1>3. /\ \A i \in DOMAIN net'[q][p] : i + 1 \in DOMAIN net[q][p] /\ net'[q][p][i] = net[q][p][i + 1]
      /\ \A i \in DOMAIN net[q][p] :
            i = 1 \/ (i - 1 \in DOMAIN net'[q][p] /\ net'[q][p][i - 1] = net[q][p][i])
  BY <1>1, Tailed
<1> QED BY <1>2, <1>3 DEF Sends

\* A message that is not a line leaves the last one behind it.
LEMMA TakenTold ==
    ASSUME Shapes, Told, NEW p \in Peers, NEW q \in Peers, NEW m, Arrives(p, q, m),
           net'[q][p] = Tail(net[q][p]), m.kind # "peer_status", table'[p][q] = table[p][q],
           NEW c \in Calls, SentTo(q, p, c)
    PROVE  HasOrGets(p, q, c)'
<1>0. net[q][p] \in Seq(Message)
  BY DEF Shapes
<1>1. net[q][p] # <<>> /\ m = net[q][p][1]
  BY TakenNet
<1>2. CASE LastLine(net[q][p], c)
  <2>1. net[q][p][1] # [kind |-> "peer_status", status |-> c]
    BY <1>1
  <2>2. LastLine(Tail(net[q][p]), c)
    BY <1>0, <1>1, <1>2, <2>1, LastTailed
  <2> QED BY <2>2 DEF HasOrGets
<1>3. CASE table[p][q] = c /\ ~Sends(q, p, "peer_status")
  BY <1>3, TakenSends DEF HasOrGets
<1> QED BY <1>2, <1>3 DEF Told, HasOrGets

\* Nothing between p and q has changed.
LEMMA ToldKept ==
    ASSUME Told, NEW p \in Peers, NEW q \in Peers, NEW c \in Calls, SentTo(p, q, c),
           net'[p][q] = net[p][q], table'[q][p] = table[q][p]
    PROVE  HasOrGets(q, p, c)'
BY DEF Told, HasOrGets, Sends

\* A step that starts nobody.
LEMMA TellingKept ==
    ASSUME Telling, Mutual', Mine', OneCall',
           \A p \in Peers : life'[p] \in {"out", "running"} => life[p] = life'[p],
           \A p, q \in Peers :
              /\ Sends(p, q, "goodbye")' => Sends(p, q, "goodbye") \/ life'[p] \notin {"out", "running"}
              /\ Running(p, q)' =>
                    /\ q \in Known(p) => q \in Known(p)'
                    /\ Sends(p, q, "peer_status")' => Sends(p, q, "peer_status") \/ q \in Known(p)
                    /\ q \in audience'[p] => q \in audience[p] \/ q \in Known(p)
                    /\ Calling(p, q)' => Calling(p, q) \/ q \in Known(p)
              /\ \A c \in Calls : SentTo(p, q, c)' => HasOrGets(q, p, c)'
    PROVE  Telling'
<1>1. \A p, q \in Peers : Running(p, q)' => Running(p, q) /\ Running(q, p)'
  BY DEF Running
<1>2. Goodbyes'
  BY DEF Telling, Goodbyes
<1>3. ToPeers'
  BY <1>1 DEF Telling, ToPeers
<1>4. Told'
  BY DEF Told
<1> QED BY <1>2, <1>3, <1>4 DEF Telling

LEMMA MutualKept ==
    ASSUME Mutual, \A p, q \in Peers : Running(p, q)' => Running(p, q) /\ (Side(p, q)' <=> Side(p, q))
    PROVE  Mutual'
<1>1. \A p, q \in Peers : Running(p, q)' => Running(q, p)'
  BY DEF Running
<1> QED BY <1>1 DEF Mutual

\* Steps of others than the calls.
LEMMA CallsKept ==
    ASSUME Telling, UNCHANGED <<caller, life, status>>
    PROVE  /\ Mine' /\ OneCall'
           /\ \A p, q \in Peers : /\ Running(p, q)' <=> Running(p, q)
                                  /\ Calling(p, q)' <=> Calling(p, q)
                                  /\ \A c \in Calls : SentTo(p, q, c)' <=> SentTo(p, q, c)
<1>1. UNCHANGED <<myStatus, call, rest, audience, overlapped>>
  BY DEF status
<1>2. Mine' /\ OneCall'
  BY <1>1 DEF Telling, Mine, OneCall, UnderWay
<1>3. \A p, q \in Peers : /\ Running(p, q)' <=> Running(p, q)
                          /\ Calling(p, q)' <=> Calling(p, q)
  BY <1>1 DEF Running, Calling
<1>4. \A p, q \in Peers : \A c \in Calls : SentTo(p, q, c)' <=> SentTo(p, q, c)
  BY <1>1, <1>3 DEF SentTo
<1> QED BY <1>2, <1>3, <1>4

LEMMA TellingIdle ==
    ASSUME Telling, UNCHANGED <<caller, life, status, table, recvLoop, net>>
    PROVE  Telling'
<1>1. \A p, q \in Peers : Known(p)' = Known(p) /\ (Side(p, q)' <=> Side(p, q))
  BY DEF Known, Side, Adding, Sends
<1>2. \A p, q \in Peers : \A kind : Sends(p, q, kind)' <=> Sends(p, q, kind)
  BY DEF Sends
<1>3. UNCHANGED audience
  BY DEF status
<1>4. \A p, q \in Peers : \A c \in Calls : SentTo(p, q, c)' => HasOrGets(q, p, c)'
  BY CallsKept, ToldKept DEF Telling
<1>5. Mutual'
  BY <1>1, CallsKept, MutualKept DEF Telling
<1> QED BY <1>1, <1>2, <1>3, <1>4, <1>5, CallsKept, TellingKept

LEMMA TellingPeerStatus ==
    ASSUME Shapes, Meeting, Telling,
           NEW p \in Peers, NEW q \in Peers, NEW m, HandlePeerStatus(p, q, m)
    PROVE  Telling'
<1>1. /\ UNCHANGED <<caller, life, status>>
      /\ Arrives(p, q, m) /\ m.kind = "peer_status" /\ net' = Taken(p, q)
      /\ table' = [table EXCEPT ![p][q] = Updated(@, m)]
      /\ recvLoop' = [recvLoop EXCEPT ![p] = Loop(p)]
  BY DEF HandlePeerStatus
<1>2. /\ net[q][p] # <<>> /\ 1 \in DOMAIN net[q][p] /\ m = net[q][p][1] /\ m \in Message
      /\ recvLoop[p] = Polling
  BY <1>1, TakenNet
<1>3. /\ \A r, s \in Peers : r # q \/ s # p => net'[r][s] = net[r][s]
      /\ net'[q][p] = Tail(net[q][p])
  BY <1>1, TakenNet
<1>4. m.status \in Calls /\ m = [kind |-> "peer_status", status |-> m.status]
  BY <1>1, <1>2, MessageShapes
<1>5. \A r \in Peers : Known(r)' = Known(r)
  <2>1. m.status # Absent /\ table \in [Peers -> [Peers -> Lines \cup {Absent}]]
    BY <1>4, LinesAssumption DEF Lines, Shapes
  <2> QED BY <1>1, <2>1 DEF Known, Updated
<1>6. \A r, s \in Peers : Adding(r, s)' <=> Adding(r, s)
  <2>1. \A s : recvLoop[p] # [at |-> "addPeer", peer |-> s] /\ Loop(p) # [at |-> "addPeer", peer |-> s]
    BY <1>2, LoopIsOver DEF Polling
  <2>2. recvLoop'[p] = Loop(p) /\ \A r \in Peers : r # p => recvLoop'[r] = recvLoop[r]
    BY <1>1 DEF Shapes
  <2> QED BY <2>1, <2>2 DEF Adding
<1>7. \A r, s \in Peers : \A kind : /\ Sends(r, s, kind)' => Sends(r, s, kind)
                                    /\ kind # "peer_status" => (Sends(r, s, kind)' <=> Sends(r, s, kind))
  <2>1. \A kind : /\ Sends(q, p, kind)' => Sends(q, p, kind)
                  /\ kind # "peer_status" => (Sends(q, p, kind)' <=> Sends(q, p, kind))
    BY <1>1, <1>3, TakenSends
  <2>2. \A r, s \in Peers : r # q \/ s # p => \A kind : Sends(r, s, kind)' <=> Sends(r, s, kind)
    BY <1>3 DEF Sends
  <2> QED BY <2>1, <2>2
<1>8. \A r, s \in Peers : Side(r, s)' <=> Side(r, s)
  BY <1>5, <1>6, <1>7 DEF Side
<1>9. ASSUME NEW c \in Calls, SentTo(q, p, c)
      PROVE  HasOrGets(p, q, c)'
  <2>1. Sends(q, p, "peer_status")
    BY <1>1, <1>2 DEF Sends
  <2>2. LastLine(net[q][p], c)
    BY <1>9, <2>1 DEF Telling, Told, HasOrGets
  <2>3. CASE LastLine(net'[q][p], c)
    BY <2>3 DEF HasOrGets
  <2>4. CASE /\ net[q][p][1] = [kind |-> "peer_status", status |-> c]
             /\ \A k \in DOMAIN Tail(net[q][p]) : Tail(net[q][p])[k].kind # "peer_status"
    \* The sender knows the receiver, so the receiver knows the sender, whose ack it has had.
    <3>1. Side(q, p)
      BY <1>9 DEF SentTo, Telling, ToPeers, Side
    <3>2. Side(p, q)
      BY <1>9, <3>1 DEF SentTo, Telling, Mutual
    <3>3. ~Adding(p, q)
      BY <1>2 DEF Adding, Polling
    <3>4. ~Sends(q, p, "hello_ack")
      <4>1. SUFFICES ASSUME NEW i \in DOMAIN net[q][p], net[q][p][i].kind = "hello_ack"
                     PROVE  FALSE
        BY DEF Sends
      <4>2. i = 1
        BY <4>1 DEF Meeting, Openings
      <4> QED BY <1>1, <1>2, <4>1, <4>2
    <3>5. table[p][q] # Absent
      BY <3>2, <3>3, <3>4 DEF Side, Known
    <3>6. table'[p][q] = m.status /\ m.status = c
      BY <1>1, <1>2, <1>4, <2>4, <3>5 DEF Updated, Shapes
    <3>7. ~Sends(q, p, "peer_status")'
      BY <1>3, <2>4 DEF Sends
    <3> QED BY <3>6, <3>7 DEF HasOrGets
  <2>5. net[q][p] \in Seq(Message)
    BY DEF Shapes
  <2> QED BY <1>2, <1>3, <2>2, <2>3, <2>4, <2>5, LastTailed
<1>10. \A r, s \in Peers : \A c \in Calls : SentTo(r, s, c)' => HasOrGets(s, r, c)'
  <2> SUFFICES ASSUME NEW r \in Peers, NEW s \in Peers, NEW c \in Calls, SentTo(r, s, c)
               PROVE  HasOrGets(s, r, c)'
    BY <1>1, CallsKept
  <2>1. CASE r = q /\ s = p
    BY <1>9, <2>1
  <2>2. CASE r # q \/ s # p
    <3>1. net'[r][s] = net[r][s] /\ table'[s][r] = table[s][r]
      BY <1>1, <1>3, <2>2 DEF Shapes
    <3> QED BY <3>1, ToldKept DEF Telling
  <2> QED BY <2>1, <2>2
<1>11. UNCHANGED <<life, audience>>
  BY <1>1 DEF status
<1>12. Mutual'
  BY <1>1, <1>8, CallsKept, MutualKept DEF Telling
<1> QED BY <1>1, <1>5, <1>7, <1>10, <1>11, <1>12, CallsKept, TellingKept

\* A goodbye is from a peer that does not run any more.
LEMMA TellingGoodbye ==
    ASSUME Shapes, Telling, NEW p \in Peers, NEW q \in Peers, NEW m, HandleGoodbye(p, q, m)
    PROVE  Telling'
<1>1. /\ UNCHANGED <<caller, life, status>>
      /\ Arrives(p, q, m) /\ m.kind = "goodbye" /\ net' = Taken(p, q)
      /\ table' = [table EXCEPT ![p][q] = Absent]
      /\ recvLoop' = [recvLoop EXCEPT ![p] = Loop(p)]
  BY DEF HandleGoodbye
<1>2. /\ recvLoop[p] = Polling
      /\ \A r, s \in Peers : r # q \/ s # p => net'[r][s] = net[r][s]
      /\ net'[q][p] = Tail(net[q][p])
  BY <1>1, TakenNet
<1>3. life[q] # "running"
  <2>1. Sends(q, p, "goodbye")
    BY <1>1, <1>2, TakenSends
  <2> QED BY <2>1 DEF Telling, Goodbyes
<1>4. \A r, s \in Peers : Running(r, s) => r # q /\ s # q
  BY <1>3 DEF Running
<1>5. \A r, s \in Peers : s # q => (s \in Known(r)' <=> s \in Known(r)) /\ table'[r][s] = table[r][s]
  BY <1>1 DEF Known, Shapes
<1>6. \A r, s \in Peers : Adding(r, s)' <=> Adding(r, s)
  <2>1. \A s : recvLoop[p] # [at |-> "addPeer", peer |-> s] /\ Loop(p) # [at |-> "addPeer", peer |-> s]
    BY <1>2, LoopIsOver DEF Polling
  <2>2. recvLoop'[p] = Loop(p) /\ \A r \in Peers : r # p => recvLoop'[r] = recvLoop[r]
    BY <1>1 DEF Shapes
  <2> QED BY <2>1, <2>2 DEF Adding
<1>7. \A r, s \in Peers : r # q => \A kind : Sends(r, s, kind)' <=> Sends(r, s, kind)
  BY <1>2 DEF Sends
<1>8. \A r, s \in Peers : \A kind : Sends(r, s, kind)' => Sends(r, s, kind)
  <2>1. \A kind : Sends(q, p, kind)' => Sends(q, p, kind)
    BY <1>1, <1>2, TakenSends
  <2>2. \A r, s \in Peers : r # q \/ s # p => \A kind : Sends(r, s, kind)' => Sends(r, s, kind)
    BY <1>2 DEF Sends
  <2> QED BY <2>1, <2>2
<1>9. Mutual'
  <2>1. \A r, s \in Peers : s # q => (Side(r, s)' <=> Side(r, s))
    BY <1>5, <1>6, <1>7 DEF Side
  <2> QED BY <1>1, <1>4, <2>1, CallsKept, MutualKept DEF Telling
<1>10. \A r, s \in Peers : \A c \in Calls : SentTo(r, s, c)' => HasOrGets(s, r, c)'
  <2> SUFFICES ASSUME NEW r \in Peers, NEW s \in Peers, NEW c \in Calls, SentTo(r, s, c)
               PROVE  HasOrGets(s, r, c)'
    BY <1>1, CallsKept
  <2>1. r # q
    BY <1>4 DEF SentTo
  <2> QED BY <1>2, <1>5, <2>1, ToldKept DEF Telling
<1>11. UNCHANGED <<life, audience>>
  BY <1>1 DEF status
<1> QED BY <1>1, <1>4, <1>5, <1>8, <1>9, <1>10, <1>11, CallsKept, TellingKept

\* The host's ack makes the joiner's side as good as the host's.
LEMMA TellingHello ==
    ASSUME Shapes, Meeting, Telling,
           NEW p \in Peers, NEW q \in Peers, NEW m, HandleHello(p, q, m)
    PROVE  Telling'
<1>1. /\ UNCHANGED <<caller, life, table, status>>
      /\ Arrives(p, q, m) /\ m.kind = "hello"
      /\ recvLoop' = [recvLoop EXCEPT ![p] = [at |-> "addPeer", peer |-> q]]
  BY DEF HandleHello
<1>2. /\ net[q][p] # <<>> /\ 1 \in DOMAIN net[q][p] /\ m = net[q][p][1] /\ recvLoop[p] = Polling
  BY <1>1, TakenNet
<1>3. p = Host /\ q # Host /\ q \in Joiners
  BY <1>1, <1>2, HostIsPeer DEF Meeting, Openings
<1>4. Fresh(q)
  BY <1>1, <1>2, <1>3 DEF Fresh, Sends
<1>5. /\ net[Host][q] = <<>> /\ q \notin audience[Host] /\ ~Side(Host, q) /\ ~Side(q, Host)
  <2>1. ~Sends(q, Host, "hello_ack")
    BY <1>3, HostIsPeer DEF Sends, Meeting, Openings
  <2>2. /\ net[Host][q] = <<>> /\ q \notin audience[Host]
        /\ ~Adding(Host, q) /\ ~Adding(q, Host) /\ q \notin Known(Host) /\ Host \notin Known(q)
    BY <1>3, <1>4 DEF Meeting, Freshness
  <2>3. ~Sends(Host, q, "hello_ack")
    BY <2>2 DEF Sends
  <2> QED BY <2>1, <2>2, <2>3 DEF Side
<1>6. /\ \A r, s \in Peers : (r # q \/ s # Host) /\ (r # Host \/ s # q) => net'[r][s] = net[r][s]
      /\ net'[q][Host] = Tail(net[q][Host])
      /\ net'[Host][q] = IF Alive(q) THEN Append(net[Host][q], [kind |-> "hello_ack"]) ELSE net[Host][q]
  BY <1>3, HostIsPeer DEF HandleHello, Taken, Shapes
<1>7. /\ \A kind : Sends(Host, q, kind)' => kind = "hello_ack"
      /\ Alive(q) => Sends(Host, q, "hello_ack")'
  <2>1. [kind |-> "hello_ack"] \in Message /\ net[Host][q] \in Seq(Message)
    BY <1>3, HostIsPeer DEF Message, Shapes
  <2>2. CASE Alive(q)
    <3>1. net'[Host][q] = Append(net[Host][q], [kind |-> "hello_ack"])
      BY <1>6, <2>2
    <3>2. /\ Len(net[Host][q]) + 1 \in DOMAIN net'[Host][q]
          /\ net'[Host][q][Len(net[Host][q]) + 1] = [kind |-> "hello_ack"]
          /\ \A i \in DOMAIN net'[Host][q] : i \in DOMAIN net[Host][q] \/ i = Len(net[Host][q]) + 1
      BY <2>1, <3>1, Appended
    <3> QED BY <1>5, <3>2 DEF Sends
  <2>3. CASE ~Alive(q)
    BY <1>5, <1>6, <2>3 DEF Sends
  <2> QED BY <2>2, <2>3
<1>8. \A r, s \in Peers : \A kind : Sends(r, s, kind)' =>
         Sends(r, s, kind) \/ (r = Host /\ s = q /\ kind = "hello_ack")
  <2>1. \A kind : Sends(q, Host, kind)' => Sends(q, Host, kind)
    BY <1>1, <1>3, <1>6, TakenSends
  <2>2. \A r, s \in Peers : (r # q \/ s # Host) /\ (r # Host \/ s # q) =>
           \A kind : Sends(r, s, kind)' => Sends(r, s, kind)
    BY <1>6 DEF Sends
  <2> QED BY <1>7, <2>1, <2>2
<1>9. \A r, s \in Peers : Adding(r, s)' <=> Adding(r, s) \/ (r = Host /\ s = q)
  <2>1. \A s : recvLoop[Host] # [at |-> "addPeer", peer |-> s]
    BY <1>2, <1>3 DEF Polling
  <2>2. /\ recvLoop'[Host] = [at |-> "addPeer", peer |-> q]
        /\ \A r \in Peers : r # Host => recvLoop'[r] = recvLoop[r]
    BY <1>1, <1>3, HostIsPeer DEF Shapes
  <2>3. \A s \in Peers : ~Adding(Host, s) /\ (Adding(Host, s)' <=> s = q)
    <3>1. \A s : [at |-> "addPeer", peer |-> q] = [at |-> "addPeer", peer |-> s] => s = q
      BY AddsOne
    <3>2. \A s \in Peers : ~Adding(Host, s)
      BY <2>1 DEF Adding
    <3>3. \A s \in Peers : Adding(Host, s)' => s = q
      BY <2>2, <3>1 DEF Adding
    <3>4. Adding(Host, q)'
      BY <2>2 DEF Adding
    <3> QED BY <3>2, <3>3, <3>4
  <2>4. \A r, s \in Peers : r # Host => (Adding(r, s)' <=> Adding(r, s))
    BY <2>2 DEF Adding
  <2> QED BY <2>3, <2>4
<1>10. \A r \in Peers : Known(r)' = Known(r)
  BY <1>1 DEF Known
<1>11. Mutual'
  <2> SUFFICES ASSUME NEW r \in Peers, NEW s \in Peers, Running(r, s), Side(r, s)'
               PROVE  Side(s, r)'
    BY <1>1, CallsKept DEF Mutual
  <2>1. CASE r = Host /\ s = q
    BY <1>7, <2>1 DEF Side, Running, Alive
  <2>2. CASE r = q /\ s = Host
    BY <1>9, <2>2 DEF Side
  <2>3. CASE (r # q \/ s # Host) /\ (r # Host \/ s # q)
    <3>1. \A kind : /\ Sends(r, s, kind)' <=> Sends(r, s, kind)
                    /\ Sends(s, r, kind)' <=> Sends(s, r, kind)
      BY <1>6, <2>3 DEF Sends
    <3>2. (Side(r, s)' <=> Side(r, s)) /\ (Side(s, r)' <=> Side(s, r))
      BY <1>9, <1>10, <2>3, <3>1 DEF Side
    <3> QED BY <3>2 DEF Telling, Mutual
  <2> QED BY <2>1, <2>2, <2>3
<1>12. \A r, s \in Peers : \A c \in Calls : SentTo(r, s, c)' => HasOrGets(s, r, c)'
  <2> SUFFICES ASSUME NEW r \in Peers, NEW s \in Peers, NEW c \in Calls, SentTo(r, s, c)
               PROVE  HasOrGets(s, r, c)'
    BY <1>1, CallsKept
  <2>1. r # Host \/ s # q
    BY <1>5 DEF SentTo
  <2>2. CASE r = q /\ s = Host
    BY <1>1, <1>3, <1>6, <2>2, TakenTold DEF Telling
  <2>3. CASE r # q \/ s # Host
    BY <1>1, <1>6, <2>1, <2>3, ToldKept DEF Telling
  <2> QED BY <2>2, <2>3
<1>13. UNCHANGED <<life, audience>>
  BY <1>1 DEF status
<1> QED BY <1>1, <1>8, <1>10, <1>11, <1>12, <1>13, CallsKept, TellingKept

LEMMA TellingHelloAck ==
    ASSUME Shapes, Meeting, Telling,
           NEW p \in Peers, NEW q \in Peers, NEW m, HandleHelloAck(p, q, m)
    PROVE  Telling'
<1>1. /\ UNCHANGED <<caller, life, table, status>>
      /\ Arrives(p, q, m) /\ m.kind = "hello_ack" /\ net' = Taken(p, q)
      /\ recvLoop' = [recvLoop EXCEPT ![p] = [at |-> "addPeer", peer |-> q]]
  BY DEF HandleHelloAck
<1>2. /\ recvLoop[p] = Polling
      /\ \A r, s \in Peers : r # q \/ s # p => net'[r][s] = net[r][s]
      /\ net'[q][p] = Tail(net[q][p])
  BY <1>1, TakenNet
<1>3. \A kind : /\ Sends(q, p, kind)' => Sends(q, p, kind)
                /\ kind # "hello_ack" => (Sends(q, p, kind)' <=> Sends(q, p, kind))
  BY <1>1, <1>2, TakenSends
<1>4. \A r, s \in Peers : r # q \/ s # p => \A kind : Sends(r, s, kind)' <=> Sends(r, s, kind)
  BY <1>2 DEF Sends
<1>5. Sends(q, p, "hello_ack")
  BY <1>1, <1>2, TakenSends
<1>6. \A r, s \in Peers : Adding(r, s)' <=> Adding(r, s) \/ (r = p /\ s = q)
  <2>1. \A s : recvLoop[p] # [at |-> "addPeer", peer |-> s]
    BY <1>2 DEF Polling
  <2>2. /\ recvLoop'[p] = [at |-> "addPeer", peer |-> q]
        /\ \A r \in Peers : r # p => recvLoop'[r] = recvLoop[r]
    BY <1>1 DEF Shapes
  <2>3. \A s \in Peers : ~Adding(p, s) /\ (Adding(p, s)' <=> s = q)
    <3>1. \A s : [at |-> "addPeer", peer |-> q] = [at |-> "addPeer", peer |-> s] => s = q
      BY AddsOne
    <3>2. \A s \in Peers : ~Adding(p, s)
      BY <2>1 DEF Adding
    <3>3. \A s \in Peers : Adding(p, s)' => s = q
      BY <2>2, <3>1 DEF Adding
    <3>4. Adding(p, q)'
      BY <2>2 DEF Adding
    <3> QED BY <3>2, <3>3, <3>4
  <2>4. \A r, s \in Peers : r # p => (Adding(r, s)' <=> Adding(r, s))
    BY <2>2 DEF Adding
  <2> QED BY <2>3, <2>4
<1>7. \A r \in Peers : Known(r)' = Known(r)
  BY <1>1 DEF Known
<1>8. Mutual'
  <2>1. ASSUME NEW r \in Peers, NEW s \in Peers
        PROVE  Side(r, s)' <=> Side(r, s)
    <3>1. CASE r = p /\ s = q
      BY <1>5, <1>6, <3>1 DEF Side
    <3>2. CASE r # p \/ s # q
      BY <1>4, <1>6, <1>7, <3>2 DEF Side
    <3> QED BY <3>1, <3>2
  <2> QED BY <1>1, <2>1, CallsKept, MutualKept DEF Telling
<1>9. \A r, s \in Peers : \A c \in Calls : SentTo(r, s, c)' => HasOrGets(s, r, c)'
  <2> SUFFICES ASSUME NEW r \in Peers, NEW s \in Peers, NEW c \in Calls, SentTo(r, s, c)
               PROVE  HasOrGets(s, r, c)'
    BY <1>1, CallsKept
  <2>1. CASE r = q /\ s = p
    BY <1>1, <1>2, <2>1, TakenTold DEF Telling
  <2>2. CASE r # q \/ s # p
    BY <1>1, <1>2, <2>2, ToldKept DEF Telling
  <2> QED BY <2>1, <2>2
<1>10. UNCHANGED <<life, audience>>
  BY <1>1 DEF status
<1>11. \A r, s \in Peers : \A kind : Sends(r, s, kind)' => Sends(r, s, kind)
  BY <1>3, <1>4
<1> QED BY <1>1, <1>7, <1>8, <1>9, <1>10, <1>11, CallsKept, TellingKept

LEMMA TellingAddPeer ==
    ASSUME Shapes, Meeting, Telling, NEW p \in Peers, AddPeer(p)
    PROVE  Telling'
<1> DEFINE q == recvLoop[p].peer
<1>1. q \in Peers /\ recvLoop[p] = [at |-> "addPeer", peer |-> q] /\ Adding(p, q)
  BY LoopShapes DEF AddPeer, Shapes, Adding
<1>2. q \notin Known(p) /\ table[p][q] = Absent
  BY <1>1 DEF Meeting, Before, Known
<1>3. /\ UNCHANGED <<caller, life, net, status>>
      /\ table' = [table EXCEPT ![p][q] = Unset]
      /\ recvLoop' = [recvLoop EXCEPT ![p] = Loop(p)]
  BY <1>2 DEF AddPeer
<1>4. \A r, s \in Peers : \A kind : Sends(r, s, kind)' <=> Sends(r, s, kind)
  BY <1>3 DEF Sends
<1>5. \A r, s \in Peers : r # p \/ s # q => table'[r][s] = table[r][s]
  BY <1>3 DEF Shapes
<1>6. \A r, s \in Peers : s \in Known(r)' <=> s \in Known(r) \/ (r = p /\ s = q)
  <2>1. table'[p][q] = Unset /\ Unset # Absent
    BY <1>1, <1>3, LinesAssumption DEF Shapes, Lines
  <2> QED BY <1>1, <1>5, <2>1 DEF Known
<1>7. \A r, s \in Peers : Adding(r, s)' <=> Adding(r, s) /\ r # p
  <2>1. \A s : Loop(p) # [at |-> "addPeer", peer |-> s]
    BY LoopIsOver
  <2>2. recvLoop'[p] = Loop(p) /\ \A r \in Peers : r # p => recvLoop'[r] = recvLoop[r]
    BY <1>3 DEF Shapes
  <2> QED BY <2>1, <2>2 DEF Adding
<1>8. \A s \in Peers : Adding(p, s) <=> s = q
  BY <1>1 DEF Adding
<1>9. Mutual'
  <2>1. \A r, s \in Peers : Side(r, s)' <=> Side(r, s)
    BY <1>4, <1>6, <1>7, <1>8 DEF Side
  <2> QED BY <1>3, <2>1, CallsKept, MutualKept DEF Telling
<1>10. \A r, s \in Peers : \A c \in Calls : SentTo(r, s, c)' => HasOrGets(s, r, c)'
  <2> SUFFICES ASSUME NEW r \in Peers, NEW s \in Peers, NEW c \in Calls, SentTo(r, s, c)
               PROVE  HasOrGets(s, r, c)'
    BY <1>3, CallsKept
  <2>1. CASE r = q /\ s = p
    <3>1. table[p][q] # c
      BY <1>2, LinesAssumption DEF Lines
    <3>2. LastLine(net[r][s], c)
      BY <2>1, <3>1 DEF Telling, Told, HasOrGets
    <3> QED BY <1>3, <3>2 DEF HasOrGets
  <2>2. CASE r # q \/ s # p
    BY <1>3, <1>5, <2>2, ToldKept DEF Telling
  <2> QED BY <2>1, <2>2
<1>11. UNCHANGED <<life, audience>>
  BY <1>3 DEF status
<1> QED BY <1>3, <1>4, <1>6, <1>9, <1>10, <1>11, CallsKept, TellingKept

\* A new line is for nobody yet, and a call that is still under way makes two.
LEMMA TellingStore ==
    ASSUME Shapes, Meeting, Telling, NEW p \in Peers, StoreStatus(p)
    PROVE  Telling'
<1> DEFINE c == Len(caller) + 1
<1>1. /\ UNCHANGED <<life, table, recvLoop, net, rest>>
      /\ audience' = [audience EXCEPT ![p] = {}]
      /\ caller' = Append(caller, p)
      /\ myStatus' = [myStatus EXCEPT ![p] = c]
      /\ call' = [call EXCEPT ![c] = "stored"]
      /\ overlapped' = IF \E d \in DOMAIN caller : caller[d] = p /\ UnderWay(d)
                       THEN overlapped \cup {p} ELSE overlapped
  BY DEF StoreStatus, transport
<1>2. /\ DOMAIN caller \subseteq Calls /\ c \notin DOMAIN caller /\ c \in Calls
      /\ c \in DOMAIN caller' /\ caller'[c] = p
      /\ \A d \in DOMAIN caller : d \in DOMAIN caller' /\ caller'[d] = caller[d]
      /\ \A d \in DOMAIN caller' : d \in DOMAIN caller \/ d = c
  <2>1. caller \in Seq(Peers)
    BY DEF Shapes
  <2>2. c \notin DOMAIN caller /\ c \in Calls
    BY <2>1, LenProperties DEF StoreStatus
  <2> QED BY <1>1, <2>1, <2>2, Appended, CallerShapes
<1>3. rest[c] = {}
  BY <1>2 DEF Meeting, Uncalled
<1>4. /\ myStatus'[p] = c /\ audience'[p] = {}
      /\ \A r \in Peers : r # p => /\ myStatus'[r] = myStatus[r] /\ audience'[r] = audience[r]
                                   /\ r \in overlapped' <=> r \in overlapped
      /\ \A d \in Calls : d # c => call'[d] = call[d]
  BY <1>1, <1>2 DEF Shapes
<1>5. /\ \A r, s \in Peers : /\ Side(r, s)' <=> Side(r, s)
                             /\ Running(r, s)' <=> Running(r, s)
      /\ \A r, s \in Peers : \A kind : Sends(r, s, kind)' <=> Sends(r, s, kind)
      /\ \A r \in Peers : Known(r)' = Known(r)
  BY <1>1 DEF Side, Adding, Known, Running, Sends
<1>6. \A r, s \in Peers : Calling(r, s)' => Calling(r, s)
  BY <1>1, <1>2, <1>3 DEF Calling
<1>7. Mine'
  BY <1>2, <1>4 DEF Telling, Mine
<1>8. OneCall'
  <2> SUFFICES ASSUME NEW r \in Peers, life[r] = "running", r \notin overlapped',
                      NEW d \in DOMAIN caller', caller'[d] = r, UnderWay(d)'
               PROVE  myStatus'[r] = d
    BY <1>1 DEF OneCall
  <2>1. d # c => d \in DOMAIN caller /\ caller[d] = r /\ UnderWay(d)
    BY <1>1, <1>2, <1>4 DEF UnderWay
  <2>2. CASE d = c
    BY <1>2, <1>4, <2>2
  <2>3. CASE d # c
    <3>1. r # p
      BY <1>1, <2>1, <2>3
    <3> QED BY <1>4, <2>1, <2>3, <3>1 DEF Telling, OneCall
  <2> QED BY <2>2, <2>3
<1>9. \A r, s \in Peers : \A d \in Calls : SentTo(r, s, d)' => HasOrGets(s, r, d)'
  <2> SUFFICES ASSUME NEW r \in Peers, NEW s \in Peers, NEW d \in Calls, SentTo(r, s, d)'
               PROVE  HasOrGets(s, r, d)'
    OBVIOUS
  <2>1. r # p
    BY <1>4 DEF SentTo
  <2>2. SentTo(r, s, d)
    BY <1>1, <1>4, <1>5, <2>1 DEF SentTo
  <2> QED BY <1>1, <2>2, ToldKept DEF Telling
<1>10. Mutual'
  BY <1>5, MutualKept DEF Telling
<1>11. \A r \in Peers : audience'[r] \subseteq audience[r]
  BY <1>4
<1> QED BY <1>1, <1>5, <1>6, <1>7, <1>8, <1>9, <1>10, <1>11, TellingKept

\* Who is in the snapshot has still to be sent the line.
LEMMA TellingSnapshot ==
    ASSUME Shapes, Telling, NEW c \in DOMAIN caller, SnapshotPeers(c)
    PROVE  Telling'
<1> DEFINE p == caller[c]
<1>0. p \in Peers /\ c \in Calls
  BY CallerShapes
<1>1. /\ UNCHANGED <<caller, life, table, recvLoop, net, myStatus, overlapped>>
      /\ call[c] = "stored" /\ call' = [call EXCEPT ![c] = "sending"]
      /\ rest' = [rest EXCEPT ![c] = Known(p)]
      /\ audience' = IF myStatus[p] = c THEN [audience EXCEPT ![p] = Known(p)] ELSE audience
  BY DEF SnapshotPeers, Recipients, transport
<1>2. /\ rest'[c] = Known(p) /\ \A d \in Calls : d # c => rest'[d] = rest[d] /\ call'[d] = call[d]
      /\ \A r \in Peers : r # p \/ myStatus[p] # c => audience'[r] = audience[r]
      /\ myStatus[p] = c => audience'[p] = Known(p)
  BY <1>0, <1>1 DEF Shapes
<1>3. /\ \A r, s \in Peers : /\ Side(r, s)' <=> Side(r, s)
                             /\ Running(r, s)' <=> Running(r, s)
      /\ \A r, s \in Peers : \A kind : Sends(r, s, kind)' <=> Sends(r, s, kind)
      /\ \A r \in Peers : Known(r)' = Known(r)
  BY <1>1 DEF Side, Adding, Known, Running, Sends
<1>4. \A r, s \in Peers : Calling(r, s)' => Calling(r, s) \/ s \in Known(r)
  <2> SUFFICES ASSUME NEW r \in Peers, NEW s \in Peers, NEW d \in DOMAIN caller,
                      caller[d] = r, s \in rest'[d]
               PROVE  s \in rest[d] \/ s \in Known(r)
    BY <1>1 DEF Calling
  <2> QED BY <1>2, CallerShapes
<1>5. Mine'
  BY <1>1 DEF Telling, Mine
<1>6. OneCall'
  <2>1. \A d \in DOMAIN caller : UnderWay(d)' => UnderWay(d)
    BY <1>1, <1>2, CallerShapes DEF UnderWay
  <2> QED BY <1>1, <2>1 DEF Telling, OneCall
<1>7. \A r, s \in Peers : \A d \in Calls : SentTo(r, s, d)' => HasOrGets(s, r, d)'
  <2> SUFFICES ASSUME NEW r \in Peers, NEW s \in Peers, NEW d \in Calls, SentTo(r, s, d)'
               PROVE  HasOrGets(s, r, d)'
    OBVIOUS
  <2>1. myStatus[r] = d /\ s \in audience'[r] /\ s \notin rest'[d]
    BY <1>1 DEF SentTo
  <2>2. d # c
    BY <1>0, <1>2, <2>1 DEF Telling, Mine
  <2>3. rest'[d] = rest[d] /\ audience'[r] = audience[r]
    BY <1>2, <2>1, <2>2
  <2>4. SentTo(r, s, d)
    BY <1>1, <1>3, <2>3 DEF SentTo
  <2> QED BY <1>1, <2>4, ToldKept DEF Telling
<1>8. Mutual'
  BY <1>3, MutualKept DEF Telling
<1>9. \A r, s \in Peers : s \in audience'[r] => s \in audience[r] \/ s \in Known(r)
  BY <1>2
<1> QED BY <1>1, <1>3, <1>4, <1>5, <1>6, <1>7, <1>8, <1>9, TellingKept

\* A line that is sent is the last, for no other call of the peer is under way.
LEMMA TellingSendStatus ==
    ASSUME Shapes, Telling, NEW p \in Peers, NEW c \in DOMAIN caller, caller[c] = p,
           NEW q \in rest[c], SendStatus(c, q)
    PROVE  Telling'
<1> DEFINE line == [kind |-> "peer_status", status |-> c]
<1>0. c \in Calls /\ q \in Peers /\ line \in Message
  BY CallerShapes DEF Shapes, Message
<1>1. /\ UNCHANGED <<caller, life, table, recvLoop, myStatus, call, overlapped, audience>>
      /\ rest' = [rest EXCEPT ![c] = @ \ {q}]
      /\ net' = Sent(p, q, line)
  BY DEF SendStatus, transport
<1>2. /\ rest'[c] = rest[c] \ {q}
      /\ \A d \in Calls : d # c => rest'[d] = rest[d]
  BY <1>0, <1>1 DEF Shapes
<1>3. /\ \A r, s \in Peers : r # p \/ s # q => net'[r][s] = net[r][s]
      /\ net'[p][q] = net[p][q] \/ net'[p][q] = Append(net[p][q], line)
      /\ life[q] \notin {"left", "crashed"} => net'[p][q] = Append(net[p][q], line)
  BY <1>0, <1>1, SentNet
<1>4. net[p][q] \in Seq(Message)
  BY <1>0 DEF Shapes
<1>5. \A kind : /\ Sends(p, q, kind)' => Sends(p, q, kind) \/ kind = "peer_status"
                /\ Sends(p, q, kind) => Sends(p, q, kind)'
  <2>1. CASE net'[p][q] = net[p][q]
    BY <2>1 DEF Sends
  <2>2. CASE net'[p][q] = Append(net[p][q], line)
    <3>1. /\ \A i \in DOMAIN net[p][q] : i \in DOMAIN net'[p][q] /\ net'[p][q][i] = net[p][q][i]
          /\ \A i \in DOMAIN net'[p][q] : \/ i \in DOMAIN net[p][q] /\ net'[p][q][i] = net[p][q][i]
                                          \/ net'[p][q][i] = line
      BY <1>0, <1>4, <2>2, Appended
    <3> QED BY <3>1 DEF Sends
  <2> QED BY <1>3, <2>1, <2>2
<1>6. \A r, s \in Peers : \A kind :
         /\ r # p \/ s # q => (Sends(r, s, kind)' <=> Sends(r, s, kind))
         /\ kind # "peer_status" => (Sends(r, s, kind)' <=> Sends(r, s, kind))
  <2>1. \A r, s \in Peers : r # p \/ s # q => \A kind : Sends(r, s, kind)' <=> Sends(r, s, kind)
    BY <1>3 DEF Sends
  <2> QED BY <1>5, <2>1
<1>7. \A r, s \in Peers : /\ Adding(r, s)' <=> Adding(r, s)
                          /\ Running(r, s)' <=> Running(r, s)
                          /\ Known(r)' = Known(r)
  BY <1>1 DEF Adding, Known, Running
<1>8. \A d \in Calls : rest'[d] \subseteq rest[d]
  BY <1>2
<1>9. \A r, s \in Peers : Calling(r, s)' => Calling(r, s)
  BY <1>1, <1>8, CallerShapes DEF Calling
<1>10. Mine'
  BY <1>1 DEF Telling, Mine
<1>11. OneCall'
  <2>1. \A d \in DOMAIN caller : UnderWay(d)' => UnderWay(d)
    BY <1>1, <1>8, CallerShapes DEF UnderWay
  <2> QED BY <1>1, <2>1 DEF Telling, OneCall
<1>12. Mutual'
  <2>1. \A r, s \in Peers : Side(r, s)' <=> Side(r, s)
    BY <1>6, <1>7 DEF Side
  <2> QED BY <1>7, <2>1, MutualKept DEF Telling
<1>13. \A r, s \in Peers : \A d \in Calls : SentTo(r, s, d)' => HasOrGets(s, r, d)'
  <2> SUFFICES ASSUME NEW r \in Peers, NEW s \in Peers, NEW d \in Calls, SentTo(r, s, d)'
               PROVE  HasOrGets(s, r, d)'
    OBVIOUS
  <2>1. CASE r = p /\ s = q
    <3>1. life[p] = "running" /\ life[q] = "running" /\ p \notin overlapped /\ myStatus[p] = d
      BY <1>1, <2>1 DEF SentTo, Running
    <3>2. d = c
      BY <3>1, <1>0 DEF Telling, OneCall, UnderWay
    <3>3. net'[p][q] = Append(net[p][q], line)
      BY <1>3, <3>1
    <3>4. LastLine(net'[p][q], c)
      BY <1>0, <1>4, <3>3, LastAppended
    <3> QED BY <2>1, <3>2, <3>4 DEF HasOrGets
  <2>2. CASE r # p \/ s # q
    <3>1. d # c \/ s # q
      BY <1>0, <1>1, <2>2 DEF SentTo, Telling, Mine
    <3>2. SentTo(r, s, d)
      BY <1>1, <1>2, <1>7, <3>1 DEF SentTo
    <3> QED BY <1>1, <1>3, <2>2, <3>2, ToldKept DEF Telling
  <2> QED BY <2>1, <2>2
<1>14. \A r, s \in Peers : Sends(r, s, "peer_status")' => Sends(r, s, "peer_status") \/ Calling(r, s)
  BY <1>6 DEF Calling
<1>15. \A r, s \in Peers : Running(r, s) /\ Calling(r, s) => s \in Known(r)
  BY DEF Telling, ToPeers
<1> QED BY <1>1, <1>6, <1>7, <1>9, <1>10, <1>11, <1>12, <1>13, <1>14, <1>15, TellingKept

LEMMA TellingClose ==
    ASSUME Shapes, Telling, NEW p \in Peers, Close(p)
    PROVE  Telling'
<1>1. /\ UNCHANGED <<caller, table, recvLoop, net, myStatus, call, rest, audience, overlapped>>
      /\ life' = [life EXCEPT ![p] = "closing"]
  BY DEF Close, transport, status
<1>2. \A r \in Peers : life'[r] \in {"out", "running"} => life[r] = life'[r]
  BY <1>1 DEF Shapes
<1>3. /\ \A r, s \in Peers : /\ Side(r, s)' <=> Side(r, s)
                             /\ Calling(r, s)' <=> Calling(r, s)
                             /\ Running(r, s)' => Running(r, s)
      /\ \A r, s \in Peers : \A kind : Sends(r, s, kind)' <=> Sends(r, s, kind)
      /\ \A r \in Peers : Known(r)' = Known(r)
  BY <1>1, <1>2 DEF Side, Adding, Known, Running, Sends, Calling
<1>4. Mine' /\ OneCall'
  BY <1>1, <1>2 DEF Telling, Mine, OneCall, UnderWay
<1>5. Mutual'
  BY <1>3, MutualKept DEF Telling
<1>6. \A r, s \in Peers : \A d \in Calls : SentTo(r, s, d)' => HasOrGets(s, r, d)'
  <2>1. \A r, s \in Peers : \A d \in Calls : SentTo(r, s, d)' => SentTo(r, s, d)
    BY <1>1, <1>3 DEF SentTo
  <2> QED BY <1>1, <2>1, ToldKept DEF Telling
<1> QED BY <1>1, <1>2, <1>3, <1>4, <1>5, <1>6, TellingKept

LEMMA TellingSendGoodbye ==
    ASSUME Shapes, Telling, NEW p \in Peers, NEW q \in Peers, SendGoodbye(p, q)
    PROVE  Telling'
<1> DEFINE bye == [kind |-> "goodbye"]
<1>1. /\ UNCHANGED <<caller, life, table, recvLoop, status>>
      /\ life[p] = "closing" /\ net' = Sent(p, q, bye)
  BY DEF SendGoodbye, transport
<1>2. bye \in Message /\ net[p][q] \in Seq(Message)
  BY DEF Message, Shapes
<1>3. /\ \A r, s \in Peers : r # p \/ s # q => net'[r][s] = net[r][s]
      /\ net'[p][q] = net[p][q] \/ net'[p][q] = Append(net[p][q], bye)
  BY <1>1, <1>2, SentNet
<1>4. \A r, s \in Peers : Running(r, s) => r # p /\ s # p
  BY <1>1 DEF Running
<1>5. \A r, s \in Peers : r # p => \A kind : Sends(r, s, kind)' <=> Sends(r, s, kind)
  BY <1>3 DEF Sends
<1>6. \A r, s \in Peers : Sends(r, s, "goodbye")' =>
         Sends(r, s, "goodbye") \/ life'[r] \notin {"out", "running"}
  BY <1>1, <1>5
<1>7. Mutual'
  <2>1. \A r, s \in Peers : s # p => (Side(r, s)' <=> Side(r, s))
    BY <1>1, <1>5 DEF Side, Adding, Known
  <2> QED BY <1>1, <1>4, <2>1, CallsKept, MutualKept DEF Telling
<1>8. \A r, s \in Peers : \A c \in Calls : SentTo(r, s, c)' => HasOrGets(s, r, c)'
  <2> SUFFICES ASSUME NEW r \in Peers, NEW s \in Peers, NEW c \in Calls, SentTo(r, s, c)
               PROVE  HasOrGets(s, r, c)'
    BY <1>1, CallsKept
  <2>1. r # p
    BY <1>4 DEF SentTo
  <2> QED BY <1>1, <1>3, <2>1, ToldKept DEF Telling
<1>9. UNCHANGED <<life, audience>> /\ \A r \in Peers : Known(r)' = Known(r)
  BY <1>1 DEF status, Known
<1> QED BY <1>1, <1>4, <1>5, <1>6, <1>7, <1>8, <1>9, CallsKept, TellingKept

LEMMA TellingEnd ==
    ASSUME Shapes, Telling, NEW p \in Peers, NEW how \in {"left", "crashed"}, End(p, how)
    PROVE  Telling'
<1>1. /\ UNCHANGED <<caller, call, overlapped>>
      /\ life' = [life EXCEPT ![p] = how] /\ recvLoop' = [recvLoop EXCEPT ![p] = Stopped]
      /\ table' = [table EXCEPT ![p] = Nobody] /\ audience' = [audience EXCEPT ![p] = {}]
      /\ myStatus' = [myStatus EXCEPT ![p] = Unset]
  BY DEF End
<1>2. /\ life'[p] = how
      /\ \A r \in Peers : r # p => /\ life'[r] = life[r] /\ recvLoop'[r] = recvLoop[r]
                                   /\ table'[r] = table[r] /\ audience'[r] = audience[r]
                                   /\ myStatus'[r] = myStatus[r]
      /\ myStatus'[p] = Unset
  BY <1>1 DEF Shapes
<1>3. /\ \A q, r \in Peers : net'[q][r] = IF r = p THEN <<>> ELSE net[q][r]
      /\ \A c \in Calls : rest'[c] = IF c \in DOMAIN caller /\ caller[c] = p THEN {} ELSE rest[c]
  BY DEF End, Shapes
<1>4. \A r, s \in Peers : Running(r, s)' => Running(r, s) /\ r # p /\ s # p
  BY <1>2 DEF Running
<1>5. \A r, s \in Peers : r # p /\ s # p =>
         /\ Known(r)' = Known(r) /\ (Side(r, s)' <=> Side(r, s))
         /\ \A kind : Sends(r, s, kind)' <=> Sends(r, s, kind)
  BY <1>2, <1>3 DEF Known, Side, Adding, Sends
<1>6. \A r, s \in Peers : \A kind : Sends(r, s, kind)' => Sends(r, s, kind)
  BY <1>3 DEF Sends
<1>7. \A r, s \in Peers : Calling(r, s)' => Calling(r, s)
  BY <1>1, <1>3, CallerShapes DEF Calling
<1>8. Mine'
  <2>1. Unset \notin Calls
    BY LinesAssumption
  <2> QED BY <1>1, <1>2, <2>1 DEF Telling, Mine
<1>9. OneCall'
  <2>1. \A d \in DOMAIN caller : UnderWay(d)' => UnderWay(d)
    BY <1>1, <1>3, CallerShapes DEF UnderWay
  <2> QED BY <1>1, <1>2, <2>1 DEF Telling, OneCall
<1>10. Mutual'
  BY <1>4, <1>5, MutualKept DEF Telling
<1>11. \A r, s \in Peers : \A d \in Calls : SentTo(r, s, d)' => HasOrGets(s, r, d)'
  <2> SUFFICES ASSUME NEW r \in Peers, NEW s \in Peers, NEW d \in Calls, SentTo(r, s, d)'
               PROVE  HasOrGets(s, r, d)'
    OBVIOUS
  <2>1. Running(r, s) /\ r # p /\ s # p /\ myStatus[r] = d
    BY <1>2, <1>4 DEF SentTo
  <2>2. rest'[d] = rest[d]
    BY <1>3, <2>1 DEF Telling, Mine
  <2>3. SentTo(r, s, d)
    BY <1>1, <1>2, <2>1, <2>2 DEF SentTo
  <2> QED BY <1>2, <1>3, <2>1, <2>3, ToldKept DEF Telling
<1>12. \A r \in Peers : life'[r] \in {"out", "running"} => life[r] = life'[r]
  BY <1>2
<1> QED BY <1>2, <1>4, <1>5, <1>6, <1>7, <1>8, <1>9, <1>10, <1>11, <1>12, TellingKept

\* Nobody has to do with a joiner that has not come.
LEMMA TellingJoin ==
    ASSUME Shapes, Meeting, Telling, NEW j \in Peers, Join(j)
    PROVE  Telling'
<1>1. /\ UNCHANGED <<caller, table, recvLoop, status>>
      /\ j \in Joiners /\ life[j] = "out" /\ j # Host
      /\ life' = [life EXCEPT ![j] = "running"]
      /\ net' = Sent(j, Host, [kind |-> "hello"])
  BY MembersAssumption DEF Join, transport
<1>2. UNCHANGED <<myStatus, call, rest, audience, overlapped>>
  BY <1>1 DEF status
<1>3. \A r \in Peers : r # j => life'[r] = life[r]
  BY <1>1 DEF Shapes
<1>4. [kind |-> "hello"] \in Message /\ net[j][Host] \in Seq(Message)
  BY HostIsPeer DEF Message, Shapes
<1>5. /\ \A r, s \in Peers : r # j \/ s # Host => net'[r][s] = net[r][s]
      /\ net'[j][Host] = net[j][Host] \/ net'[j][Host] = Append(net[j][Host], [kind |-> "hello"])
  BY <1>1, <1>4, SentNet, HostIsPeer
<1>6. \A r, s \in Peers : \A kind : kind # "hello" => (Sends(r, s, kind)' <=> Sends(r, s, kind))
  <2>1. \A r, s \in Peers : r # j \/ s # Host => \A kind : Sends(r, s, kind)' <=> Sends(r, s, kind)
    BY <1>5 DEF Sends
  <2>2. net[j][Host] = <<>>
    BY <1>1 DEF Meeting, NotYet
  <2>3. \A i \in DOMAIN net'[j][Host] : net'[j][Host][i].kind = "hello"
    BY <1>4, <1>5, <2>2, Appended
  <2>4. \A kind : kind # "hello" => ~Sends(j, Host, kind)' /\ ~Sends(j, Host, kind)
    BY <2>2, <2>3 DEF Sends
  <2> QED BY <2>1, <2>4
<1>7. ASSUME NEW s \in Peers
      PROVE  /\ net[s][j] = <<>> /\ net[j][s] = <<>> /\ ~Side(s, j) /\ ~Side(j, s)
             /\ s \notin audience[j] /\ j \notin audience[s] /\ ~Calling(s, j) /\ ~Calling(j, s)
  <2>1. CASE s = Host
    <3>1. Fresh(j)
      BY <1>1 DEF Fresh
    <3>2. /\ net[Host][j] = <<>> /\ j \notin audience[Host] /\ ~Addressed(Host, j)
          /\ ~Adding(Host, j) /\ ~Adding(j, Host) /\ j \notin Known(Host) /\ Host \notin Known(j)
      BY <1>1, <3>1 DEF Meeting, Freshness
    <3>3. net[j][Host] = <<>> /\ audience[j] = {} /\ \A c \in DOMAIN caller : caller[c] # j
      BY <1>1 DEF Meeting, NotYet
    <3>4. ~Sends(j, Host, "hello_ack") /\ ~Sends(Host, j, "hello_ack")
      BY <3>2, <3>3 DEF Sends
    <3> QED BY <2>1, <3>2, <3>3, <3>4 DEF Side, Addressed, Calling
  <2>2. CASE s # Host
    <3>1. ~Linked(s, j) /\ ~Linked(j, s)
      BY <1>1, <2>2 DEF Linked
    <3>2. net[s][j] = <<>> /\ net[j][s] = <<>>
      BY <3>1 DEF Meeting, Strangers
    <3>3. ~Sends(s, j, "hello_ack") /\ ~Sends(j, s, "hello_ack")
      BY <3>2 DEF Sends
    <3> QED BY <3>1, <3>2, <3>3 DEF Meeting, Strangers, Side, Addressed
  <2> QED BY <2>1, <2>2
<1>8. \A r, s \in Peers : Running(r, s)' => r = j \/ s = j \/ Running(r, s)
  BY <1>3 DEF Running
<1>9. \A r, s \in Peers : /\ Known(r)' = Known(r) /\ (Side(r, s)' <=> Side(r, s))
                          /\ (Calling(r, s)' <=> Calling(r, s))
  BY <1>1, <1>2, <1>6 DEF Known, Side, Adding, Calling
<1>10. \A s \in Peers : ~Sends(s, j, "peer_status") /\ ~Sends(j, s, "peer_status")
  BY <1>7 DEF Sends
<1>11. Goodbyes'
  <2>1. \A s \in Peers : ~Sends(j, s, "goodbye")
    BY <1>7 DEF Sends
  <2> QED BY <1>3, <1>6, <2>1 DEF Telling, Goodbyes
<1>12. Mutual'
  BY <1>7, <1>8, <1>9 DEF Telling, Mutual
<1>13. ToPeers'
  BY <1>2, <1>6, <1>7, <1>8, <1>9, <1>10 DEF Telling, ToPeers
<1>14. Mine'
  BY <1>1, <1>2 DEF Telling, Mine
<1>15. OneCall'
  <2>1. \A c \in DOMAIN caller : caller[c] # j
    BY <1>1 DEF Meeting, NotYet
  <2> QED BY <1>1, <1>2, <1>3, <2>1 DEF Telling, OneCall, UnderWay
<1>16. Told'
  <2> SUFFICES ASSUME NEW r \in Peers, NEW s \in Peers, NEW c \in Calls, SentTo(r, s, c)'
               PROVE  HasOrGets(s, r, c)'
    BY DEF Told
  <2>1. r # j /\ s # j
    BY <1>2, <1>7 DEF SentTo
  <2>2. SentTo(r, s, c)
    BY <1>2, <1>8, <2>1 DEF SentTo
  <2> QED BY <1>1, <1>5, <2>1, <2>2, ToldKept DEF Telling
<1> QED BY <1>11, <1>12, <1>13, <1>14, <1>15, <1>16 DEF Telling

LEMMA TellingInit == Init => Telling
<1> SUFFICES ASSUME Init PROVE Telling
  OBVIOUS
<1>1. \A p, q \in Peers : Known(p) = {} /\ ~Adding(p, q) /\ net[p][q] = <<>> /\ audience[p] = {}
  BY DEF Init, Known, Nobody, Adding, Polling
<1>2. \A p, q \in Peers : \A kind : ~Sends(p, q, kind)
  BY <1>1 DEF Sends
<1>3. \A p \in Peers : myStatus[p] \notin Calls
  BY LinesAssumption DEF Init
<1>4. DOMAIN caller = {}
  BY DEF Init
<1>5. Goodbyes /\ Mutual /\ ToPeers
  BY <1>1, <1>2, <1>4 DEF Goodbyes, Mutual, Side, ToPeers, Calling
<1>6. Mine /\ OneCall /\ Told
  BY <1>1, <1>3, <1>4 DEF Mine, OneCall, Told, SentTo
<1> QED BY <1>5, <1>6 DEF Telling

LEMMA TellingStep == Shapes /\ Meeting /\ Telling /\ [Next]_vars => Telling'
<1> SUFFICES ASSUME Shapes, Meeting, Telling, [Next]_vars PROVE Telling'
  OBVIOUS
<1>1. ASSUME NEW p \in Peers, Join(p) \/ Close(p) \/ StoreStatus(p)
      PROVE  Telling'
  BY <1>1, TellingJoin, TellingClose, TellingStore
<1>2. ASSUME NEW p \in Peers, RecvStep(p)
      PROVE  Telling'
  BY <1>2, TellingHello, TellingHelloAck, TellingAddPeer, TellingGoodbye, TellingPeerStatus
     DEF RecvStep, Receive
<1>3. ASSUME NEW p \in Peers, CloseStep(p)
      PROVE  Telling'
  <2>1. farewell[p] \subseteq Peers
    BY DEF Shapes
  <2> QED BY <1>3, <2>1, TellingEnd, TellingSendGoodbye DEF CloseStep, Exit
<1>4. ASSUME NEW p \in Peers, Torn(p)
      PROVE  Telling'
  BY <1>4, TellingEnd DEF Torn
<1>5. ASSUME NEW p \in Peers, Track(p) \/ PollInVain(p) \/ Adopt(p) \/ Adopted(p) \/ Tick(p)
      PROVE  Telling'
  BY <1>5, TellingIdle DEF Track, PollInVain, Adopt, Adopted, Tick, transport
<1>6. ASSUME NEW c \in Calls, CallStep(c)
      PROVE  Telling'
  BY <1>6, TellingSnapshot, TellingSendStatus, CallerShapes DEF CallStep
<1>7. CASE UNCHANGED vars
  BY <1>7, TellingIdle DEF vars, transport
<1> QED BY <1>1, <1>2, <1>3, <1>4, <1>5, <1>6, <1>7 DEF Next, PollStep

\* With any number of joiners and calls, whoever was in the setter's table when it sent its
\* last line shows that line once the message is through, if no two of the setter's calls
\* overlapped (axl.go 211-228, 389-404, 428-440).
THEOREM PresenceToldAreUpToDate == Spec => []ToldAreUpToDate
<1>1. Init => Shapes /\ Meeting /\ Telling
  BY ShapesInit, MeetingInit, TellingInit
<1>2. Shapes /\ Meeting /\ Telling /\ [Next]_vars => (Shapes /\ Meeting /\ Telling)'
  BY ShapesStep, MeetingStep, TellingStep
<1>3. Telling => ToldAreUpToDate
  <2> SUFFICES ASSUME Telling, NEW p \in Peers, NEW q \in Peers \ {p}, NEW c \in Calls,
                      SentTo(p, q, c),
                      [kind |-> "peer_status", status |-> c] \notin ToSet(net[p][q])
               PROVE  table[q][p] = c
    BY DEF ToldAreUpToDate, SentTo
  <2>1. ~LastLine(net[p][q], c)
    BY DEF LastLine, ToSet
  <2> QED BY <2>1 DEF Telling, Told, HasOrGets
<1> QED BY <1>1, <1>2, <1>3, PTL DEF Spec

----
(* Goodbyes.                                                               *)

\* p has said goodbye to q: q has still to take it, or has p in no table and will not add it.
Parted(p, q) ==
    /\ Linked(p, q)
    /\ life[p] \notin {"out", "running"}
    /\ q \in Joiners => life[q] # "out"
    /\ ~Sends(q, p, "hello")
    /\ Alive(q) => \/ Sends(p, q, "goodbye")
                   \/ /\ p \notin Known(q) /\ ~Adding(q, p)
                      /\ ~Sends(p, q, "hello") /\ ~Sends(p, q, "hello_ack")

Parting == \A p, q \in Peers : <<p, q>> \in parted => Parted(p, q)

LEMMA PartedKept ==
    ASSUME NEW p \in Peers, NEW q \in Peers, Parted(p, q),
           life'[p] \in {"out", "running"} => life[p] = life'[p],
           q \in Joiners /\ life'[q] = "out" => life[q] = "out",
           Alive(q)' => Alive(q) /\ (Sends(p, q, "goodbye") => Sends(p, q, "goodbye")'),
           Sends(q, p, "hello")' => Sends(q, p, "hello"),
           \A kind \in {"hello", "hello_ack"} : Sends(p, q, kind)' => Sends(p, q, kind),
           p \in Known(q)' => p \in Known(q) \/ Adding(q, p),
           Adding(q, p)' => Adding(q, p) \/ Sends(p, q, "hello") \/ Sends(p, q, "hello_ack")
    PROVE  Parted(p, q)'
BY DEF Parted, Linked

\* Steps that send and take nothing, and change no table.
LEMMA PartingIdle ==
    ASSUME Parting, UNCHANGED <<table, recvLoop, net, parted>>,
           \A p \in Peers : \/ life'[p] = life[p]
                            \/ Alive(p) /\ life'[p] = "closing"
    PROVE  Parting'
<1> SUFFICES ASSUME NEW p \in Peers, NEW q \in Peers, <<p, q>> \in parted
             PROVE  Parted(p, q)'
  BY DEF Parting
<1>1. Parted(p, q)
  BY DEF Parting
<1>2. /\ \A kind : /\ Sends(p, q, kind)' <=> Sends(p, q, kind)
                   /\ Sends(q, p, kind)' <=> Sends(q, p, kind)
      /\ Known(q)' = Known(q) /\ (Adding(q, p)' <=> Adding(q, p))
      /\ Alive(q)' => Alive(q)
  BY DEF Sends, Known, Adding, Alive
<1> QED BY <1>1, <1>2, PartedKept

\* Sending something that is no handshake.
LEMMA PartingSend ==
    ASSUME Shapes, Parting, NEW r \in Peers, NEW s \in Peers, NEW m \in Message,
           m.kind \notin {"hello", "hello_ack"}, net' = Sent(r, s, m),
           UNCHANGED <<life, table, recvLoop>>
    PROVE  \A p, q \in Peers : <<p, q>> \in parted => Parted(p, q)'
<1> SUFFICES ASSUME NEW p \in Peers, NEW q \in Peers, <<p, q>> \in parted
             PROVE  Parted(p, q)'
  OBVIOUS
<1>1. Parted(p, q)
  BY DEF Parting
<1>2. /\ \A x, y \in Peers : x # r \/ y # s => net'[x][y] = net[x][y]
      /\ net'[r][s] = net[r][s] \/ net'[r][s] = Append(net[r][s], m)
  BY SentNet
<1>3. \A kind : /\ Sends(r, s, kind)' => Sends(r, s, kind) \/ kind = m.kind
                /\ Sends(r, s, kind) => Sends(r, s, kind)'
  <2>1. net[r][s] \in Seq(Message)
    BY DEF Shapes
  <2>2. CASE net'[r][s] = net[r][s]
    BY <2>2 DEF Sends
  <2>3. CASE net'[r][s] = Append(net[r][s], m)
    <3>1. /\ \A i \in DOMAIN net[r][s] : i \in DOMAIN net'[r][s] /\ net'[r][s][i] = net[r][s][i]
          /\ \A i \in DOMAIN net'[r][s] : \/ i \in DOMAIN net[r][s] /\ net'[r][s][i] = net[r][s][i]
                                          \/ net'[r][s][i] = m
      BY <2>1, <2>3, Appended
    <3> QED BY <3>1 DEF Sends
  <2> QED BY <1>2, <2>2, <2>3
<1>4. \A x, y \in Peers : \A kind :
         /\ Sends(x, y, kind)' => Sends(x, y, kind) \/ kind = m.kind
         /\ Sends(x, y, kind) => Sends(x, y, kind)'
  <2>1. \A x, y \in Peers : x # r \/ y # s => \A kind : Sends(x, y, kind)' <=> Sends(x, y, kind)
    BY <1>2 DEF Sends
  <2> QED BY <1>3, <2>1
<1>5. Known(q)' = Known(q) /\ (Adding(q, p)' <=> Adding(q, p)) /\ (Alive(q)' <=> Alive(q))
  BY DEF Known, Adding, Alive
<1> QED BY <1>1, <1>4, <1>5, PartedKept

LEMMA PartingSendGoodbye ==
    ASSUME Shapes, Meeting, Parting, NEW r \in Peers, NEW s \in Peers, SendGoodbye(r, s)
    PROVE  Parting'
<1> DEFINE bye == [kind |-> "goodbye"]
<1>1. /\ UNCHANGED <<life, table, recvLoop>> /\ life[r] = "closing" /\ s \in farewell[r]
      /\ net' = Sent(r, s, bye) /\ parted' = parted \cup {<<r, s>>}
  BY DEF SendGoodbye, transport
<1>2. bye \in Message /\ bye.kind = "goodbye"
  BY DEF Message
<1>3. \A p, q \in Peers : <<p, q>> \in parted => Parted(p, q)'
  BY <1>1, <1>2, PartingSend
<1>4. Parted(r, s)'
  <2>1. Linked(r, s) /\ Addressed(r, s)
    BY <1>1 DEF Meeting, Strangers, Addressed
  <2>2. s \in Joiners => r = Host /\ ~Fresh(s)
    BY <2>1, MembersAssumption DEF Linked, Meeting, Freshness
  <2>3. s \in Joiners => life[s] # "out" /\ ~Sends(s, r, "hello")
    BY <2>2 DEF Fresh
  <2>4. s \notin Joiners => s = Host /\ r # Host /\ ~Sends(s, r, "hello")
    BY <2>1, HostIsPeer DEF Linked, Meeting, Openings, Sends
  <2>5. net'[s][r] = net[s][r]
    BY <1>1, <1>2, <2>1, SentNet DEF Linked
  <2>6. Alive(s) => Sends(r, s, "goodbye")'
    <3> SUFFICES ASSUME Alive(s) PROVE Sends(r, s, "goodbye")'
      OBVIOUS
    <3>1. net'[r][s] = Append(net[r][s], bye)
      BY <1>1, <1>2, SentNet DEF Alive
    <3>2. net[r][s] \in Seq(Message)
      BY DEF Shapes
    <3>3. Len(net[r][s]) + 1 \in DOMAIN net'[r][s] /\ net'[r][s][Len(net[r][s]) + 1] = bye
      BY <1>2, <3>1, <3>2, Appended
    <3> QED BY <3>3 DEF Sends
  <2>7. ~Sends(s, r, "hello")'
    BY <2>3, <2>4, <2>5 DEF Sends
  <2> QED BY <1>1, <2>1, <2>3, <2>6, <2>7 DEF Parted, Linked, Alive
<1> QED BY <1>1, <1>3, <1>4 DEF Parting

LEMMA PartingEnd ==
    ASSUME Shapes, Parting, NEW r \in Peers, NEW how \in {"left", "crashed"}, End(r, how)
    PROVE  Parting'
<1> SUFFICES ASSUME NEW p \in Peers, NEW q \in Peers, <<p, q>> \in parted
             PROVE  Parted(p, q)'
  BY DEF Parting, End
<1>1. Parted(p, q)
  BY DEF Parting
<1>2. /\ life'[r] = how
      /\ \A x \in Peers : x # r => /\ life'[x] = life[x] /\ recvLoop'[x] = recvLoop[x]
                                   /\ table'[x] = table[x]
      /\ \A x, y \in Peers : net'[x][y] = IF y = r THEN <<>> ELSE net[x][y]
  BY DEF End, Shapes
<1>3. \A x, y \in Peers : \A kind : /\ Sends(x, y, kind)' => Sends(x, y, kind)
                                    /\ y # r => (Sends(x, y, kind)' <=> Sends(x, y, kind))
  BY <1>2 DEF Sends
<1>4. Alive(q)' => q # r /\ Alive(q)
  BY <1>2 DEF Alive
<1>5. q # r => Known(q)' = Known(q) /\ (Adding(q, p)' <=> Adding(q, p))
  BY <1>2 DEF Known, Adding
<1>6. life'[p] \notin {"out", "running"} /\ (q \in Joiners => life'[q] # "out")
  BY <1>1, <1>2 DEF Parted
<1> QED BY <1>1, <1>3, <1>4, <1>5, <1>6 DEF Parted, Linked

LEMMA PartingJoin ==
    ASSUME Shapes, Parting, NEW j \in Peers, Join(j)
    PROVE  Parting'
<1> SUFFICES ASSUME NEW p \in Peers, NEW q \in Peers, <<p, q>> \in parted
             PROVE  Parted(p, q)'
  BY DEF Parting, Join
<1>1. Parted(p, q)
  BY DEF Parting
<1>2. /\ UNCHANGED <<table, recvLoop>> /\ j \in Joiners /\ life[j] = "out"
      /\ life' = [life EXCEPT ![j] = "running"] /\ net' = Sent(j, Host, [kind |-> "hello"])
  BY DEF Join, transport
<1>3. p # j /\ q # j
  BY <1>1, <1>2 DEF Parted
<1>4. [kind |-> "hello"] \in Message
  BY DEF Message
<1>5. net'[p][q] = net[p][q] /\ net'[q][p] = net[q][p] /\ life'[p] = life[p] /\ life'[q] = life[q]
  <2>1. \A x, y \in Peers : x # j \/ y # Host => net'[x][y] = net[x][y]
    BY <1>2, <1>4, HostIsPeer, SentNet
  <2>2. life'[p] = life[p] /\ life'[q] = life[q]
    BY <1>2, <1>3 DEF Shapes
  <2> QED BY <1>3, <2>1, <2>2
<1>6. /\ \A kind : /\ Sends(p, q, kind)' <=> Sends(p, q, kind)
                   /\ Sends(q, p, kind)' <=> Sends(q, p, kind)
      /\ Known(q)' = Known(q) /\ (Adding(q, p)' <=> Adding(q, p)) /\ (Alive(q)' <=> Alive(q))
  BY <1>2, <1>5 DEF Sends, Known, Adding, Alive
<1> QED BY <1>1, <1>5, <1>6, PartedKept

\* A handler that adds a peer does so for a message that is ahead of the goodbye.
LEMMA PartingReceive ==
    ASSUME Shapes, Meeting, Parting, NEW r \in Peers, RecvStep(r)
    PROVE  Parting'
<1>1. ASSUME AddPeer(r)
      PROVE  Parting'
  <2> DEFINE s == recvLoop[r].peer
  <2>1. s \in Peers /\ Adding(r, s)
    BY <1>1, LoopShapes DEF AddPeer, Shapes, Adding
  <2>2. /\ UNCHANGED <<life, net, parted>>
        /\ table' = [table EXCEPT ![r][s] = IF @ = Absent THEN Unset ELSE @]
        /\ recvLoop' = [recvLoop EXCEPT ![r] = Loop(r)]
    BY <1>1 DEF AddPeer
  <2> SUFFICES ASSUME NEW p \in Peers, NEW q \in Peers, <<p, q>> \in parted
               PROVE  Parted(p, q)'
    BY <2>2 DEF Parting
  <2>3. Parted(p, q)
    BY DEF Parting
  <2>4. p \in Known(q)' => p \in Known(q) \/ Adding(q, p)
    BY <2>1, <2>2 DEF Known, Shapes
  <2>5. Adding(q, p)' => Adding(q, p)
    BY <2>2, LoopIsOver DEF Adding, Shapes
  <2>6. /\ \A kind : /\ Sends(p, q, kind)' <=> Sends(p, q, kind)
                     /\ Sends(q, p, kind)' <=> Sends(q, p, kind)
        /\ Alive(q)' <=> Alive(q)
    BY <2>2 DEF Sends, Alive
  <2> QED BY <2>2, <2>3, <2>4, <2>5, <2>6, PartedKept
<1>2. ASSUME NEW s \in Peers, NEW m, HandleHello(r, s, m)
      PROVE  Parting'
  <2>1. /\ UNCHANGED <<life, table, parted>> /\ Arrives(r, s, m) /\ m.kind = "hello"
        /\ recvLoop' = [recvLoop EXCEPT ![r] = [at |-> "addPeer", peer |-> s]]
    BY <1>2 DEF HandleHello
  <2>2. r # s
    BY <2>1, TakenNet, ArrivesLinked
  <2>3. /\ \A x, y \in Peers : (x # s \/ y # r) /\ (x # r \/ y # s) => net'[x][y] = net[x][y]
        /\ net'[s][r] = Tail(net[s][r])
    BY <1>2, <2>2 DEF HandleHello, Taken, Shapes
  <2> SUFFICES ASSUME NEW p \in Peers, NEW q \in Peers, <<p, q>> \in parted
               PROVE  Parted(p, q)'
    BY <2>1 DEF Parting
  <2>4. Parted(p, q)
    BY DEF Parting
  <2>5. /\ Sends(s, r, "hello")
        /\ \A kind : /\ Sends(s, r, kind)' => Sends(s, r, kind)
                     /\ Sends(s, r, kind) /\ kind # "hello" => Sends(s, r, kind)'
    BY <2>1, <2>3, TakenSends
  <2>6. p # r \/ q # s
    BY <2>4, <2>5 DEF Parted
  <2>7. /\ \A kind : /\ Sends(p, q, kind)' => Sends(p, q, kind)
                     /\ Sends(p, q, kind) /\ kind # "hello" => Sends(p, q, kind)'
        /\ Sends(q, p, "hello")' => Sends(q, p, "hello")
    <3>1. \A x, y \in Peers : (x # s \/ y # r) /\ (x # r \/ y # s) =>
             \A kind : Sends(x, y, kind)' <=> Sends(x, y, kind)
      BY <2>3 DEF Sends
    <3>2. CASE p = s /\ q = r
      <4>1. Linked(q, p) /\ r = Host /\ s # Host
        BY <2>1, <3>2, TakenNet DEF Meeting, Openings, Linked
      <4>2. \A i \in DOMAIN net'[r][s] :
               \/ net'[r][s][i].kind # "hello"
               \/ i \in DOMAIN net[r][s] /\ net'[r][s][i] = net[r][s][i]
        <5>1. net'[r][s] = IF Alive(s) THEN Append(net[r][s], [kind |-> "hello_ack"]) ELSE net[r][s]
          BY <1>2, <2>2 DEF HandleHello, Taken, Shapes
        <5>2. [kind |-> "hello_ack"] \in Message
          BY DEF Message
        <5>3. net[r][s] \in Seq(Message)
          BY DEF Shapes
        <5>4. CASE Alive(s)
          <6>1. net'[r][s] = Append(net[r][s], [kind |-> "hello_ack"])
            BY <5>1, <5>4
          <6>2. \A i \in DOMAIN net'[r][s] :
                   \/ i \in DOMAIN net[r][s] /\ net'[r][s][i] = net[r][s][i]
                   \/ net'[r][s][i] = [kind |-> "hello_ack"]
            BY <5>2, <5>3, <6>1, Appended
          <6> QED BY <6>2
        <5>5. CASE ~Alive(s)
          BY <5>1, <5>5
        <5> QED BY <5>4, <5>5
      <4> QED BY <2>5, <3>2, <4>2 DEF Sends
    <3> QED BY <2>5, <2>6, <3>1, <3>2
  <2>8. /\ Known(q)' = Known(q) /\ (Alive(q)' <=> Alive(q))
        /\ Adding(q, p)' => Adding(q, p) \/ (q = r /\ p = s)
    BY <2>1, AddsOne DEF Known, Alive, Adding, Shapes
  <2> QED BY <2>1, <2>4, <2>5, <2>7, <2>8, PartedKept
<1>3. ASSUME NEW s \in Peers, NEW m, HandleHelloAck(r, s, m)
      PROVE  Parting'
  <2>1. /\ UNCHANGED <<life, table, parted>> /\ Arrives(r, s, m) /\ m.kind = "hello_ack"
        /\ net' = Taken(r, s)
        /\ recvLoop' = [recvLoop EXCEPT ![r] = [at |-> "addPeer", peer |-> s]]
    BY <1>3 DEF HandleHelloAck
  <2>2. /\ \A x, y \in Peers : x # s \/ y # r => net'[x][y] = net[x][y]
        /\ net'[s][r] = Tail(net[s][r])
    BY <2>1, TakenNet
  <2> SUFFICES ASSUME NEW p \in Peers, NEW q \in Peers, <<p, q>> \in parted
               PROVE  Parted(p, q)'
    BY <2>1 DEF Parting
  <2>3. Parted(p, q)
    BY DEF Parting
  <2>4. /\ Sends(s, r, "hello_ack")
        /\ \A kind : /\ Sends(s, r, kind)' => Sends(s, r, kind)
                     /\ Sends(s, r, kind) /\ kind # "hello_ack" => Sends(s, r, kind)'
    BY <2>1, <2>2, TakenSends
  <2>5. \A x, y \in Peers : \A kind :
           /\ Sends(x, y, kind)' => Sends(x, y, kind)
           /\ Sends(x, y, kind) /\ kind # "hello_ack" => Sends(x, y, kind)'
    <3>1. \A x, y \in Peers : x # s \/ y # r => \A kind : Sends(x, y, kind)' <=> Sends(x, y, kind)
      BY <2>2 DEF Sends
    <3> QED BY <2>4, <3>1
  <2>6. /\ Known(q)' = Known(q) /\ (Alive(q)' <=> Alive(q))
        /\ Adding(q, p)' => Adding(q, p) \/ (q = r /\ p = s)
    BY <2>1, AddsOne DEF Known, Alive, Adding, Shapes
  <2> QED BY <2>1, <2>3, <2>4, <2>5, <2>6, PartedKept
<1>4. ASSUME NEW s \in Peers, NEW m, HandlePeerStatus(r, s, m) \/ HandleGoodbye(r, s, m)
      PROVE  Parting'
  <2>1. /\ UNCHANGED <<life, parted>> /\ Arrives(r, s, m) /\ m.kind \in {"peer_status", "goodbye"}
        /\ net' = Taken(r, s)
        /\ recvLoop' = [recvLoop EXCEPT ![r] = Loop(r)]
    BY <1>4 DEF HandlePeerStatus, HandleGoodbye
  <2>2. /\ \A x, y \in Peers : x # s \/ y # r => net'[x][y] = net[x][y]
        /\ net'[s][r] = Tail(net[s][r])
    BY <2>1, TakenNet
  <2>3. /\ \A x, y \in Peers : y \in Known(x)' => y \in Known(x)
        /\ m.kind = "goodbye" => s \notin Known(r)'
    <3>1. CASE HandlePeerStatus(r, s, m)
      <4>1. m.kind = "peer_status" /\ table' = [table EXCEPT ![r][s] = Updated(@, m)]
        BY <3>1 DEF HandlePeerStatus
      <4>2. \A x, y \in Peers : table[x][y] = Absent => table'[x][y] = Absent
        BY <4>1 DEF Updated, Shapes
      <4> QED BY <4>1, <4>2 DEF Known
    <3>2. CASE HandleGoodbye(r, s, m)
      <4>1. table' = [table EXCEPT ![r][s] = Absent]
        BY <3>2 DEF HandleGoodbye
      <4>2. \A x, y \in Peers : table[x][y] = Absent => table'[x][y] = Absent
        BY <4>1 DEF Shapes
      <4>3. table'[r][s] = Absent
        BY <4>1 DEF Shapes
      <4> QED BY <4>2, <4>3 DEF Known
    <3> QED BY <1>4, <3>1, <3>2
  <2>4. \A x, y \in Peers : (Adding(x, y)' => Adding(x, y)) /\ ~Adding(r, y)'
    BY <2>1, LoopIsOver DEF Adding, Shapes
  <2>5. \A kind : /\ Sends(s, r, kind)' => Sends(s, r, kind)
                  /\ Sends(s, r, kind) /\ kind # m.kind => Sends(s, r, kind)'
    BY <2>1, <2>2, TakenSends
  <2>6. \A x, y \in Peers : x # s \/ y # r => \A kind : Sends(x, y, kind)' <=> Sends(x, y, kind)
    BY <2>2 DEF Sends
  <2>7. ~Sends(s, r, "hello")' /\ ~Sends(s, r, "hello_ack")'
    <3>1. 1 \in DOMAIN net[s][r] /\ net[s][r] # <<>> /\ m = net[s][r][1] /\ net[s][r] \in Seq(Message)
      <4>1. net[s][r] \in Seq(Message)
        BY DEF Shapes
      <4>2. 1 \in DOMAIN net[s][r] /\ net[s][r] # <<>> /\ m = net[s][r][1]
        BY <2>1, TakenNet
      <4> QED BY <4>1, <4>2
    <3>2. \A i \in DOMAIN net[s][r] : net[s][r][i].kind \notin {"hello", "hello_ack"}
      BY <2>1, <3>1 DEF Meeting, Openings
    <3>3. ~Sends(s, r, "hello") /\ ~Sends(s, r, "hello_ack")
      BY <3>2 DEF Sends
    <3> QED BY <2>5, <3>3
  <2> SUFFICES ASSUME NEW p \in Peers, NEW q \in Peers, <<p, q>> \in parted
               PROVE  Parted(p, q)'
    BY <2>1 DEF Parting
  <2>8. Parted(p, q)
    BY DEF Parting
  <2>9. Alive(q)' <=> Alive(q)
    BY <2>1 DEF Alive
  <2>10. CASE p = s /\ q = r /\ m.kind = "goodbye"
    BY <2>1, <2>3, <2>4, <2>5, <2>6, <2>7, <2>8, <2>10 DEF Parted, Linked
  <2>11. CASE ~(p = s /\ q = r /\ m.kind = "goodbye")
    BY <2>1, <2>3, <2>4, <2>5, <2>6, <2>8, <2>9, <2>11, PartedKept
  <2> QED BY <2>10, <2>11
<1> QED BY <1>1, <1>2, <1>3, <1>4 DEF RecvStep, Receive

LEMMA PartingStep == Shapes /\ Meeting /\ Parting /\ [Next]_vars => Parting'
<1> SUFFICES ASSUME Shapes, Meeting, Parting, [Next]_vars PROVE Parting'
  OBVIOUS
<1>1. ASSUME NEW p \in Peers, Join(p) \/ RecvStep(p)
      PROVE  Parting'
  BY <1>1, PartingJoin, PartingReceive
<1>2. ASSUME NEW p \in Peers, Close(p)
      PROVE  Parting'
  BY <1>2, PartingIdle DEF Close, transport, Alive, Shapes
<1>3. ASSUME NEW p \in Peers, CloseStep(p)
      PROVE  Parting'
  <2>1. farewell[p] \subseteq Peers
    BY DEF Shapes
  <2> QED BY <1>3, <2>1, PartingEnd, PartingSendGoodbye DEF CloseStep, Exit
<1>4. ASSUME NEW p \in Peers, Torn(p)
      PROVE  Parting'
  BY <1>4, PartingEnd DEF Torn
<1>5. ASSUME NEW p \in Peers,
             StoreStatus(p) \/ Track(p) \/ PollInVain(p) \/ Adopt(p) \/ Adopted(p) \/ Tick(p)
      PROVE  Parting'
  BY <1>5, PartingIdle DEF StoreStatus, Track, PollInVain, Adopt, Adopted, Tick, transport
<1>6. ASSUME NEW c \in DOMAIN caller, SnapshotPeers(c)
      PROVE  Parting'
  BY <1>6, PartingIdle DEF SnapshotPeers, transport
<1>7. ASSUME NEW c \in DOMAIN caller, NEW q \in rest[c], SendStatus(c, q)
      PROVE  Parting'
  <2>1. caller[c] \in Peers /\ q \in Peers /\ c \in Calls
    BY CallerShapes DEF Shapes
  <2>2. /\ [kind |-> "peer_status", status |-> c] \in Message
        /\ [kind |-> "peer_status", status |-> c].kind \notin {"hello", "hello_ack"}
    BY <2>1 DEF Message
  <2>3. /\ UNCHANGED <<life, table, recvLoop, parted>>
        /\ net' = Sent(caller[c], q, [kind |-> "peer_status", status |-> c])
    BY <1>7 DEF SendStatus, transport
  <2>4. \A r, s \in Peers : <<r, s>> \in parted => Parted(r, s)'
    BY <2>1, <2>2, <2>3, PartingSend
  <2> QED BY <2>3, <2>4 DEF Parting
<1>8. CASE UNCHANGED vars
  BY <1>8, PartingIdle DEF vars, transport
<1> QED BY <1>1, <1>2, <1>3, <1>4, <1>5, <1>6, <1>7, <1>8 DEF Next, PollStep, CallStep

\* A peer that has taken a goodbye never has the one that left in its table again, with any
\* number of joiners, although lines may come after the goodbye and a joiner may leave
\* before the host's ack is in (axl.go 278-298, 424-440).
THEOREM PresenceGoodbyeHolds == Spec => []GoodbyeHolds
<1>1. Init => Shapes /\ Meeting /\ Parting
  BY ShapesInit, MeetingInit DEF Init, Parting
<1>2. Shapes /\ Meeting /\ Parting /\ [Next]_vars => (Shapes /\ Meeting /\ Parting)'
  BY ShapesStep, MeetingStep, PartingStep
<1>3. Shapes /\ Parting => GoodbyeHolds
  <2> SUFFICES ASSUME Shapes, Parting, NEW p \in Peers, NEW q \in Peers, Parted(p, q),
                      life[q] = "running", [kind |-> "goodbye"] \notin ToSet(net[p][q])
               PROVE  p \notin Known(q)
    BY DEF GoodbyeHolds, Parting
  <2>1. \A m \in Message : m.kind = "goodbye" => m = [kind |-> "goodbye"]
    BY DEF Message
  <2>2. \A i \in DOMAIN net[p][q] : net[p][q][i] \in Message
    BY DEF Shapes
  <2>3. ~Sends(p, q, "goodbye")
    BY <2>1, <2>2 DEF Sends, ToSet
  <2> QED BY <2>3 DEF Parted, Alive
<1> QED BY <1>1, <1>2, <1>3, PTL DEF Spec
====
