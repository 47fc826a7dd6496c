---- MODULE SessionProofs ----
(***************************************************************************)
(* Theorems about Session for every set of joiners and entries, every      *)
(* capacity of the channels and any number of lost messages and crashes:   *)
(* who is in, what the tracker makes of the transport's events, and that a *)
(* joiner gets the host's log whatever happens between the replay and the  *)
(* broadcast.                                                              *)
(***************************************************************************)
EXTENDS Session, SequenceTheorems, TLAPS

----
(* Types.                                                                  *)

Loops == {Polling, Stopped} \cup [at : {"addPeer"}, peer : Peers]
                            \cup [at : {"emit"}, event : Event]
                            \cup [at : {"makeRoom"}, msg : LogEntry]

LEMMA LoopShapes ==
    ASSUME TypeOK, NEW p \in Peers
    PROVE  /\ recvLoop[p] \in Loops
           /\ recvLoop[p].at = "addPeer" =>
                 /\ recvLoop[p].peer \in Peers
                 /\ recvLoop[p] = [at |-> "addPeer", peer |-> recvLoop[p].peer]
           /\ recvLoop[p].at = "emit" =>
                 /\ recvLoop[p].event \in Event
                 /\ recvLoop[p] = [at |-> "emit", event |-> recvLoop[p].event]
           /\ recvLoop[p].at = "makeRoom" => recvLoop[p].msg \in LogEntry
           /\ Loop(p) \in {Polling, Stopped}
<1>1. recvLoop[p] \in Loops
  BY DEF TypeOK, Loops
<1>2. recvLoop[p].at = "addPeer" =>
         /\ recvLoop[p].peer \in Peers
         /\ recvLoop[p] = [at |-> "addPeer", peer |-> recvLoop[p].peer]
  BY <1>1 DEF Loops, Polling, Stopped
<1>3. recvLoop[p].at = "emit" =>
         /\ recvLoop[p].event \in Event
         /\ recvLoop[p] = [at |-> "emit", event |-> recvLoop[p].event]
  BY <1>1 DEF Loops, Polling, Stopped
<1>4. recvLoop[p].at = "makeRoom" => recvLoop[p].msg \in LogEntry
  BY <1>1 DEF Loops, Polling, Stopped
<1> QED BY <1>1, <1>2, <1>3, <1>4 DEF Loop

LEMMA MessageShapes ==
    ASSUME NEW m \in Control \cup LogEntry
    PROVE  /\ m.to \in Peers /\ m.from \in Peers
           /\ m.kind = "hello" => m.invited \in BOOLEAN
           /\ m.kind = "hello_ack" => m.accepted \in BOOLEAN
           /\ m.kind = "log_entry" <=> m \in LogEntry
           /\ m \in LogEntry => m.entry \in Entries
BY DEF Control, LogEntry

LEMMA HostIsPeer == Host \in Peers /\ Joiners \subseteq Peers
BY DEF Peers

LEMMA InTransitOnly == \A msgs : InTransit(msgs) \subseteq msgs
BY DEF InTransit

LEMMA TypeInit == Init => TypeOK
<1> SUFFICES ASSUME Init PROVE TypeOK
  OBVIOUS
<1>1. life \in [Peers -> {"out", "running", "closing", "left", "crashed"}]
  BY HostIsPeer DEF Init
<1>2. recvLoop \in [Peers -> {Polling, Stopped} \cup [at : {"addPeer"}, peer : Peers]
                                             \cup [at : {"emit"}, event : Event]
                                             \cup [at : {"makeRoom"}, msg : LogEntry]]
  BY DEF Init
<1>3. log \in [Peers -> SUBSET Entries] /\ announced \in [Peers -> SUBSET Entries]
  BY DEF Init
<1>4. /\ events \in [Peers -> Seq(Event)] /\ \A p \in Peers : Len(events[p]) <= EventCap
      /\ in \in [Peers -> Seq(LogEntry)] /\ \A p \in Peers : Len(in[p]) <= InCap
  BY CapAssumption DEF Init
<1> QED BY <1>1, <1>2, <1>3, <1>4 DEF Init, TypeOK

LEMMA TypeStep == TypeOK /\ [Next]_vars => TypeOK'
<1> SUFFICES ASSUME TypeOK, [Next]_vars PROVE TypeOK'
  OBVIOUS
<1> USE HostIsPeer, MessageShapes
<1>1. ASSUME NEW p \in Peers, Join(p) PROVE TypeOK'
  <2>1. [kind |-> "hello", to |-> Host, from |-> p, invited |-> p \in invited] \in Control
    BY DEF Control
  <2>2. net' \subseteq Control \cup LogEntry
    BY <1>1, <2>1, InTransitOnly DEF TypeOK, Join
  <2> QED BY <1>1, <2>2 DEF TypeOK, Join, transport, engine
<1>2. ASSUME NEW p \in Peers, NEW e \in Entries, Post(p, e) PROVE TypeOK'
  BY <1>2 DEF TypeOK, Post, transport
<1>3. ASSUME NEW p \in Peers, Close(p) PROVE TypeOK'
  BY <1>3 DEF TypeOK, Close, transport, engine
<1>4. ASSUME NEW p \in Peers, NEW q \in farewell[p], SendGoodbye(p, q) PROVE TypeOK'
  BY <1>4 DEF TypeOK, SendGoodbye, transport, engine, InTransit, Control
<1>5. ASSUME NEW p \in Peers, NEW how \in {"left", "crashed"}, End(p, how) PROVE TypeOK'
  BY <1>5, CapAssumption DEF TypeOK, End
<1>6. ASSUME NEW p \in Peers, NEW m \in net, HandleHello(p, m) PROVE TypeOK'
  <2>0. m \in Control \cup LogEntry /\ m.kind = "hello"
    BY <1>6 DEF TypeOK, HandleHello
  <2>1. [kind |-> "hello_ack", to |-> m.from, from |-> p, accepted |-> Accepted(m)] \in Control
    BY <2>0 DEF Control, LogEntry, Accepted
  <2>2. net' \subseteq Control \cup LogEntry
    BY <1>6, <2>1, InTransitOnly DEF TypeOK, HandleHello
  <2>3. recvLoop' \in [Peers -> Loops]
    BY <1>6, <2>0, LoopShapes DEF TypeOK, HandleHello, Loops
  <2> QED BY <1>6, <2>2, <2>3 DEF TypeOK, HandleHello, engine, Loops
<1>7. ASSUME NEW p \in Peers, NEW m \in net, HandleHelloAck(p, m) PROVE TypeOK'
  BY <1>7, LoopShapes DEF TypeOK, HandleHelloAck, engine
<1>8. ASSUME NEW p \in Peers, AddPeer(p) PROVE TypeOK'
  <2>1. recvLoop[p].at = "addPeer" /\ recvLoop[p].peer \in Peers
    BY <1>8, LoopShapes DEF AddPeer
  <2>2. [kind |-> "joined", peer |-> recvLoop[p].peer] \in Event
    BY <2>1 DEF Event
  <2>3. recvLoop' \in [Peers -> Loops]
    BY <1>8, <2>1, <2>2, LoopShapes DEF TypeOK, AddPeer, Loops
  <2>4. table' \in [Peers -> SUBSET Peers]
    BY <1>8, <2>1 DEF TypeOK, AddPeer
  <2>5. backlog' \in [Joiners -> SUBSET Entries]
    BY <1>8, <2>1 DEF TypeOK, AddPeer
  <2> QED BY <1>8, <2>3, <2>4, <2>5 DEF TypeOK, AddPeer, engine, Loops
<1>9. ASSUME NEW p \in Peers, NEW m \in net, HandleGoodbye(p, m) PROVE TypeOK'
  BY <1>9, LoopShapes DEF TypeOK, HandleGoodbye, engine, Event
<1>10. ASSUME NEW p \in Peers, EmitEvent(p) PROVE TypeOK'
  <2>1. recvLoop[p].event \in Event
    BY <1>10, LoopShapes DEF EmitEvent
  <2>2. recvLoop' \in [Peers -> Loops]
    BY <1>10, LoopShapes DEF TypeOK, EmitEvent, Loops
  <2>3. /\ events' \in [Peers -> Seq(Event)]
        /\ \A q \in Peers : Len(events'[q]) <= EventCap
        /\ overflowed' \in [Peers -> BOOLEAN]
    <3>1. CASE events' = [events EXCEPT ![p] = Append(@, recvLoop[p].event)]
               /\ Len(events[p]) < EventCap /\ UNCHANGED overflowed
      <4>1. /\ Append(events[p], recvLoop[p].event) \in Seq(Event)
            /\ Len(Append(events[p], recvLoop[p].event)) = Len(events[p]) + 1
        BY <2>1, AppendProperties DEF TypeOK
      <4> QED BY <3>1, <4>1, CapAssumption, LenProperties DEF TypeOK
    <3>2. CASE UNCHANGED events /\ overflowed' = [overflowed EXCEPT ![p] = TRUE]
      BY <3>2 DEF TypeOK
    <3> QED BY <1>10, <3>1, <3>2 DEF EmitEvent
  <2> QED BY <1>10, <2>2, <2>3 DEF TypeOK, EmitEvent, engine, Loops
<1>11. ASSUME NEW p \in Peers, NEW m \in net, HandleLogEntry(p, m) PROVE TypeOK'
  <2>1. m \in LogEntry
    BY <1>11 DEF TypeOK, HandleLogEntry
  <2>2. recvLoop' \in [Peers -> Loops]
    <3>1. [at |-> "makeRoom", msg |-> m] \in Loops /\ Loop(p) \in Loops
      BY <2>1, LoopShapes DEF Loops
    <3>2. recvLoop \in [Peers -> Loops]
      BY DEF TypeOK, Loops
    <3> QED BY <1>11, <3>1, <3>2 DEF HandleLogEntry
  <2>3. in' \in [Peers -> Seq(LogEntry)] /\ \A q \in Peers : Len(in'[q]) <= InCap
    <3>1. CASE in' = [in EXCEPT ![p] = Append(@, m)] /\ Len(in[p]) < InCap
      <4>1. Append(in[p], m) \in Seq(LogEntry) /\ Len(Append(in[p], m)) = Len(in[p]) + 1
        BY <2>1, AppendProperties DEF TypeOK
      <4> QED BY <3>1, <4>1, CapAssumption, LenProperties DEF TypeOK
    <3>2. CASE UNCHANGED in
      BY <3>2 DEF TypeOK
    <3> QED BY <1>11, <3>1, <3>2 DEF HandleLogEntry
  <2> QED BY <1>11, <2>2, <2>3 DEF TypeOK, HandleLogEntry, engine, Loops
<1>19. ASSUME NEW p \in Peers, MakeRoom(p) PROVE TypeOK'
  <2>1. recvLoop[p].msg \in LogEntry /\ in[p] \in Seq(LogEntry)
    BY <1>19, LoopShapes DEF TypeOK, MakeRoom
  <2>2. recvLoop' \in [Peers -> Loops]
    BY <1>19, LoopShapes DEF TypeOK, MakeRoom, Loops
  <2>3. in'[p] \in Seq(LogEntry) /\ Len(in'[p]) <= InCap
    <3>1. CASE in[p] # <<>> /\ in'[p] = Append(Tail(in[p]), recvLoop[p].msg)
      <4>1. Tail(in[p]) \in Seq(LogEntry) /\ Len(Tail(in[p])) = Len(in[p]) - 1
        BY <2>1, <3>1, HeadTailProperties
      <4>2. in'[p] \in Seq(LogEntry) /\ Len(in'[p]) = Len(Tail(in[p])) + 1
        BY <2>1, <3>1, <4>1, AppendProperties
      <4> QED BY <2>1, <4>1, <4>2, CapAssumption, LenProperties DEF TypeOK
    <3>2. CASE in'[p] = <<recvLoop[p].msg>>
      BY <2>1, <3>2, CapAssumption
    <3> QED BY <1>19, <3>1, <3>2 DEF TypeOK, MakeRoom
  <2>4. in' \in [Peers -> Seq(LogEntry)] /\ \A q \in Peers : Len(in'[q]) <= InCap
    BY <1>19, <2>3 DEF TypeOK, MakeRoom
  <2>5. overflowed' \in [Peers -> BOOLEAN]
    BY <1>19 DEF TypeOK, MakeRoom
  <2> QED BY <1>19, <2>2, <2>4, <2>5 DEF TypeOK, MakeRoom, engine, Loops
<1>12. ASSUME NEW p \in Peers, NEW e \in announced[p], Broadcast(p, e) PROVE TypeOK'
  <2>1. outbox' \in [Peers -> SUBSET LogEntry]
    <3>1. e \in Entries /\ table[p] \subseteq Peers
      BY DEF TypeOK
    <3> QED BY <1>12, <3>1 DEF TypeOK, Broadcast, Targets, LogEntry
  <2> QED BY <1>12, <2>1 DEF TypeOK, Broadcast, transport
<1>13. ASSUME NEW p \in Peers, NEW m \in outbox[p], SendNext(p, m) PROVE TypeOK'
  BY <1>13 DEF TypeOK, SendNext, transport, InTransit
<1>14. ASSUME NEW p \in Peers, ApplyEntry(p) PROVE TypeOK'
  <2>1. in[p] \in Seq(LogEntry) /\ in[p] # <<>>
    BY <1>14 DEF TypeOK, ApplyEntry
  <2>2. /\ Head(in[p]) \in LogEntry
        /\ Tail(in[p]) \in Seq(LogEntry) /\ Len(Tail(in[p])) = Len(in[p]) - 1
    BY <2>1, HeadTailProperties
  <2>3. log' \in [Peers -> SUBSET Entries]
    BY <1>14, <2>2, MessageShapes DEF TypeOK, ApplyEntry
  <2>4. in' \in [Peers -> Seq(LogEntry)] /\ \A q \in Peers : Len(in'[q]) <= InCap
    BY <1>14, <2>1, <2>2, CapAssumption, LenProperties DEF TypeOK, ApplyEntry
  <2> QED BY <1>14, <2>3, <2>4 DEF TypeOK, ApplyEntry
<1>15. ASSUME NEW p \in Peers, Track(p) PROVE TypeOK'
  <2>1. events[p] \in Seq(Event) /\ events[p] # <<>>
    BY <1>15 DEF TypeOK, Track
  <2>2. /\ Head(events[p]) \in Event
        /\ Tail(events[p]) \in Seq(Event) /\ Len(Tail(events[p])) = Len(events[p]) - 1
    BY <2>1, HeadTailProperties
  <2>3. events' \in [Peers -> Seq(Event)] /\ \A q \in Peers : Len(events'[q]) <= EventCap
    BY <1>15, <2>1, <2>2, CapAssumption, LenProperties DEF TypeOK, Track
  <2>4. roster' \in [Peers -> SUBSET Peers]
    BY <1>15, <2>2 DEF TypeOK, Track, Tracked, Event
  <2>5. replay' \in [Peers -> SUBSET LogEntry]
    <3>1. Head(events[p]).peer \in Peers /\ log[p] \subseteq Entries
      BY <2>2 DEF TypeOK, Event
    <3>2. ReplayTo(p, Head(events[p]).peer) \subseteq LogEntry
      BY <3>1, AuthorAssumption DEF ReplayTo, LogEntry
    <3> QED BY <1>15, <3>2 DEF TypeOK, Track
  <2> QED BY <1>15, <2>3, <2>4, <2>5 DEF TypeOK, Track, engine
<1>16. ASSUME NEW p \in Peers, NEW m \in replay[p], SendReplay(p, m) PROVE TypeOK'
  BY <1>16 DEF TypeOK, SendReplay, transport, engine, InTransit
<1>17. ASSUME NEW m \in net, Lose(m) PROVE TypeOK'
  BY <1>17 DEF TypeOK, Lose, transport, engine
<1>18. CASE UNCHANGED vars
  BY <1>18 DEF TypeOK, vars, transport, engine
<1> QED
  BY <1>1, <1>2, <1>3, <1>4, <1>5, <1>6, <1>7, <1>8, <1>9, <1>10, <1>11, <1>12, <1>13, <1>14,
     <1>15, <1>16, <1>17, <1>18, <1>19
  DEF Next, RecvStep, Receive, EngineStep, TrackStep, CloseStep, Exit, Crash

\* Every variable keeps its type (the state runCreate, runJoin and trackPeerEvents share).
THEOREM SessionTypeCorrect == Spec => []TypeOK
<1>1. Init => TypeOK
  BY TypeInit
<1>2. TypeOK /\ [Next]_vars => TypeOK'
  BY TypeStep
<1> QED BY <1>1, <1>2, PTL DEF Spec

----
(* Only insiders are in any table, queue or message that carries the log.  *)

Insiders == {Host} \cup invited

InsideEvent == [kind : {"joined", "left"}, peer : Insiders]
InsideEntry == {m \in LogEntry : m.to \in Insiders /\ AuthorOf[m.entry] \in Insiders}
InsideInbox(p) == {m \in InsideEntry : m.to = p}

\* What a message on its way says: a hello is as good as its invite, only the host
\* accepts, and only who is invited, and entries are from insiders to insiders.
Honest(m) ==
    /\ m.kind = "hello" => m.from \in Joiners /\ (m.invited => m.from \in invited)
    /\ m.kind = "hello_ack" => /\ m.from = Host /\ m.to \in Joiners
                               /\ m.accepted => m.to \in invited
    /\ m.kind = "log_entry" => m \in InsideEntry

InsideTables == \A p \in Peers : table[p] \subseteq Insiders /\ (table[p] # {} => p \in Insiders)
InsideRosters == \A p \in Peers : roster[p] \subseteq Insiders
InsideLoops ==
    \A p \in Peers :
       /\ recvLoop[p].at = "addPeer" => {p, recvLoop[p].peer} \subseteq Insiders
       /\ recvLoop[p].at = "emit" => recvLoop[p].event.peer \in Insiders
       /\ recvLoop[p].at = "makeRoom" => recvLoop[p].msg \in InsideInbox(p)
InsideEvents == \A p \in Peers : events[p] \in Seq(InsideEvent)
InsideInboxes == \A p \in Peers : in[p] \in Seq(InsideInbox(p))
InsideSends == \A p \in Peers : outbox[p] \subseteq InsideEntry /\ replay[p] \subseteq InsideEntry
InsideLogs ==
    \A p \in Peers :
       /\ \A e \in announced[p] : AuthorOf[e] = p
       /\ \A e \in log[p] : AuthorOf[e] = p \/ {p, AuthorOf[e]} \subseteq Insiders
InsideNet == \A m \in net : Honest(m)

OnlyInsiders ==
    /\ invited \subseteq Joiners
    /\ InsideTables /\ InsideRosters /\ InsideLoops /\ InsideEvents /\ InsideInboxes
    /\ InsideSends /\ InsideLogs /\ InsideNet

\* A state that respects all that keeps strangers out.
LEMMA InsidersOnlyTakePart == OnlyInsiders => UninvitedStayOut
<1> SUFFICES ASSUME OnlyInsiders, NEW j \in Joiners \ invited
             PROVE  /\ \A e \in log[j] : AuthorOf[e] = j
                    /\ \A p \in Peers \ {j} : \A e \in log[p] : AuthorOf[e] # j
                    /\ \A p \in Peers : j \notin table[p] \cup roster[p]
  BY DEF UninvitedStayOut
<1>1. j \in Peers /\ j \notin Insiders
  BY MembersAssumption DEF Peers, Insiders
<1> QED BY <1>1 DEF OnlyInsiders, InsideLogs, InsideTables, InsideRosters

LEMMA OnlyInsidersInit == Init => OnlyInsiders
<1> SUFFICES ASSUME Init PROVE OnlyInsiders
  OBVIOUS
<1>1. InsideEvents /\ InsideInboxes
  BY DEF Init, InsideEvents, InsideInboxes
<1>2. InsideLogs
  BY MembersAssumption DEF Init, InsideLogs, Insiders, Peers
<1>3. InsideTables /\ InsideRosters /\ InsideLoops /\ InsideSends /\ InsideNet
  BY DEF Init, InsideTables, InsideRosters, InsideLoops, InsideSends, InsideNet, Polling
<1> QED BY <1>1, <1>2, <1>3 DEF Init, OnlyInsiders

\* What a step leaves alone stays as it was.
LEMMA InsideFrame ==
    ASSUME OnlyInsiders, invited' = invited
    PROVE  /\ Insiders' = Insiders /\ InsideEvent' = InsideEvent /\ InsideEntry' = InsideEntry
           /\ \A p : InsideInbox(p)' = InsideInbox(p)
           /\ \A m : Honest(m)' <=> Honest(m)
           /\ (invited \subseteq Joiners)'
           /\ table' = table => InsideTables'
           /\ roster' = roster => InsideRosters'
           /\ recvLoop' = recvLoop => InsideLoops'
           /\ events' = events => InsideEvents'
           /\ in' = in => InsideInboxes'
           /\ outbox' = outbox /\ replay' = replay => InsideSends'
           /\ announced' = announced /\ log' = log => InsideLogs'
           /\ net' \subseteq net => InsideNet'
<1>1. Insiders' = Insiders
  BY DEF Insiders
<1>2. InsideEvent' = InsideEvent /\ InsideEntry' = InsideEntry
  BY <1>1 DEF InsideEvent, InsideEntry
<1>3. \A p : InsideInbox(p)' = InsideInbox(p)
  BY <1>2 DEF InsideInbox
<1>4. \A m : Honest(m)' <=> Honest(m)
  BY <1>2 DEF Honest
<1>5. /\ table' = table => InsideTables'
      /\ roster' = roster => InsideRosters'
      /\ recvLoop' = recvLoop => InsideLoops'
  BY <1>1, <1>3 DEF OnlyInsiders, InsideTables, InsideRosters, InsideLoops
<1>6. /\ events' = events => InsideEvents'
      /\ in' = in => InsideInboxes'
      /\ outbox' = outbox /\ replay' = replay => InsideSends'
  BY <1>2, <1>3 DEF OnlyInsiders, InsideEvents, InsideInboxes, InsideSends
<1>7. announced' = announced /\ log' = log => InsideLogs'
  BY <1>1 DEF OnlyInsiders, InsideLogs
<1>8. net' \subseteq net => InsideNet'
  BY <1>4 DEF OnlyInsiders, InsideNet
<1> QED BY <1>1, <1>2, <1>3, <1>4, <1>5, <1>6, <1>7, <1>8 DEF OnlyInsiders

\* A receive loop that goes back to its poll, or that is about to add or announce an
\* insider, is that of a state with insiders only.
LEMMA LoopToInsiders ==
    ASSUME TypeOK, OnlyInsiders, invited' = invited, NEW p \in Peers, NEW l,
           recvLoop' = [recvLoop EXCEPT ![p] = l],
           \/ l = Loop(p)
           \/ p \in Insiders /\ \E q \in Insiders : l = [at |-> "addPeer", peer |-> q]
           \/ \E ev : ev.peer \in Insiders /\ l = [at |-> "emit", event |-> ev]
           \/ \E m \in InsideInbox(p) : l = [at |-> "makeRoom", msg |-> m]
    PROVE  InsideLoops'
<1>1. /\ l.at = "addPeer" => {p, l.peer} \subseteq Insiders
      /\ l.at = "emit" => l.event.peer \in Insiders
      /\ l.at = "makeRoom" => l.msg \in InsideInbox(p)
  BY DEF Loop, Polling, Stopped
<1> QED BY <1>1, InsideFrame DEF TypeOK, OnlyInsiders, InsideLoops

LEMMA OnlyInsidersStep == TypeOK /\ OnlyInsiders /\ [Next]_vars => OnlyInsiders'
<1> SUFFICES ASSUME TypeOK, OnlyInsiders, [Next]_vars PROVE OnlyInsiders'
  OBVIOUS
<1> USE HostIsPeer
<1>1. ASSUME NEW p \in Peers, Join(p) PROVE OnlyInsiders'
  <2>1. Honest([kind |-> "hello", to |-> Host, from |-> p, invited |-> p \in invited])
    BY <1>1 DEF Join, Honest
  <2>2. InsideNet'
    BY <1>1, <2>1, InsideFrame, InTransitOnly DEF OnlyInsiders, InsideNet, Join
  <2> QED BY <1>1, <2>2, InsideFrame DEF OnlyInsiders, Join, transport, engine
<1>2. ASSUME NEW p \in Peers, NEW e \in Entries, Post(p, e) PROVE OnlyInsiders'
  <2>1. InsideLogs'
    BY <1>2, InsideFrame DEF TypeOK, OnlyInsiders, InsideLogs, Post
  <2> QED BY <1>2, <2>1, InsideFrame DEF OnlyInsiders, Post, transport
<1>3. ASSUME NEW p \in Peers, Close(p) PROVE OnlyInsiders'
  BY <1>3, InsideFrame DEF OnlyInsiders, Close, transport, engine
<1>4. ASSUME NEW p \in Peers, NEW q \in farewell[p], SendGoodbye(p, q) PROVE OnlyInsiders'
  <2>1. Honest([kind |-> "goodbye", to |-> q, from |-> p])
    BY DEF Honest
  <2>2. InsideNet'
    BY <1>4, <2>1, InsideFrame, InTransitOnly DEF OnlyInsiders, InsideNet, SendGoodbye
  <2> QED BY <1>4, <2>2, InsideFrame DEF OnlyInsiders, SendGoodbye, transport, engine
<1>5. ASSUME NEW p \in Peers, NEW how \in {"left", "crashed"}, End(p, how) PROVE OnlyInsiders'
  <2>1. InsideTables' /\ InsideRosters'
    BY <1>5, InsideFrame DEF TypeOK, OnlyInsiders, InsideTables, InsideRosters, End
  <2>2. InsideLoops'
    BY <1>5, InsideFrame DEF TypeOK, OnlyInsiders, InsideLoops, End, Stopped
  <2>3. InsideEvents' /\ InsideInboxes'
    BY <1>5, InsideFrame DEF TypeOK, OnlyInsiders, InsideEvents, InsideInboxes, End
  <2>4. InsideSends'
    BY <1>5, InsideFrame DEF TypeOK, OnlyInsiders, InsideSends, End
  <2>5. InsideLogs'
    BY <1>5, InsideFrame DEF TypeOK, OnlyInsiders, InsideLogs, End
  <2> QED BY <1>5, <2>1, <2>2, <2>3, <2>4, <2>5, InsideFrame DEF OnlyInsiders, End
<1>6. ASSUME NEW p \in Peers, NEW m \in net, HandleHello(p, m) PROVE OnlyInsiders'
  <2>1. m.from \in Joiners /\ (m.invited => m.from \in invited) /\ p = Host
    BY <1>6 DEF OnlyInsiders, InsideNet, Honest, HandleHello
  <2>2. Honest([kind |-> "hello_ack", to |-> m.from, from |-> p, accepted |-> Accepted(m)])
    BY <2>1 DEF Honest, Accepted
  <2>3. InsideNet'
    BY <1>6, <2>2, InsideFrame, InTransitOnly DEF OnlyInsiders, InsideNet, HandleHello
  <2>4. InsideLoops'
    BY <1>6, <2>1, LoopToInsiders DEF HandleHello, Accepted, Insiders
  <2> QED BY <1>6, <2>3, <2>4, InsideFrame DEF OnlyInsiders, HandleHello, engine
<1>7. ASSUME NEW p \in Peers, NEW m \in net, HandleHelloAck(p, m) PROVE OnlyInsiders'
  <2>1. m.from = Host /\ m.to = p /\ (m.accepted => p \in invited)
    BY <1>7 DEF OnlyInsiders, InsideNet, Honest, HandleHelloAck, Arrives
  <2>2. InsideLoops'
    BY <1>7, <2>1, LoopToInsiders DEF HandleHelloAck, Insiders
  <2> QED BY <1>7, <2>2, InsideFrame DEF OnlyInsiders, HandleHelloAck, engine
<1>8. ASSUME NEW p \in Peers, AddPeer(p) PROVE OnlyInsiders'
  <2>1. {p, recvLoop[p].peer} \subseteq Insiders
    BY <1>8 DEF OnlyInsiders, InsideLoops, AddPeer
  <2>2. InsideTables'
    BY <1>8, <2>1, InsideFrame DEF TypeOK, OnlyInsiders, InsideTables, AddPeer
  <2>3. InsideLoops'
    BY <1>8, <2>1, LoopToInsiders DEF AddPeer
  <2> QED BY <1>8, <2>2, <2>3, InsideFrame DEF OnlyInsiders, AddPeer, engine
<1>9. ASSUME NEW p \in Peers, NEW m \in net, HandleGoodbye(p, m) PROVE OnlyInsiders'
  <2>1. InsideTables'
    BY <1>9, InsideFrame DEF TypeOK, OnlyInsiders, InsideTables, HandleGoodbye
  <2>2. m.from \in table[p] => m.from \in Insiders
    BY DEF OnlyInsiders, InsideTables
  <2>3. InsideLoops'
    BY <1>9, <2>2, LoopToInsiders DEF HandleGoodbye
  <2> QED BY <1>9, <2>1, <2>3, InsideFrame DEF OnlyInsiders, HandleGoodbye, engine
<1>10. ASSUME NEW p \in Peers, EmitEvent(p) PROVE OnlyInsiders'
  <2>1. recvLoop[p].event \in InsideEvent
    BY <1>10, LoopShapes DEF OnlyInsiders, InsideLoops, EmitEvent, Event, InsideEvent
  <2>2. Append(events[p], recvLoop[p].event) \in Seq(InsideEvent)
    BY <2>1, AppendProperties DEF OnlyInsiders, InsideEvents
  <2>3. InsideEvents'
    BY <1>10, <2>2, InsideFrame DEF TypeOK, OnlyInsiders, InsideEvents, EmitEvent
  <2>4. InsideLoops'
    BY <1>10, LoopToInsiders DEF EmitEvent
  <2> QED BY <1>10, <2>3, <2>4, InsideFrame DEF OnlyInsiders, EmitEvent, engine
<1>11. ASSUME NEW p \in Peers, NEW m \in net, HandleLogEntry(p, m) PROVE OnlyInsiders'
  <2>1. m \in InsideInbox(p)
    BY <1>11 DEF OnlyInsiders, InsideNet, Honest, InsideInbox, HandleLogEntry, Arrives
  <2>2. in[p] \in Seq(InsideInbox(p))
    BY DEF OnlyInsiders, InsideInboxes
  <2>3. in'[p] \in Seq(InsideInbox(p))
    <3>1. in'[p] = Append(in[p], m) \/ in'[p] = in[p]
      BY <1>11 DEF TypeOK, HandleLogEntry
    <3>2. Append(in[p], m) \in Seq(InsideInbox(p))
      BY <2>1, <2>2, AppendProperties
    <3> QED BY <2>2, <3>1, <3>2
  <2>4. \A q \in Peers \ {p} : in'[q] = in[q]
    BY <1>11 DEF TypeOK, HandleLogEntry
  <2>5. InsideInboxes'
    BY <1>11, <2>3, <2>4, InsideFrame DEF OnlyInsiders, InsideInboxes, HandleLogEntry
  <2>6. InsideLoops'
    BY <1>11, <2>1, LoopToInsiders DEF HandleLogEntry
  <2> QED BY <1>11, <2>5, <2>6, InsideFrame DEF OnlyInsiders, HandleLogEntry, engine
<1>19. ASSUME NEW p \in Peers, MakeRoom(p) PROVE OnlyInsiders'
  <2>1. recvLoop[p].msg \in InsideInbox(p) /\ in[p] \in Seq(InsideInbox(p))
    BY <1>19 DEF OnlyInsiders, InsideLoops, InsideInboxes, MakeRoom
  <2>2. in'[p] \in Seq(InsideInbox(p))
    <3>1. CASE in[p] # <<>> /\ in'[p] = Append(Tail(in[p]), recvLoop[p].msg)
      <4>1. Tail(in[p]) \in Seq(InsideInbox(p))
        BY <2>1, <3>1, HeadTailProperties
      <4> QED BY <2>1, <3>1, <4>1, AppendProperties
    <3>2. CASE in'[p] = <<recvLoop[p].msg>>
      BY <2>1, <3>2
    <3> QED BY <1>19, <3>1, <3>2 DEF TypeOK, MakeRoom
  <2>3. \A q \in Peers \ {p} : in'[q] = in[q]
    BY <1>19 DEF TypeOK, MakeRoom
  <2>4. InsideInboxes'
    BY <1>19, <2>2, <2>3, InsideFrame DEF OnlyInsiders, InsideInboxes, MakeRoom
  <2>5. InsideLoops'
    BY <1>19, LoopToInsiders DEF MakeRoom
  <2> QED BY <1>19, <2>4, <2>5, InsideFrame DEF OnlyInsiders, MakeRoom, engine
<1>12. ASSUME NEW p \in Peers, NEW e \in announced[p], Broadcast(p, e) PROVE OnlyInsiders'
  <2>1. /\ e \in Entries /\ AuthorOf[e] = p /\ table[p] \subseteq Peers \cap Insiders
        /\ table[p] # {} => p \in Insiders
    BY DEF TypeOK, OnlyInsiders, InsideTables, InsideLogs
  <2>2. \A q \in table[p] : [kind |-> "log_entry", to |-> q, from |-> p, entry |-> e,
                              via |-> "broadcast"] \in InsideEntry
    BY <2>1 DEF LogEntry, InsideEntry
  <2>3. InsideSends'
    BY <1>12, <2>2, InsideFrame DEF TypeOK, OnlyInsiders, InsideSends, Broadcast, Targets
  <2>4. InsideLogs'
    BY <1>12, InsideFrame DEF TypeOK, OnlyInsiders, InsideLogs, Broadcast
  <2> QED BY <1>12, <2>3, <2>4, InsideFrame DEF OnlyInsiders, Broadcast, transport
<1>13. ASSUME NEW p \in Peers, NEW m \in outbox[p], SendNext(p, m) PROVE OnlyInsiders'
  <2>1. Honest(m)
    BY DEF OnlyInsiders, InsideSends, InsideEntry, LogEntry, Honest
  <2>2. InsideNet'
    BY <1>13, <2>1, InsideFrame, InTransitOnly DEF OnlyInsiders, InsideNet, SendNext
  <2>3. InsideSends'
    BY <1>13, InsideFrame DEF TypeOK, OnlyInsiders, InsideSends, SendNext
  <2> QED BY <1>13, <2>2, <2>3, InsideFrame DEF OnlyInsiders, SendNext, transport
<1>14. ASSUME NEW p \in Peers, ApplyEntry(p) PROVE OnlyInsiders'
  <2>1. in[p] \in Seq(InsideInbox(p)) /\ in[p] # <<>>
    BY <1>14 DEF OnlyInsiders, InsideInboxes, ApplyEntry
  <2>2. Head(in[p]) \in InsideInbox(p) /\ Tail(in[p]) \in Seq(InsideInbox(p))
    BY <2>1, HeadTailProperties
  <2>3. {p, AuthorOf[Head(in[p]).entry]} \subseteq Insiders
    BY <2>2 DEF InsideInbox, InsideEntry
  <2>4. InsideLogs'
    BY <1>14, <2>3, InsideFrame DEF TypeOK, OnlyInsiders, InsideLogs, ApplyEntry
  <2>5. InsideInboxes'
    BY <1>14, <2>2, InsideFrame DEF TypeOK, OnlyInsiders, InsideInboxes, ApplyEntry
  <2> QED BY <1>14, <2>4, <2>5, InsideFrame DEF OnlyInsiders, ApplyEntry
<1>15. ASSUME NEW p \in Peers, Track(p) PROVE OnlyInsiders'
  <2>1. Head(events[p]) \in InsideEvent /\ Tail(events[p]) \in Seq(InsideEvent)
    BY <1>15, HeadTailProperties DEF OnlyInsiders, InsideEvents, Track
  <2>2. Head(events[p]).peer \in Insiders
    BY <2>1 DEF InsideEvent
  <2>3. InsideRosters'
    BY <1>15, <2>2, InsideFrame DEF TypeOK, OnlyInsiders, InsideRosters, Track, Tracked
  <2>4. replay'[p] \subseteq InsideEntry
    <3>1. CASE p = Host
      <4>1. /\ Head(events[p]).peer \in Peers /\ log[p] \subseteq Entries
            /\ \A e \in log[p] : AuthorOf[e] \in Insiders
        BY <2>2, <3>1 DEF TypeOK, OnlyInsiders, InsideLogs, Insiders, Peers
      <4>2. ReplayTo(p, Head(events[p]).peer) \subseteq InsideEntry
        BY <2>2, <4>1, AuthorAssumption DEF ReplayTo, LogEntry, InsideEntry
      <4> QED BY <1>15, <4>2 DEF TypeOK, Track
    <3>2. CASE p # Host
      BY <1>15, <3>2 DEF TypeOK, Track
    <3> QED BY <3>1, <3>2
  <2>5. InsideSends'
    BY <1>15, <2>4, InsideFrame DEF TypeOK, OnlyInsiders, InsideSends, Track, engine
  <2>6. InsideEvents'
    BY <1>15, <2>1, InsideFrame DEF TypeOK, OnlyInsiders, InsideEvents, Track
  <2> QED BY <1>15, <2>3, <2>5, <2>6, InsideFrame DEF OnlyInsiders, Track, engine
<1>16. ASSUME NEW p \in Peers, NEW m \in replay[p], SendReplay(p, m) PROVE OnlyInsiders'
  <2>1. Honest(m)
    BY DEF OnlyInsiders, InsideSends, InsideEntry, LogEntry, Honest
  <2>2. InsideNet'
    BY <1>16, <2>1, InsideFrame, InTransitOnly DEF OnlyInsiders, InsideNet, SendReplay
  <2>3. InsideSends'
    BY <1>16, InsideFrame DEF TypeOK, OnlyInsiders, InsideSends, SendReplay, engine
  <2> QED BY <1>16, <2>2, <2>3, InsideFrame DEF OnlyInsiders, SendReplay, transport, engine
<1>17. ASSUME NEW m \in net, Lose(m) PROVE OnlyInsiders'
  BY <1>17, InsideFrame DEF OnlyInsiders, Lose, transport, engine
<1>18. CASE UNCHANGED vars
  BY <1>18, InsideFrame DEF OnlyInsiders, vars, transport, engine
<1> QED
  BY <1>1, <1>2, <1>3, <1>4, <1>5, <1>6, <1>7, <1>8, <1>9, <1>10, <1>11, <1>12, <1>13, <1>14,
     <1>15, <1>16, <1>17, <1>18, <1>19
  DEF Next, RecvStep, Receive, EngineStep, TrackStep, CloseStep, Exit, Crash

\* Whatever an uninvited peer posts or receives, it sees no entry of others and its own
\* are nowhere else (the token check of handleHello, axl.go 389-405).
THEOREM SessionUninvitedStayOut == Spec => []UninvitedStayOut
<1>1. Init => TypeOK /\ OnlyInsiders
  BY TypeInit, OnlyInsidersInit
<1>2. (TypeOK /\ OnlyInsiders) /\ [Next]_vars => (TypeOK /\ OnlyInsiders)'
  BY TypeStep, OnlyInsidersStep
<1>3. OnlyInsiders => UninvitedStayOut
  BY InsidersOnlyTakePart
<1> QED BY <1>1, <1>2, <1>3, PTL DEF Spec

----
(* What the host and a joiner know of each other.                          *)

\* A peer that has not joined yet is unknown to everyone, and knows nobody.
NotYetKnown ==
    \A j \in Joiners : life[j] = "out" =>
       /\ table[j] = {} /\ recvLoop[j] = Polling
       /\ j \notin table[Host] /\ recvLoop[Host] # [at |-> "addPeer", peer |-> j]
       /\ \A m \in net : /\ m.kind = "hello" => m.from # j
                         /\ m.kind = "hello_ack" => m.to # j

GoodbyesAreMeant ==
    \A m \in net : m.kind = "goodbye" => life[m.from] \in {"closing", "left", "crashed"}

\* The host has taken j in, whether j knows already or will.
TakenIn(j) ==
    \/ table[j] # {}
    \/ recvLoop[j].at = "addPeer"
    \/ \E m \in net : m.kind = "hello_ack" /\ m.to = j /\ m.accepted

KnownToHost(j) == j \in table[Host] \/ recvLoop[Host] = [at |-> "addPeer", peer |-> j]

HostTakesJoiners ==
    /\ table[Host] \subseteq Joiners
    /\ recvLoop[Host].at = "addPeer" => recvLoop[Host].peer \in Joiners

Membership ==
    /\ NotYetKnown /\ GoodbyesAreMeant /\ HostTakesJoiners
    /\ \A j \in Joiners : life[j] = "running" /\ life[Host] = "running" /\ TakenIn(j) => KnownToHost(j)

LEMMA MembershipTold == Membership => HostKnowsItsJoiners
BY DEF Membership, HostKnowsItsJoiners, TakenIn, KnownToHost

LEMMA MembershipInit == Init => Membership
BY HostIsPeer, MembersAssumption
DEF Init, Membership, NotYetKnown, GoodbyesAreMeant, HostTakesJoiners, TakenIn, KnownToHost, Polling

LEMMA MembershipFrame ==
    ASSUME Membership, life' = life, table' = table, recvLoop' = recvLoop,
           \A m \in net' : m \in net \/ m.kind = "log_entry"
    PROVE  Membership'
BY DEF Membership, NotYetKnown, GoodbyesAreMeant, HostTakesJoiners, TakenIn, KnownToHost

\* A step of p's receive loop that ends where the loop polls or announces an event
\* changes nothing of that, if the tables stay.
LEMMA MembershipLoop ==
    ASSUME TypeOK, Membership, life' = life, table' = table, net' \subseteq net, NEW p \in Peers, NEW l,
           Alive(p), recvLoop[p].at # "addPeer", l.at # "addPeer",
           recvLoop' = [recvLoop EXCEPT ![p] = l]
    PROVE  Membership'
<1> USE HostIsPeer, MembersAssumption
<1>1. NotYetKnown' /\ GoodbyesAreMeant' /\ HostTakesJoiners'
  BY DEF TypeOK, Membership, NotYetKnown, GoodbyesAreMeant, HostTakesJoiners, Alive
<1>2. \A j \in Joiners : TakenIn(j)' => TakenIn(j)
  BY DEF TypeOK, TakenIn
<1>3. \A j \in Joiners : KnownToHost(j) => KnownToHost(j)'
  BY DEF TypeOK, KnownToHost
<1> QED BY <1>1, <1>2, <1>3 DEF Membership

LEMMA MembershipStep == TypeOK /\ OnlyInsiders /\ Membership /\ [Next]_vars => Membership'
<1> SUFFICES ASSUME TypeOK, OnlyInsiders, Membership, [Next]_vars PROVE Membership'
  OBVIOUS
<1> USE HostIsPeer, MembersAssumption
<1>0. \A q \in Peers : Loop(q).at # "addPeer"
  BY DEF Loop, Polling, Stopped
<1>1. ASSUME NEW p \in Peers, Join(p) PROVE Membership'
  <2>1. NotYetKnown' /\ GoodbyesAreMeant' /\ HostTakesJoiners'
    BY <1>1, InTransitOnly
    DEF TypeOK, Membership, NotYetKnown, GoodbyesAreMeant, HostTakesJoiners, Join, transport
  <2>2. \A j \in Joiners : TakenIn(j)' => TakenIn(j) /\ life[j] # "out"
    <3>1. \A j \in Joiners : TakenIn(j)' => TakenIn(j)
      BY <1>1, InTransitOnly DEF TakenIn, Join, transport
    <3>2. ASSUME NEW j \in Joiners, life[j] = "out" PROVE ~TakenIn(j)
      <4>1. /\ table[j] = {} /\ recvLoop[j] = Polling
            /\ \A m \in net : m.kind = "hello_ack" => m.to # j
        BY <3>2 DEF Membership, NotYetKnown
      <4>2. Polling.at # "addPeer"
        BY DEF Polling
      <4> QED BY <4>1, <4>2 DEF TakenIn
    <3> QED BY <3>1, <3>2
  <2>3. \A j \in Joiners : KnownToHost(j) => KnownToHost(j)'
    BY <1>1 DEF KnownToHost, Join, transport
  <2> QED BY <1>1, <2>1, <2>2, <2>3 DEF TypeOK, Membership, Join
<1>2. ASSUME NEW p \in Peers, NEW e \in Entries, Post(p, e) PROVE Membership'
  BY <1>2, MembershipFrame DEF Post, transport
<1>3. ASSUME NEW p \in Peers, Close(p) PROVE Membership'
  <2>1. NotYetKnown' /\ GoodbyesAreMeant' /\ HostTakesJoiners'
    BY <1>3 DEF TypeOK, Membership, NotYetKnown, GoodbyesAreMeant, HostTakesJoiners, Close, transport
  <2>2. \A j \in Joiners : (TakenIn(j)' <=> TakenIn(j)) /\ (KnownToHost(j)' <=> KnownToHost(j))
    BY <1>3 DEF TakenIn, KnownToHost, Close, transport
  <2> QED BY <1>3, <2>1, <2>2 DEF TypeOK, Membership, Close
<1>4. ASSUME NEW p \in Peers, NEW q \in farewell[p], SendGoodbye(p, q) PROVE Membership'
  <2>1. NotYetKnown' /\ GoodbyesAreMeant' /\ HostTakesJoiners'
    BY <1>4, InTransitOnly
    DEF Membership, NotYetKnown, GoodbyesAreMeant, HostTakesJoiners, SendGoodbye, transport
  <2>2. \A j \in Joiners : (TakenIn(j)' => TakenIn(j)) /\ (KnownToHost(j)' <=> KnownToHost(j))
    BY <1>4, InTransitOnly DEF TakenIn, KnownToHost, SendGoodbye, transport
  <2> QED BY <1>4, <2>1, <2>2 DEF Membership, SendGoodbye
<1>5. ASSUME NEW p \in Peers, NEW how \in {"left", "crashed"}, End(p, how), Alive(p)
      PROVE  Membership'
  <2>1. NotYetKnown' /\ GoodbyesAreMeant' /\ HostTakesJoiners'
    <3>1. NotYetKnown'
      BY <1>5 DEF TypeOK, Membership, NotYetKnown, End, Alive, Stopped
    <3>2. GoodbyesAreMeant'
      <4> SUFFICES ASSUME NEW m \in net', m.kind = "goodbye"
                   PROVE  life'[m.from] \in {"closing", "left", "crashed"}
        BY DEF GoodbyesAreMeant
      <4>1. m \in net /\ life[m.from] \in {"closing", "left", "crashed"}
        BY <1>5 DEF Membership, GoodbyesAreMeant, End
      <4> QED BY <1>5, <4>1 DEF TypeOK, End
    <3>3. HostTakesJoiners'
      BY <1>5 DEF TypeOK, Membership, HostTakesJoiners, End, Stopped
    <3> QED BY <3>1, <3>2, <3>3
  <2>2. ASSUME NEW j \in Joiners, life'[j] = "running", life'[Host] = "running", TakenIn(j)'
        PROVE  KnownToHost(j)'
    <3>1. j # p /\ Host # p
      BY <1>5, <2>2 DEF TypeOK, End
    <3>2. TakenIn(j) /\ life[j] = "running" /\ life[Host] = "running"
      BY <1>5, <2>2, <3>1 DEF TypeOK, End, TakenIn
    <3> QED BY <1>5, <3>1, <3>2 DEF TypeOK, Membership, End, KnownToHost
  <2> QED BY <2>1, <2>2 DEF Membership
<1>6. ASSUME NEW p \in Peers, NEW m \in net, HandleHello(p, m) PROVE Membership'
  <2>1. m.from \in Joiners /\ p = Host /\ recvLoop[Host] = Polling /\ life[m.from] # "out"
    BY <1>6 DEF OnlyInsiders, InsideNet, Honest, Membership, NotYetKnown, HandleHello, Arrives
  <2>2. NotYetKnown'
    BY <1>6, <1>0, <2>1, InTransitOnly DEF TypeOK, Membership, NotYetKnown, HandleHello
  <2>3. GoodbyesAreMeant' /\ HostTakesJoiners'
    BY <1>6, <1>0, <2>1, InTransitOnly
    DEF TypeOK, Membership, GoodbyesAreMeant, HostTakesJoiners, HandleHello
  <2>4. \A j \in Joiners : KnownToHost(j) => KnownToHost(j)'
    BY <1>6, <2>1 DEF TypeOK, KnownToHost, HandleHello, Polling
  <2>5. \A j \in Joiners : TakenIn(j)' => TakenIn(j) \/ KnownToHost(j)'
    BY <1>6, <2>1, InTransitOnly DEF TypeOK, TakenIn, KnownToHost, HandleHello
  <2> QED BY <1>6, <2>2, <2>3, <2>4, <2>5 DEF Membership, HandleHello
<1>7. ASSUME NEW p \in Peers, NEW m \in net, HandleHelloAck(p, m) PROVE Membership'
  <2>1. p \in Joiners /\ m.to = p /\ life[p] # "out"
    BY <1>7 DEF OnlyInsiders, InsideNet, Honest, HandleHelloAck, Arrives, Alive
  <2>2. NotYetKnown' /\ GoodbyesAreMeant' /\ HostTakesJoiners'
    BY <1>7, <2>1
    DEF TypeOK, Membership, NotYetKnown, GoodbyesAreMeant, HostTakesJoiners, HandleHelloAck
  <2>3. \A j \in Joiners : TakenIn(j)' => TakenIn(j)
    BY <1>7, <1>0, <2>1 DEF TypeOK, TakenIn, HandleHelloAck
  <2>4. \A j \in Joiners : KnownToHost(j)' <=> KnownToHost(j)
    BY <1>7, <2>1 DEF TypeOK, KnownToHost, HandleHelloAck
  <2> QED BY <1>7, <2>2, <2>3, <2>4 DEF Membership, HandleHelloAck
<1>8. ASSUME NEW p \in Peers, AddPeer(p) PROVE Membership'
  <2>1. recvLoop[p] = [at |-> "addPeer", peer |-> recvLoop[p].peer] /\ recvLoop'[p].at # "addPeer"
    BY <1>8, <1>0, LoopShapes DEF TypeOK, AddPeer
  <2>2. NotYetKnown'
    BY <1>8, <2>1 DEF TypeOK, Membership, NotYetKnown, AddPeer, Alive
  <2>3. GoodbyesAreMeant' /\ HostTakesJoiners'
    BY <1>8, <2>1 DEF TypeOK, Membership, GoodbyesAreMeant, HostTakesJoiners, AddPeer
  <2>4. \A j \in Joiners : TakenIn(j)' => TakenIn(j)
    BY <1>8, <2>1 DEF TypeOK, TakenIn, AddPeer
  <2>5. \A j \in Joiners : KnownToHost(j) => KnownToHost(j)'
    BY <1>8, <2>1 DEF TypeOK, KnownToHost, AddPeer
  <2> QED BY <1>8, <2>2, <2>3, <2>4, <2>5 DEF Membership, AddPeer
<1>9. ASSUME NEW p \in Peers, NEW m \in net, HandleGoodbye(p, m) PROVE Membership'
  <2>1. recvLoop[p] = Polling /\ recvLoop'[p].at # "addPeer" /\ life[m.from] # "running"
    BY <1>9, <1>0 DEF TypeOK, Membership, GoodbyesAreMeant, HandleGoodbye, Arrives
  <2>2. NotYetKnown'
    BY <1>9, <2>1 DEF TypeOK, Membership, NotYetKnown, HandleGoodbye, Arrives, Alive
  <2>3. GoodbyesAreMeant' /\ HostTakesJoiners'
    BY <1>9, <2>1 DEF TypeOK, Membership, GoodbyesAreMeant, HostTakesJoiners, HandleGoodbye
  <2>4. \A j \in Joiners : TakenIn(j)' => TakenIn(j)
    BY <1>9, <2>1 DEF TypeOK, TakenIn, HandleGoodbye
  <2>5. \A j \in Joiners : life[j] = "running" /\ KnownToHost(j) => KnownToHost(j)'
    BY <1>9, <2>1 DEF TypeOK, KnownToHost, HandleGoodbye, Polling
  <2> QED BY <1>9, <2>2, <2>3, <2>4, <2>5 DEF Membership, HandleGoodbye
<1>10. ASSUME NEW p \in Peers, EmitEvent(p) PROVE Membership'
  BY <1>10, <1>0, MembershipLoop DEF EmitEvent
<1>11. ASSUME NEW p \in Peers, NEW m \in net, HandleLogEntry(p, m) PROVE Membership'
  <2>1. /\ recvLoop[p].at # "addPeer" /\ Alive(p) /\ net' \subseteq net
        /\ life' = life /\ table' = table
    BY <1>11 DEF HandleLogEntry, Arrives, Polling
  <2>2. \/ recvLoop' = [recvLoop EXCEPT ![p] = Loop(p)]
        \/ recvLoop' = [recvLoop EXCEPT ![p] = [at |-> "makeRoom", msg |-> m]]
    BY <1>11 DEF HandleLogEntry
  <2> QED BY <2>1, <2>2, <1>0, MembershipLoop
<1>19. ASSUME NEW p \in Peers, MakeRoom(p) PROVE Membership'
  <2>1. /\ recvLoop[p].at # "addPeer" /\ Alive(p) /\ net' \subseteq net
        /\ life' = life /\ table' = table /\ recvLoop' = [recvLoop EXCEPT ![p] = Loop(p)]
    BY <1>19 DEF MakeRoom
  <2> QED BY <2>1, <1>0, MembershipLoop
<1>12. ASSUME NEW p \in Peers, NEW e \in announced[p], Broadcast(p, e) PROVE Membership'
  BY <1>12, MembershipFrame DEF Broadcast, transport
<1>13. ASSUME NEW p \in Peers, NEW m \in outbox[p], SendNext(p, m) PROVE Membership'
  <2>1. m.kind = "log_entry"
    BY DEF TypeOK, LogEntry
  <2> QED BY <1>13, <2>1, MembershipFrame, InTransitOnly DEF SendNext, transport
<1>14. ASSUME NEW p \in Peers, ApplyEntry(p) PROVE Membership'
  BY <1>14, MembershipFrame DEF ApplyEntry
<1>15. ASSUME NEW p \in Peers, Track(p) PROVE Membership'
  BY <1>15, MembershipFrame DEF Track
<1>16. ASSUME NEW p \in Peers, NEW m \in replay[p], SendReplay(p, m) PROVE Membership'
  <2>1. m.kind = "log_entry"
    BY DEF TypeOK, LogEntry
  <2> QED BY <1>16, <2>1, MembershipFrame, InTransitOnly DEF SendReplay, transport
<1>17. ASSUME NEW m \in net, Lose(m) PROVE Membership'
  BY <1>17, MembershipFrame DEF Lose, transport
<1>18. CASE UNCHANGED vars
  BY <1>18, MembershipFrame DEF vars, transport
<1> QED
  BY <1>1, <1>2, <1>3, <1>4, <1>5, <1>6, <1>7, <1>8, <1>9, <1>10, <1>11, <1>12, <1>13, <1>14,
     <1>15, <1>16, <1>17, <1>18, <1>19
  DEF Next, RecvStep, Receive, EngineStep, TrackStep, CloseStep, Exit, Crash, Alive

\* The host answers a joiner and adds it in one handler, and removes it on a goodbye that
\* is sent when the joiner has stopped receiving: who counts the host among its peers is
\* known to it (axl.go 389-426).
THEOREM SessionHostKnowsItsJoiners == Spec => []HostKnowsItsJoiners
<1>1. Init => TypeOK /\ OnlyInsiders /\ Membership
  BY TypeInit, OnlyInsidersInit, MembershipInit
<1>2. (TypeOK /\ OnlyInsiders /\ Membership) /\ [Next]_vars => (TypeOK /\ OnlyInsiders /\ Membership)'
  BY TypeStep, OnlyInsidersStep, MembershipStep
<1>3. Membership => HostKnowsItsJoiners
  BY MembershipTold
<1> QED BY <1>1, <1>2, <1>3, PTL DEF Spec

----
(* The roster that a queue of events leads to.                             *)

\* Event i is the last word on its peer.
IsLast(due, i) == \A k \in DOMAIN due : due[k].peer = due[i].peer => k <= i

\* Every peer with an event has a last one.
LastWords(due) == \A i \in DOMAIN due : \E k \in DOMAIN due : due[k].peer = due[i].peer /\ IsLast(due, k)

About(due, q) == {i \in DOMAIN due : due[i].peer = q /\ IsLast(due, i)}

\* The roster r once all of due is tracked.
After(r, due) == {q \in Peers : IF About(due, q) = {} THEN q \in r
                                ELSE \A i \in About(due, q) : due[i].kind = "joined"}

Due(p) == IF recvLoop[p].at = "emit" THEN Append(events[p], recvLoop[p].event) ELSE events[p]

LEMMA SettledIsAfter == \A p \in Peers : Settled(p) = After(roster[p], Due(p))
BY DEF Settled, After, About, IsLast, Due

LEMMA AppendedIsLast ==
    ASSUME NEW due \in Seq(Event), LastWords(due), NEW ev \in Event, NEW r
    PROVE  LastWords(Append(due, ev)) /\ After(r, Append(due, ev)) = Tracked(After(r, due), ev)
<1> DEFINE n == Len(due) + 1
           longer == Append(due, ev)
<1>1. /\ longer \in Seq(Event) /\ Len(longer) = n /\ longer[n] = ev
      /\ \A i \in 1 .. Len(due) : longer[i] = due[i]
  BY AppendProperties
<1>2. DOMAIN due = 1 .. Len(due) /\ DOMAIN longer = 1 .. n /\ Len(due) \in Nat
  BY <1>1, LenProperties
<1> HIDE DEF longer, n
<1>3. n = Len(due) + 1
  BY DEF n
<1>4. IsLast(longer, n)
  BY <1>2, <1>3 DEF IsLast
<1>5. \A i \in 1 .. Len(due) : IsLast(longer, i) <=> IsLast(due, i) /\ due[i].peer # ev.peer
  BY <1>1, <1>2, <1>3 DEF IsLast
<1>6. LastWords(longer)
  <2> SUFFICES ASSUME NEW i \in 1 .. n
               PROVE  \E k \in 1 .. n : longer[k].peer = longer[i].peer /\ IsLast(longer, k)
    BY <1>2 DEF LastWords
  <2>1. CASE longer[i].peer = ev.peer
    BY <1>1, <1>2, <1>3, <1>4, <2>1
  <2>2. CASE longer[i].peer # ev.peer
    <3>1. i \in 1 .. Len(due) /\ longer[i] = due[i]
      BY <1>1, <1>2, <1>3, <2>2
    <3>2. PICK k \in 1 .. Len(due) : due[k].peer = due[i].peer /\ IsLast(due, k)
      BY <1>2, <3>1 DEF LastWords
    <3>3. k \in 1 .. n /\ longer[k] = due[k] /\ IsLast(longer, k)
      BY <1>1, <1>2, <1>3, <1>5, <2>2, <3>1, <3>2
    <3> QED BY <3>1, <3>2, <3>3
  <2> QED BY <2>1, <2>2
<1>7. About(longer, ev.peer) = {n}
  BY <1>1, <1>2, <1>3, <1>4, <1>5 DEF About
<1>8. ASSUME NEW q, q # ev.peer PROVE About(longer, q) = About(due, q)
  BY <1>1, <1>2, <1>3, <1>5, <1>8 DEF About
<1>9. \A q \in Peers : q \in After(r, longer) <=> q \in Tracked(After(r, due), ev)
  <2> SUFFICES ASSUME NEW q \in Peers
               PROVE  q \in After(r, longer) <=> q \in Tracked(After(r, due), ev)
    OBVIOUS
  <2>1. CASE q = ev.peer
    BY <1>1, <1>7, <2>1 DEF After, Tracked
  <2>2. CASE q # ev.peer
    <3>1. \A i \in About(due, q) : longer[i] = due[i]
      BY <1>1, <1>2 DEF About
    <3> QED BY <1>8, <2>2, <3>1 DEF After, Tracked
  <2> QED BY <2>1, <2>2
<1>10. ev.peer \in Peers
  BY DEF Event
<1> QED BY <1>6, <1>9, <1>10 DEF After, Tracked, longer

LEMMA TrackedFirst ==
    ASSUME NEW due \in Seq(Event), due # <<>>, LastWords(due), NEW r
    PROVE  LastWords(Tail(due)) /\ After(Tracked(r, Head(due)), Tail(due)) = After(r, due)
<1> DEFINE n == Len(due)
           rest == Tail(due)
           ev == Head(due)
<1>1. /\ rest \in Seq(Event) /\ Len(rest) = n - 1 /\ n \in Nat \ {0}
      /\ \A i \in 1 .. n - 1 : rest[i] = due[i + 1]
  BY HeadTailProperties, EmptySeq
<1>2. DOMAIN due = 1 .. n /\ DOMAIN rest = 1 .. n - 1 /\ ev = due[1]
  BY <1>1, LenProperties
<1> HIDE DEF n, rest, ev
<1>3. \A i \in 1 .. n - 1 : IsLast(rest, i) <=> IsLast(due, i + 1)
  <2> SUFFICES ASSUME NEW i \in 1 .. n - 1 PROVE IsLast(rest, i) <=> IsLast(due, i + 1)
    OBVIOUS
  <2>1. ASSUME IsLast(rest, i), NEW k \in 1 .. n, due[k].peer = due[i + 1].peer PROVE k <= i + 1
    <3>1. CASE k = 1
      BY <3>1, <1>1
    <3>2. CASE k # 1
      <4>1. k - 1 \in 1 .. n - 1 /\ rest[k - 1] = due[k] /\ rest[i] = due[i + 1]
        BY <1>1, <3>2
      <4>2. k - 1 <= i
        BY <1>2, <2>1, <4>1 DEF IsLast
      <4> QED BY <1>1, <4>2
    <3> QED BY <3>1, <3>2
  <2>2. ASSUME IsLast(due, i + 1), NEW k \in 1 .. n - 1, rest[k].peer = rest[i].peer PROVE k <= i
    <3>1. k + 1 \in 1 .. n /\ rest[k] = due[k + 1] /\ rest[i] = due[i + 1]
      BY <1>1
    <3>2. k + 1 <= i + 1
      BY <1>2, <2>2, <3>1 DEF IsLast
    <3> QED BY <1>1, <3>2
  <2> QED BY <1>2, <2>1, <2>2 DEF IsLast
<1>4. LastWords(rest)
  <2> SUFFICES ASSUME NEW i \in 1 .. n - 1
               PROVE  \E k \in 1 .. n - 1 : rest[k].peer = rest[i].peer /\ IsLast(rest, k)
    BY <1>2 DEF LastWords
  <2>1. i + 1 \in 1 .. n /\ rest[i] = due[i + 1]
    BY <1>1
  <2>2. PICK k \in 1 .. n : due[k].peer = due[i + 1].peer /\ IsLast(due, k)
    BY <1>2, <2>1 DEF LastWords
  <2>3. k >= i + 1
    BY <1>2, <2>1, <2>2 DEF IsLast
  <2>4. k - 1 \in 1 .. n - 1 /\ (k - 1) + 1 = k
    BY <1>1, <2>3
  <2>5. rest[k - 1] = due[k] /\ IsLast(rest, k - 1)
    BY <1>1, <1>3, <2>2, <2>4
  <2> QED BY <2>1, <2>2, <2>4, <2>5
<1>5. ASSUME NEW q \in Peers PROVE q \in After(Tracked(r, ev), rest) <=> q \in After(r, due)
  <2>1. \A i \in About(rest, q) : i + 1 \in About(due, q) /\ rest[i] = due[i + 1]
    BY <1>1, <1>2, <1>3 DEF About
  <2>2. \A i \in About(due, q) : i = 1 \/ (i - 1 \in About(rest, q) /\ rest[i - 1] = due[i])
    <3> SUFFICES ASSUME NEW i \in About(due, q), i # 1
                 PROVE  i - 1 \in About(rest, q) /\ rest[i - 1] = due[i]
      OBVIOUS
    <3>1. i \in 1 .. n /\ due[i].peer = q /\ IsLast(due, i)
      BY <1>2 DEF About
    <3>2. i - 1 \in 1 .. n - 1 /\ (i - 1) + 1 = i
      BY <1>1, <3>1
    <3>3. rest[i - 1] = due[i] /\ IsLast(rest, i - 1)
      BY <1>1, <1>3, <3>1, <3>2
    <3> QED BY <1>2, <3>1, <3>2, <3>3 DEF About
  <2>3. CASE About(rest, q) # {}
    <3>1. 1 \notin About(due, q)
      <4>1. PICK i : i \in About(rest, q)
        BY <2>3
      <4>2. i + 1 \in 1 .. n /\ due[i + 1].peer = q /\ i \in 1 .. n - 1
        BY <1>2, <2>1, <4>1 DEF About
      <4>3. ~(i + 1 <= 1)
        BY <4>2, <1>1
      <4> QED BY <1>2, <4>2, <4>3 DEF About, IsLast
    <3>2. About(due, q) # {}
      BY <2>1, <2>3
    <3>3. (\A i \in About(rest, q) : rest[i].kind = "joined")
             <=> (\A i \in About(due, q) : due[i].kind = "joined")
      BY <2>1, <2>2, <3>1
    <3> QED BY <2>3, <3>2, <3>3 DEF After
  <2>4. CASE About(rest, q) = {} /\ ev.peer = q
    <3>1. About(due, q) \subseteq {1}
      BY <2>2, <2>4
    <3>2. PICK k \in 1 .. n : due[k].peer = q /\ IsLast(due, k)
      BY <1>1, <1>2, <2>4 DEF LastWords
    <3>3. About(due, q) = {1}
      BY <1>2, <3>1, <3>2 DEF About
    <3>4. q \in After(r, due) <=> ev.kind = "joined"
      BY <1>2, <3>3 DEF After
    <3>5. q \in After(Tracked(r, ev), rest) <=> q \in Tracked(r, ev)
      BY <2>4 DEF After
    <3> QED BY <2>4, <3>4, <3>5 DEF Tracked
  <2>5. CASE About(rest, q) = {} /\ ev.peer # q
    <3>1. About(due, q) = {}
      BY <1>2, <2>2, <2>5 DEF About
    <3> QED BY <2>5, <3>1 DEF After, Tracked
  <2> QED BY <2>3, <2>4, <2>5
<1> QED BY <1>4, <1>5 DEF After, rest, ev

\* What is to be shown inductive: the events of a peer lead its roster to its table.
RostersFollow ==
    \A p \in Peers : /\ LastWords(events[p])
                     /\ ~overflowed[p] => After(roster[p], Due(p)) = table[p]

LEMMA RostersFollowInit == Init => RostersFollow
BY DEF Init, RostersFollow, LastWords, After, About, Due, Polling

LEMMA RostersFollowFrame ==
    ASSUME RostersFollow, events' = events, roster' = roster, table' = table, recvLoop' = recvLoop,
           \A p \in Peers : overflowed[p] => overflowed'[p]
    PROVE  RostersFollow'
BY DEF RostersFollow, Due

\* A receive loop that neither was about to announce an event nor is now.
LEMMA RostersFollowLoop ==
    ASSUME TypeOK, RostersFollow, NEW p \in Peers, NEW l, recvLoop' = [recvLoop EXCEPT ![p] = l],
           recvLoop[p].at # "emit", l.at # "emit", events' = events, roster' = roster, table' = table,
           \A q \in Peers : overflowed[q] => overflowed'[q]
    PROVE  RostersFollow'
<1>1. \A q \in Peers : Due(q)' = Due(q)
  BY DEF TypeOK, Due
<1> QED BY <1>1 DEF RostersFollow

LEMMA RostersFollowStep == TypeOK /\ RostersFollow /\ [Next]_vars => RostersFollow'
<1> SUFFICES ASSUME TypeOK, RostersFollow, [Next]_vars PROVE RostersFollow'
  OBVIOUS
<1>0. \A q \in Peers : Loop(q).at # "emit"
  BY DEF Loop, Polling, Stopped
<1>1. ASSUME NEW p \in Peers, Join(p) PROVE RostersFollow'
  BY <1>1, RostersFollowFrame DEF Join, transport
<1>2. ASSUME NEW p \in Peers, NEW e \in Entries, Post(p, e) PROVE RostersFollow'
  BY <1>2, RostersFollowFrame DEF Post, transport
<1>3. ASSUME NEW p \in Peers, Close(p) PROVE RostersFollow'
  BY <1>3, RostersFollowFrame DEF Close, transport
<1>4. ASSUME NEW p \in Peers, NEW q \in farewell[p], SendGoodbye(p, q) PROVE RostersFollow'
  BY <1>4, RostersFollowFrame DEF SendGoodbye, transport
<1>5. ASSUME NEW p \in Peers, NEW how \in {"left", "crashed"}, End(p, how) PROVE RostersFollow'
  <2>1. /\ events'[p] = <<>> /\ roster'[p] = {} /\ table'[p] = {} /\ recvLoop'[p].at # "emit"
        /\ \A q \in Peers \ {p} : /\ events'[q] = events[q] /\ roster'[q] = roster[q]
                                  /\ table'[q] = table[q] /\ recvLoop'[q] = recvLoop[q]
        /\ overflowed' = overflowed
    BY <1>5 DEF TypeOK, End, Stopped
  <2>2. LastWords(<<>>) /\ After({}, <<>>) = {}
    BY DEF LastWords, After, About
  <2> QED BY <2>1, <2>2 DEF RostersFollow, Due
<1>6. ASSUME NEW p \in Peers, NEW m \in net, HandleHello(p, m) PROVE RostersFollow'
  <2> DEFINE l == IF Accepted(m) THEN [at |-> "addPeer", peer |-> m.from] ELSE Loop(p)
  <2>1. recvLoop[p].at # "emit" /\ l.at # "emit"
    BY <1>6, <1>0 DEF HandleHello, Arrives, Polling
  <2> QED BY <1>6, <2>1, RostersFollowLoop DEF HandleHello
<1>7. ASSUME NEW p \in Peers, NEW m \in net, HandleHelloAck(p, m) PROVE RostersFollow'
  <2> DEFINE l == IF m.accepted THEN [at |-> "addPeer", peer |-> m.from] ELSE Loop(p)
  <2>1. recvLoop[p].at # "emit" /\ l.at # "emit"
    BY <1>7, <1>0 DEF HandleHelloAck, Arrives, Polling
  <2> QED BY <1>7, <2>1, RostersFollowLoop DEF HandleHelloAck
<1>8. ASSUME NEW p \in Peers, AddPeer(p) PROVE RostersFollow'
  <2> DEFINE q == recvLoop[p].peer
             ev == [kind |-> "joined", peer |-> q]
  <2>1. recvLoop[p].at = "addPeer" /\ q \in Peers /\ Due(p) = events[p]
    BY <1>8, LoopShapes DEF AddPeer, Due
  <2>2. CASE q \in table[p]
    <3>1. table' = table /\ recvLoop' = [recvLoop EXCEPT ![p] = Loop(p)]
      BY <1>8, <2>2 DEF TypeOK, AddPeer
    <3> QED BY <1>8, <1>0, <2>1, <3>1, RostersFollowLoop DEF AddPeer
  <2>3. CASE q \notin table[p]
    <3>1. ev \in Event /\ events[p] \in Seq(Event) /\ LastWords(events[p])
      BY <2>1 DEF TypeOK, Event, RostersFollow
    <3>2. After(roster[p], Append(events[p], ev)) = Tracked(After(roster[p], events[p]), ev)
      BY <3>1, AppendedIsLast
    <3>3. recvLoop'[p] = [at |-> "emit", event |-> ev] /\ table'[p] = table[p] \cup {q}
      BY <1>8, <2>3 DEF TypeOK, AddPeer
    <3>4. Due(p)' = Append(events[p], ev)
      BY <1>8, <3>3 DEF AddPeer, Due
    <3>5. \A o \in Peers \ {p} : Due(o)' = Due(o) /\ table'[o] = table[o]
      BY <1>8 DEF TypeOK, AddPeer, Due
    <3>6. ~overflowed[p] => After(roster[p], Due(p)') = table'[p]
      BY <2>1, <3>2, <3>3, <3>4 DEF RostersFollow, Tracked
    <3> QED BY <1>8, <3>5, <3>6 DEF RostersFollow, AddPeer
  <2> QED BY <2>2, <2>3
<1>9. ASSUME NEW p \in Peers, NEW m \in net, HandleGoodbye(p, m) PROVE RostersFollow'
  <2> DEFINE ev == [kind |-> "left", peer |-> m.from]
  <2>1. recvLoop[p].at # "emit" /\ m.from \in Peers /\ Due(p) = events[p]
    BY <1>9, MessageShapes DEF TypeOK, HandleGoodbye, Arrives, Polling, Due
  <2>2. CASE m.from \notin table[p]
    <3>1. table' = table /\ recvLoop' = [recvLoop EXCEPT ![p] = Loop(p)]
      BY <1>9, <2>2 DEF TypeOK, HandleGoodbye
    <3> QED BY <1>9, <1>0, <2>1, <3>1, RostersFollowLoop DEF HandleGoodbye
  <2>3. CASE m.from \in table[p]
    <3>1. ev \in Event /\ events[p] \in Seq(Event) /\ LastWords(events[p])
      BY <2>1 DEF TypeOK, Event, RostersFollow
    <3>2. After(roster[p], Append(events[p], ev)) = Tracked(After(roster[p], events[p]), ev)
      BY <3>1, AppendedIsLast
    <3>3. recvLoop'[p] = [at |-> "emit", event |-> ev] /\ table'[p] = table[p] \ {m.from}
      BY <1>9, <2>3 DEF TypeOK, HandleGoodbye
    <3>4. Due(p)' = Append(events[p], ev)
      BY <1>9, <3>3 DEF HandleGoodbye, Due
    <3>5. \A o \in Peers \ {p} : Due(o)' = Due(o) /\ table'[o] = table[o]
      BY <1>9 DEF TypeOK, HandleGoodbye, Due
    <3>6. ~overflowed[p] => After(roster[p], Due(p)') = table'[p]
      BY <2>1, <3>2, <3>3, <3>4 DEF RostersFollow, Tracked
    <3> QED BY <1>9, <3>5, <3>6 DEF RostersFollow, HandleGoodbye
  <2> QED BY <2>2, <2>3
<1>10. ASSUME NEW p \in Peers, EmitEvent(p) PROVE RostersFollow'
  <2>1. recvLoop[p].at = "emit" /\ recvLoop[p].event \in Event /\ events[p] \in Seq(Event)
    BY <1>10, LoopShapes DEF TypeOK, EmitEvent
  <2>2. LastWords(Append(events[p], recvLoop[p].event))
    BY <2>1, AppendedIsLast DEF RostersFollow
  <2>3. recvLoop'[p].at # "emit"
    BY <1>10, <1>0 DEF TypeOK, EmitEvent
  <2>4. \A q \in Peers \ {p} : /\ events'[q] = events[q] /\ recvLoop'[q] = recvLoop[q]
                               /\ overflowed'[q] = overflowed[q]
    BY <1>10 DEF TypeOK, EmitEvent
  <2>5. \/ events'[p] = Append(events[p], recvLoop[p].event) /\ overflowed'[p] = overflowed[p]
        \/ events'[p] = events[p] /\ overflowed'[p]
    BY <1>10 DEF TypeOK, EmitEvent
  <2>6. LastWords(events'[p]) /\ (~overflowed'[p] => After(roster[p], Due(p)') = table[p])
    BY <2>1, <2>2, <2>3, <2>5 DEF RostersFollow, Due
  <2>7. \A q \in Peers \ {p} : Due(q)' = Due(q)
    BY <2>4 DEF Due
  <2> QED BY <1>10, <2>4, <2>6, <2>7 DEF RostersFollow, EmitEvent
<1>11. ASSUME NEW p \in Peers, NEW m \in net, HandleLogEntry(p, m) PROVE RostersFollow'
  <2>1. recvLoop[p].at # "emit"
    BY <1>11 DEF HandleLogEntry, Arrives, Polling
  <2>2. \/ recvLoop' = [recvLoop EXCEPT ![p] = Loop(p)]
        \/ recvLoop' = [recvLoop EXCEPT ![p] = [at |-> "makeRoom", msg |-> m]]
    BY <1>11 DEF HandleLogEntry
  <2>3. [at |-> "makeRoom", msg |-> m].at # "emit"
    OBVIOUS
  <2>4. UNCHANGED <<events, roster, table, overflowed>>
    BY <1>11 DEF HandleLogEntry
  <2> QED BY <1>0, <2>1, <2>2, <2>3, <2>4, RostersFollowLoop
<1>19. ASSUME NEW p \in Peers, MakeRoom(p) PROVE RostersFollow'
  <2>1. recvLoop[p].at # "emit"
    BY <1>19 DEF MakeRoom
  <2>2. overflowed' = overflowed \/ overflowed' = [overflowed EXCEPT ![p] = TRUE]
    BY <1>19 DEF MakeRoom
  <2>3. \A q \in Peers : overflowed[q] => overflowed'[q]
    BY <2>2 DEF TypeOK
  <2> QED BY <1>19, <1>0, <2>1, <2>3, RostersFollowLoop DEF MakeRoom
<1>12. ASSUME NEW p \in Peers, NEW e \in announced[p], Broadcast(p, e) PROVE RostersFollow'
  BY <1>12, RostersFollowFrame DEF Broadcast, transport
<1>13. ASSUME NEW p \in Peers, NEW m \in outbox[p], SendNext(p, m) PROVE RostersFollow'
  BY <1>13, RostersFollowFrame DEF SendNext, transport
<1>14. ASSUME NEW p \in Peers, ApplyEntry(p) PROVE RostersFollow'
  BY <1>14, RostersFollowFrame DEF ApplyEntry
<1>15. ASSUME NEW p \in Peers, Track(p) PROVE RostersFollow'
  <2> DEFINE ev == Head(events[p])
  <2>1. /\ events[p] \in Seq(Event) /\ events[p] # <<>> /\ LastWords(events[p])
        /\ events'[p] = Tail(events[p]) /\ roster'[p] = Tracked(roster[p], ev)
        /\ \A q \in Peers \ {p} : events'[q] = events[q] /\ roster'[q] = roster[q]
    BY <1>15 DEF TypeOK, RostersFollow, Track
  <2>2. LastWords(events'[p])
    BY <2>1, TrackedFirst
  <2>3. After(roster'[p], Due(p)') = After(roster[p], Due(p))
    <3>1. CASE recvLoop[p].at # "emit"
      <4>1. Due(p)' = Tail(events[p]) /\ Due(p) = events[p]
        BY <1>15, <2>1, <3>1 DEF Track, Due
      <4> QED BY <2>1, <4>1, TrackedFirst
    <3>2. CASE recvLoop[p].at = "emit"
      <4> DEFINE new == recvLoop[p].event
      <4>1. new \in Event
        BY <3>2, LoopShapes
      <4>2. Due(p)' = Append(Tail(events[p]), new) /\ Due(p) = Append(events[p], new)
        BY <1>15, <2>1, <3>2 DEF Track, Due
      <4>3. Tail(events[p]) \in Seq(Event) /\ LastWords(Tail(events[p]))
        BY <2>1, HeadTailProperties, TrackedFirst
      <4>4. After(roster'[p], Append(Tail(events[p]), new))
               = Tracked(After(roster'[p], Tail(events[p])), new)
        BY <4>1, <4>3, AppendedIsLast
      <4>5. After(roster[p], Append(events[p], new)) = Tracked(After(roster[p], events[p]), new)
        BY <2>1, <4>1, AppendedIsLast
      <4>6. After(roster'[p], Tail(events[p])) = After(roster[p], events[p])
        BY <2>1, TrackedFirst
      <4> QED BY <4>2, <4>4, <4>5, <4>6
    <3> QED BY <3>1, <3>2
  <2>4. \A q \in Peers \ {p} : Due(q)' = Due(q)
    BY <1>15, <2>1 DEF Track, Due
  <2>5. table' = table /\ overflowed' = overflowed
    BY <1>15 DEF Track
  <2> QED BY <2>1, <2>2, <2>3, <2>4, <2>5 DEF RostersFollow
<1>16. ASSUME NEW p \in Peers, NEW m \in replay[p], SendReplay(p, m) PROVE RostersFollow'
  BY <1>16, RostersFollowFrame DEF SendReplay, transport
<1>17. ASSUME NEW m \in net, Lose(m) PROVE RostersFollow'
  BY <1>17, RostersFollowFrame DEF Lose, transport
<1>18. CASE UNCHANGED vars
  BY <1>18, RostersFollowFrame DEF vars, transport
<1> QED
  BY <1>1, <1>2, <1>3, <1>4, <1>5, <1>6, <1>7, <1>8, <1>9, <1>10, <1>11, <1>12, <1>13, <1>14,
     <1>15, <1>16, <1>17, <1>18, <1>19
  DEF Next, RecvStep, Receive, EngineStep, TrackStep, CloseStep, Exit, Crash

\* The session's own peer table catches up with the transport's, unless the event channel
\* has overflowed: events are tracked in the order of the changes they tell of
\* (session.go 55-69, axl.go 442-467).
THEOREM SessionRosterCatchesUp == Spec => []RosterCatchesUp
<1>1. Init => TypeOK /\ RostersFollow
  BY TypeInit, RostersFollowInit
<1>2. (TypeOK /\ RostersFollow) /\ [Next]_vars => (TypeOK /\ RostersFollow)'
  BY TypeStep, RostersFollowStep
<1>3. RostersFollow => RosterCatchesUp
  BY SettledIsAfter DEF RostersFollow, RosterCatchesUp
<1> QED BY <1>1, <1>2, <1>3, PTL DEF Spec

----
(* No gap between the replay of the host's log and its broadcasts.         *)

\* An entry travels under the ID of who posted it.
Signed == {m \in LogEntry : m.from = AuthorOf[m.entry]}

TravelSigned ==
    /\ \A m \in net : m.kind = "log_entry" => m \in Signed
    /\ \A p \in Peers : /\ outbox[p] \subseteq Signed /\ replay[p] \subseteq Signed
                        /\ in[p] \in Seq(Signed)
                        /\ recvLoop[p].at = "makeRoom" => recvLoop[p].msg \in Signed
                        /\ \A e \in announced[p] : AuthorOf[e] = p

LEMMA TravelSignedInit == Init => TravelSigned
BY DEF Init, TravelSigned, Polling

\* A loop that turns to anything else than making room holds no message.
LEMMA OnlyHeldMessages ==
    ASSUME TypeOK, NEW p \in Peers, NEW l, l.at # "makeRoom", recvLoop' = [recvLoop EXCEPT ![p] = l]
    PROVE  \A q \in Peers : recvLoop'[q].at = "makeRoom" => recvLoop'[q] = recvLoop[q]
BY DEF TypeOK

\* What ends the step of each handler but the one of an entry is of that kind.
LEMMA LoopsHoldNothing ==
    /\ \A p : Loop(p).at # "makeRoom"
    /\ \A q : [at |-> "addPeer", peer |-> q].at # "makeRoom"
    /\ \A ev : [at |-> "emit", event |-> ev].at # "makeRoom"
BY DEF Loop, Polling, Stopped

LEMMA TravelSignedFrame ==
    ASSUME TravelSigned, outbox' = outbox, replay' = replay, in' = in, announced' = announced,
           \A p \in Peers : recvLoop'[p].at = "makeRoom" => recvLoop'[p] = recvLoop[p],
           \A m \in net' : m \in net \/ m.kind # "log_entry"
    PROVE  TravelSigned'
<1>1. Signed' = Signed
  BY DEF Signed
<1> QED BY <1>1 DEF TravelSigned

LEMMA TravelSignedStep == TypeOK /\ TravelSigned /\ [Next]_vars => TravelSigned'
<1> SUFFICES ASSUME TypeOK, TravelSigned, [Next]_vars PROVE TravelSigned'
  OBVIOUS
<1>0. Signed' = Signed
  BY DEF Signed
<1>1. ASSUME NEW p \in Peers, Join(p) PROVE TravelSigned'
  BY <1>1, InTransitOnly, TravelSignedFrame DEF Join, transport, engine
<1>2. ASSUME NEW p \in Peers, NEW e \in Entries, Post(p, e) PROVE TravelSigned'
  BY <1>0, <1>2 DEF TypeOK, TravelSigned, Post, transport
<1>3. ASSUME NEW p \in Peers, Close(p) PROVE TravelSigned'
  BY <1>3, TravelSignedFrame DEF Close, transport, engine
<1>4. ASSUME NEW p \in Peers, NEW q \in farewell[p], SendGoodbye(p, q) PROVE TravelSigned'
  BY <1>4, InTransitOnly, TravelSignedFrame DEF SendGoodbye, transport, engine
<1>5. ASSUME NEW p \in Peers, NEW how \in {"left", "crashed"}, End(p, how) PROVE TravelSigned'
  BY <1>0, <1>5 DEF TypeOK, TravelSigned, End, Stopped
<1>6. ASSUME NEW p \in Peers, NEW m \in net, HandleHello(p, m) PROVE TravelSigned'
  <2>1. \A q \in Peers : recvLoop'[q].at = "makeRoom" => recvLoop'[q] = recvLoop[q]
    BY <1>6, OnlyHeldMessages, LoopsHoldNothing DEF HandleHello
  <2> QED BY <1>6, <2>1, InTransitOnly, TravelSignedFrame DEF HandleHello, engine
<1>7. ASSUME NEW p \in Peers, NEW m \in net, HandleHelloAck(p, m) PROVE TravelSigned'
  <2>1. \A q \in Peers : recvLoop'[q].at = "makeRoom" => recvLoop'[q] = recvLoop[q]
    BY <1>7, OnlyHeldMessages, LoopsHoldNothing DEF HandleHelloAck
  <2> QED BY <1>7, <2>1, TravelSignedFrame DEF HandleHelloAck, engine
<1>8. ASSUME NEW p \in Peers, AddPeer(p) PROVE TravelSigned'
  <2>1. \A q \in Peers : recvLoop'[q].at = "makeRoom" => recvLoop'[q] = recvLoop[q]
    BY <1>8, OnlyHeldMessages, LoopsHoldNothing DEF AddPeer
  <2> QED BY <1>8, <2>1, TravelSignedFrame DEF AddPeer, engine
<1>9. ASSUME NEW p \in Peers, NEW m \in net, HandleGoodbye(p, m) PROVE TravelSigned'
  <2>1. \A q \in Peers : recvLoop'[q].at = "makeRoom" => recvLoop'[q] = recvLoop[q]
    BY <1>9, OnlyHeldMessages, LoopsHoldNothing DEF HandleGoodbye
  <2> QED BY <1>9, <2>1, TravelSignedFrame DEF HandleGoodbye, engine
<1>10. ASSUME NEW p \in Peers, EmitEvent(p) PROVE TravelSigned'
  <2>1. \A q \in Peers : recvLoop'[q].at = "makeRoom" => recvLoop'[q] = recvLoop[q]
    BY <1>10, OnlyHeldMessages, LoopsHoldNothing DEF EmitEvent
  <2> QED BY <1>10, <2>1, TravelSignedFrame DEF EmitEvent, engine
<1>11. ASSUME NEW p \in Peers, NEW m \in net, HandleLogEntry(p, m) PROVE TravelSigned'
  <2>1. m \in Signed /\ in[p] \in Seq(Signed)
    BY <1>11 DEF TravelSigned, HandleLogEntry
  <2>2. in'[p] \in Seq(Signed) /\ (recvLoop'[p].at = "makeRoom" => recvLoop'[p].msg \in Signed)
    <3>1. in'[p] = Append(in[p], m) \/ in'[p] = in[p]
      BY <1>11 DEF TypeOK, HandleLogEntry
    <3>2. Append(in[p], m) \in Seq(Signed)
      BY <2>1, AppendProperties
    <3>3. recvLoop'[p] = Loop(p) \/ recvLoop'[p] = [at |-> "makeRoom", msg |-> m]
      BY <1>11 DEF TypeOK, HandleLogEntry
    <3> QED BY <2>1, <3>1, <3>2, <3>3, LoopsHoldNothing
  <2>3. \A q \in Peers \ {p} : in'[q] = in[q] /\ recvLoop'[q] = recvLoop[q]
    BY <1>11 DEF TypeOK, HandleLogEntry
  <2> QED BY <1>0, <1>11, <2>2, <2>3 DEF TravelSigned, HandleLogEntry, engine
<1>19. ASSUME NEW p \in Peers, MakeRoom(p) PROVE TravelSigned'
  <2>1. recvLoop[p].msg \in Signed /\ in[p] \in Seq(Signed)
    BY <1>19 DEF TravelSigned, MakeRoom
  <2>2. in'[p] \in Seq(Signed)
    <3>1. CASE in[p] # <<>> /\ in'[p] = Append(Tail(in[p]), recvLoop[p].msg)
      <4>1. Tail(in[p]) \in Seq(Signed)
        BY <2>1, <3>1, HeadTailProperties
      <4> QED BY <2>1, <3>1, <4>1, AppendProperties
    <3>2. CASE in'[p] = <<recvLoop[p].msg>>
      BY <2>1, <3>2
    <3> QED BY <1>19, <3>1, <3>2 DEF TypeOK, MakeRoom
  <2>3. /\ recvLoop'[p].at # "makeRoom"
        /\ \A q \in Peers \ {p} : in'[q] = in[q] /\ recvLoop'[q] = recvLoop[q]
    BY <1>19, LoopsHoldNothing DEF TypeOK, MakeRoom
  <2> QED BY <1>0, <1>19, <2>2, <2>3 DEF TravelSigned, MakeRoom, engine
<1>12. ASSUME NEW p \in Peers, NEW e \in announced[p], Broadcast(p, e) PROVE TravelSigned'
  <2>1. outbox'[p] \subseteq Signed
    <3>1. e \in Entries /\ AuthorOf[e] = p /\ table[p] \subseteq Peers
      BY DEF TypeOK, TravelSigned
    <3> QED BY <1>12, <3>1 DEF TypeOK, Broadcast, Targets, LogEntry, Signed
  <2>2. \A q \in Peers \ {p} : outbox'[q] = outbox[q]
    BY <1>12 DEF TypeOK, Broadcast
  <2>3. \A q \in Peers : announced'[q] \subseteq announced[q]
    BY <1>12 DEF TypeOK, Broadcast
  <2> QED BY <1>0, <1>12, <2>1, <2>2, <2>3 DEF TravelSigned, Broadcast, transport
<1>13. ASSUME NEW p \in Peers, NEW m \in outbox[p], SendNext(p, m) PROVE TravelSigned'
  BY <1>0, <1>13, InTransitOnly DEF TypeOK, TravelSigned, SendNext, transport
<1>14. ASSUME NEW p \in Peers, ApplyEntry(p) PROVE TravelSigned'
  <2>1. Tail(in[p]) \in Seq(Signed)
    BY <1>14, HeadTailProperties DEF TravelSigned, ApplyEntry
  <2> QED BY <1>0, <1>14, <2>1 DEF TypeOK, TravelSigned, ApplyEntry
<1>15. ASSUME NEW p \in Peers, Track(p) PROVE TravelSigned'
  <2>1. Head(events[p]).peer \in Peers /\ log[p] \subseteq Entries
    <3>1. events[p] \in Seq(Event) /\ events[p] # <<>> /\ log[p] \subseteq Entries
      BY <1>15 DEF TypeOK, Track
    <3>2. Head(events[p]) \in Event
      BY <3>1, HeadTailProperties
    <3> QED BY <3>1, <3>2 DEF Event
  <2>2. ReplayTo(p, Head(events[p]).peer) \subseteq Signed
    BY <2>1, AuthorAssumption DEF ReplayTo, LogEntry, Signed
  <2>3. \A q \in Peers : replay'[q] \subseteq Signed
    BY <1>15, <2>2 DEF TypeOK, TravelSigned, Track
  <2> QED BY <1>0, <1>15, <2>3 DEF TravelSigned, Track, engine
<1>16. ASSUME NEW p \in Peers, NEW m \in replay[p], SendReplay(p, m) PROVE TravelSigned'
  BY <1>0, <1>16, InTransitOnly DEF TypeOK, TravelSigned, SendReplay, transport, engine
<1>17. ASSUME NEW m \in net, Lose(m) PROVE TravelSigned'
  BY <1>17, TravelSignedFrame DEF Lose, transport, engine
<1>18. CASE UNCHANGED vars
  BY <1>18, TravelSignedFrame DEF vars, transport, engine
<1> QED
  BY <1>1, <1>2, <1>3, <1>4, <1>5, <1>6, <1>7, <1>8, <1>9, <1>10, <1>11, <1>12, <1>13, <1>14,
     <1>15, <1>16, <1>17, <1>18, <1>19
  DEF Next, RecvStep, Receive, EngineStep, TrackStep, CloseStep, Exit, Crash

\* The host's log only grows, so what it held when a joiner was added is still there.
BacklogHeld == Alive(Host) => \A j \in Joiners : backlog[j] \subseteq log[Host]

LEMMA BacklogHeldStep == TypeOK /\ BacklogHeld /\ [Next]_vars => BacklogHeld'
<1> SUFFICES ASSUME TypeOK, BacklogHeld, [Next]_vars, Alive(Host)' PROVE BacklogHeld'
  BY DEF BacklogHeld
<1> USE HostIsPeer, MembersAssumption
<1>1. ASSUME Alive(Host), log[Host] \subseteq log'[Host], backlog' = backlog PROVE BacklogHeld'
  BY <1>1 DEF BacklogHeld
<1>2. ASSUME NEW p \in Peers, AddPeer(p) PROVE BacklogHeld'
  BY <1>2 DEF TypeOK, BacklogHeld, AddPeer, Alive, engine
<1>3. ASSUME NEW p \in Peers, NEW how \in {"left", "crashed"}, End(p, how) PROVE BacklogHeld'
  BY <1>3 DEF TypeOK, BacklogHeld, End, Alive
<1>4. ASSUME NEW p \in Peers, Join(p) \/ Close(p) PROVE BacklogHeld'
  BY <1>4, <1>1 DEF TypeOK, Join, Close, Alive, engine
<1>5. ASSUME NEW p \in Peers, \E e \in Entries : Post(p, e) PROVE BacklogHeld'
  BY <1>5, <1>1 DEF TypeOK, Post, Alive
<1>6. ASSUME NEW p \in Peers, \E q \in farewell[p] : SendGoodbye(p, q) PROVE BacklogHeld'
  BY <1>6, <1>1 DEF SendGoodbye, Alive, engine
<1>7. ASSUME NEW p \in Peers, EmitEvent(p) \/ MakeRoom(p) \/ \E m \in net : Receive(p, m)
      PROVE  BacklogHeld'
  BY <1>7, <1>1
  DEF EmitEvent, MakeRoom, Receive, HandleHello, HandleHelloAck, HandleGoodbye, HandleLogEntry, Alive, engine
<1>8. ASSUME NEW p \in Peers, EngineStep(p) PROVE BacklogHeld'
  <2>1. \/ log' = log
        \/ log' = [log EXCEPT ![p] = @ \cup {Head(in[p]).entry}]
    BY <1>8 DEF EngineStep, ApplyEntry, Broadcast, SendNext
  <2>2. life' = life /\ backlog' = backlog
    BY <1>8 DEF EngineStep, ApplyEntry, Broadcast, SendNext
  <2>3. log \in [Peers -> SUBSET Entries]
    BY DEF TypeOK
  <2>4. log[Host] \subseteq log'[Host]
    <3>1. CASE log' = log
      BY <3>1
    <3>2. CASE log' = [log EXCEPT ![p] = @ \cup {Head(in[p]).entry}]
      BY <2>3, <3>2
    <3> QED BY <2>1, <3>1, <3>2
  <2> QED BY <1>1, <2>2, <2>4 DEF Alive
<1>9. ASSUME NEW p \in Peers, TrackStep(p) PROVE BacklogHeld'
  BY <1>9, <1>1 DEF TrackStep, Track, SendReplay, Alive, engine
<1>10. ASSUME NEW m \in net, Lose(m) PROVE BacklogHeld'
  BY <1>10, <1>1 DEF Lose, Alive, engine
<1>11. CASE UNCHANGED vars
  BY <1>11, <1>1 DEF vars, Alive, engine
<1> QED
  BY <1>2, <1>3, <1>4, <1>5, <1>6, <1>7, <1>8, <1>9, <1>10, <1>11
  DEF Next, RecvStep, CloseStep, Exit, Crash

\* The host owes an entry to a joiner ...
Owed(e, j) ==
    /\ j \in table[Host] /\ Alive(Host) /\ life[j] = "running"
    /\ lost = 0 /\ ~overflowed[Host] /\ ~overflowed[j]
    /\ e \in log[Host] /\ (AuthorOf[e] = Host \/ e \in backlog[j]) /\ AuthorOf[e] # j

\* ... and the ways it is given.
Carries(m, e, j) == m.kind = "log_entry" /\ m.to = j /\ m.entry = e
Carried(e, j) == \E m \in net \cup outbox[Host] \cup replay[Host] : Carries(m, e, j)
Held(e, j) == recvLoop[j].at = "makeRoom" /\ recvLoop[j].msg.entry = e
Queued(e, j) == Held(e, j) \/ \E i \in DOMAIN in[j] : in[j][i].entry = e
JoinOf(j) == [kind |-> "joined", peer |-> j]
Awaited(j) ==
    \/ \E i \in DOMAIN events[Host] : events[Host][i] = JoinOf(j)
    \/ recvLoop[Host] = [at |-> "emit", event |-> JoinOf(j)]
Served(e, j) == e \in log[j] \/ e \in announced[Host] \/ Carried(e, j) \/ Queued(e, j) \/ Awaited(j)

DebtsServed == \A e \in Entries, j \in Joiners : Owed(e, j) => Served(e, j)

LEMMA NoGapIsDebtsServed ==
    TypeOK /\ HostTakesJoiners /\ DebtsServed => NoGapBetweenReplayAndBroadcast
<1> SUFFICES ASSUME TypeOK, HostTakesJoiners, DebtsServed, NEW j \in table[Host], NEW e \in log[Host],
                    Owed(e, j)
             PROVE  e \in log[j] \/ OnItsWay(e, j)
  BY DEF NoGapBetweenReplayAndBroadcast, Owed
<1>1. e \in Entries /\ j \in Joiners
  BY HostIsPeer DEF TypeOK, HostTakesJoiners
<1>2. Served(e, j)
  BY <1>1 DEF DebtsServed
<1>3. Awaited(j) => \/ JoinOf(j) \in {events[Host][i] : i \in DOMAIN events[Host]}
                    \/ recvLoop[Host] = [at |-> "emit", event |-> JoinOf(j)]
  BY DEF Awaited
<1> QED BY <1>2, <1>3 DEF Served, OnItsWay, Carried, Carries, Queued, Held, JoinOf

\* What is owed after a step that adds nothing to the debts was owed before.
LEMMA OwedBefore ==
    ASSUME TypeOK, NEW e, NEW j \in Joiners, Owed(e, j)',
           table'[Host] \subseteq table[Host], life' = life, lost' = lost, log'[Host] = log[Host],
           backlog' = backlog, \A p \in Peers : overflowed[p] => overflowed'[p]
    PROVE  Owed(e, j)
BY HostIsPeer DEF Owed, Alive

\* What a step does not take away serves as before.
LEMMA ServedFrame ==
    ASSUME NEW e, NEW j \in Joiners, Served(e, j),
           log[j] \subseteq log'[j], announced[Host] \subseteq announced'[Host],
           Carried(e, j) => Carried(e, j)', Queued(e, j) => Queued(e, j)', Awaited(j) => Awaited(j)'
    PROVE  Served(e, j)'
BY DEF Served

\* A step of a receive loop that is not about to make room leaves what is queued.
LEMMA QueuedFrame ==
    ASSUME TypeOK, NEW e, NEW j \in Joiners, in' = in,
           NEW p \in Peers, NEW l, recvLoop[p].at # "makeRoom", recvLoop' = [recvLoop EXCEPT ![p] = l]
    PROVE  Queued(e, j) => Queued(e, j)'
BY HostIsPeer DEF TypeOK, Queued, Held

LEMMA DebtsServedStep ==
    /\ TypeOK /\ OnlyInsiders /\ Membership /\ TravelSigned /\ BacklogHeld /\ DebtsServed
    /\ [Next]_vars
    => DebtsServed'
<1> SUFFICES ASSUME TypeOK, OnlyInsiders, Membership, TravelSigned, BacklogHeld, DebtsServed,
                    [Next]_vars, NEW e \in Entries, NEW j \in Joiners, Owed(e, j)'
             PROVE  Served(e, j)'
  BY DEF DebtsServed
<1> USE HostIsPeer, MembersAssumption
<1>0. j \in Peers /\ j # Host /\ (Owed(e, j) => Served(e, j))
  BY DEF DebtsServed
<1>1. ASSUME NEW p \in Peers, Join(p) PROVE Served(e, j)'
  <2>1. p \in Joiners /\ life[p] = "out"
    BY <1>1 DEF Join
  <2>2. j # p
    BY <1>1, <2>1 DEF Membership, NotYetKnown, Join, transport, Owed
  <2>3. Owed(e, j)
    BY <1>1, <2>1, <2>2 DEF TypeOK, Join, transport, engine, Owed, Alive
  <2> QED BY <1>0, <1>1, <2>3
      DEF Join, transport, engine, Served, Carried, Queued, Held, Awaited, Carries
<1>2. ASSUME NEW p \in Peers, NEW f \in Entries, Post(p, f) PROVE Served(e, j)'
  <2>1. CASE p = Host /\ e = f
    BY <1>2, <2>1 DEF TypeOK, Post, Served
  <2>2. CASE ~(p = Host /\ e = f)
    <3>1. Owed(e, j)
      BY <1>2, <2>2 DEF TypeOK, Post, transport, Owed, Alive
    <3>2. log[j] \subseteq log'[j] /\ announced[Host] \subseteq announced'[Host]
      BY <1>0, <1>2 DEF TypeOK, Post
    <3> QED BY <1>0, <1>2, <3>1, <3>2, ServedFrame DEF Post, transport, Carried, Queued, Held, Awaited
  <2> QED BY <2>1, <2>2
<1>3. ASSUME NEW p \in Peers, Close(p) PROVE Served(e, j)'
  <2>1. Owed(e, j)
    BY <1>0, <1>3 DEF TypeOK, Close, transport, engine, Owed, Alive
  <2> QED BY <1>0, <1>3, <2>1 DEF Close, transport, engine, Served, Carried, Queued, Held, Awaited
<1>4. ASSUME NEW p \in Peers, NEW q \in farewell[p], SendGoodbye(p, q) PROVE Served(e, j)'
  <2>1. Owed(e, j)
    BY <1>4, OwedBefore DEF SendGoodbye, transport, engine
  <2> QED BY <1>0, <1>4, <2>1
      DEF SendGoodbye, transport, engine, Served, Carried, Queued, Held, Awaited, Carries
<1>5. ASSUME NEW p \in Peers, NEW how \in {"left", "crashed"}, End(p, how) PROVE Served(e, j)'
  <2>1. p # Host /\ p # j
    BY <1>0, <1>5 DEF TypeOK, End, Owed, Alive
  <2>2. Owed(e, j)
    BY <1>0, <1>5, <2>1 DEF TypeOK, End, Owed, Alive
  <2>3. Carried(e, j) => Carried(e, j)'
    BY <1>5, <2>1 DEF TypeOK, End, Carried, Carries
  <2>4. (Queued(e, j) => Queued(e, j)') /\ (Awaited(j) => Awaited(j)')
    BY <1>0, <1>5, <2>1 DEF TypeOK, End, Queued, Held, Awaited
  <2>5. log[j] \subseteq log'[j] /\ announced[Host] \subseteq announced'[Host]
    BY <1>0, <1>5, <2>1 DEF TypeOK, End
  <2> QED BY <1>0, <2>2, <2>3, <2>4, <2>5, ServedFrame
<1>6. ASSUME NEW p \in Peers, NEW m \in net, HandleHello(p, m) \/ HandleHelloAck(p, m)
      PROVE  Served(e, j)'
  <2>1. Owed(e, j)
    BY <1>6, OwedBefore DEF HandleHello, HandleHelloAck, engine
  <2>2. Carried(e, j) => Carried(e, j)'
    BY <1>6 DEF HandleHello, HandleHelloAck, engine, Carried, Carries
  <2>3. Awaited(j) => Awaited(j)'
    BY <1>6 DEF TypeOK, HandleHello, HandleHelloAck, Arrives, Polling, Awaited
  <2>4. Queued(e, j) => Queued(e, j)'
    BY <1>6, QueuedFrame DEF HandleHello, HandleHelloAck, Arrives, Polling
  <2> QED BY <1>0, <1>6, <2>1, <2>2, <2>3, <2>4, ServedFrame DEF HandleHello, HandleHelloAck, engine
<1>8. ASSUME NEW p \in Peers, AddPeer(p) PROVE Served(e, j)'
  <2>1. CASE p = Host /\ recvLoop[p].peer = j /\ j \notin table[p]
    BY <1>8, <2>1 DEF TypeOK, AddPeer, Served, Awaited, JoinOf
  <2>2. CASE ~(p = Host /\ recvLoop[p].peer = j /\ j \notin table[p])
    <3>1. j \in table[Host] /\ backlog'[j] = backlog[j]
      BY <1>8, <2>2 DEF TypeOK, AddPeer, Owed
    <3>2. Owed(e, j)
      BY <1>8, <3>1 DEF TypeOK, AddPeer, engine, Owed, Alive
    <3>3. Awaited(j) => Awaited(j)'
      BY <1>8 DEF TypeOK, AddPeer, Awaited
    <3>4. Queued(e, j) => Queued(e, j)'
      BY <1>8, QueuedFrame DEF AddPeer
    <3> QED BY <1>0, <1>8, <3>2, <3>3, <3>4, ServedFrame DEF AddPeer, engine, Carried
  <2> QED BY <2>1, <2>2
<1>9. ASSUME NEW p \in Peers, NEW m \in net, HandleGoodbye(p, m) PROVE Served(e, j)'
  <2>1. table'[Host] \subseteq table[Host]
    BY <1>9 DEF TypeOK, HandleGoodbye
  <2>2. Owed(e, j)
    BY <1>9, <2>1, OwedBefore DEF HandleGoodbye, engine
  <2>3. Carried(e, j) => Carried(e, j)'
    BY <1>9 DEF HandleGoodbye, engine, Carried, Carries
  <2>4. Awaited(j) => Awaited(j)'
    BY <1>9 DEF TypeOK, HandleGoodbye, Arrives, Polling, Awaited
  <2>5. Queued(e, j) => Queued(e, j)'
    <3> DEFINE l == IF m.from \in table[p]
                    THEN [at |-> "emit", event |-> [kind |-> "left", peer |-> m.from]]
                    ELSE Loop(p)
    <3>1. recvLoop[p].at # "makeRoom" /\ recvLoop' = [recvLoop EXCEPT ![p] = l] /\ in' = in
      BY <1>9 DEF HandleGoodbye, Arrives, Polling
    <3> HIDE DEF l
    <3> QED BY <3>1, QueuedFrame
  <2> QED BY <1>0, <1>9, <2>2, <2>3, <2>4, <2>5, ServedFrame DEF HandleGoodbye, engine
<1>10. ASSUME NEW p \in Peers, EmitEvent(p) PROVE Served(e, j)'
  <2>1. \A q \in Peers : overflowed[q] => overflowed'[q]
    <3>1. overflowed' = overflowed \/ overflowed' = [overflowed EXCEPT ![p] = TRUE]
      BY <1>10 DEF EmitEvent
    <3> QED BY <3>1 DEF TypeOK
  <2>2. Owed(e, j)
    BY <1>10, <2>1, OwedBefore DEF EmitEvent, engine
  <2>3. Awaited(j) => Awaited(j)'
    <3>1. CASE p # Host
      BY <1>10, <3>1 DEF TypeOK, EmitEvent, Awaited
    <3>2. CASE p = Host
      <4> DEFINE ev == recvLoop[Host].event
      <4>1. events'[Host] = Append(events[Host], ev)
        BY <1>10, <3>2 DEF TypeOK, EmitEvent, Owed
      <4>2. ev \in Event /\ events[Host] \in Seq(Event)
        BY <1>10, <3>2, LoopShapes DEF TypeOK, EmitEvent
      <4>3. /\ DOMAIN events[Host] = 1 .. Len(events[Host]) /\ Len(events[Host]) \in Nat
            /\ DOMAIN events'[Host] = 1 .. Len(events[Host]) + 1
            /\ events'[Host][Len(events[Host]) + 1] = ev
            /\ \A i \in DOMAIN events[Host] : events'[Host][i] = events[Host][i]
        BY <4>1, <4>2, AppendProperties, LenProperties
      <4>4. ASSUME Awaited(j)
            PROVE  \E i \in DOMAIN events'[Host] : events'[Host][i] = JoinOf(j)
        <5>1. CASE \E i \in DOMAIN events[Host] : events[Host][i] = JoinOf(j)
          BY <4>3, <5>1
        <5>2. CASE recvLoop[Host] = [at |-> "emit", event |-> JoinOf(j)]
          BY <4>3, <5>2
        <5> QED BY <4>4, <5>1, <5>2 DEF Awaited
      <4>5. JoinOf(j)' = JoinOf(j)
        BY DEF JoinOf
      <4> QED BY <4>4, <4>5 DEF Awaited
    <3> QED BY <3>1, <3>2
  <2>4. Queued(e, j) => Queued(e, j)'
    BY <1>10, QueuedFrame DEF EmitEvent
  <2> QED BY <1>0, <1>10, <2>2, <2>3, <2>4, ServedFrame DEF EmitEvent, engine, Carried
<1>11. ASSUME NEW p \in Peers, NEW m \in net, HandleLogEntry(p, m) PROVE Served(e, j)'
  <2>1. Owed(e, j)
    BY <1>11, OwedBefore DEF HandleLogEntry, engine
  <2>2. Awaited(j) => Awaited(j)'
    BY <1>11 DEF TypeOK, HandleLogEntry, Arrives, Polling, Awaited
  <2>3. CASE p # j
    <3>1. Carried(e, j) => Carried(e, j)'
      BY <1>11, <2>3 DEF HandleLogEntry, Arrives, engine, Carried, Carries
    <3>2. in'[j] = in[j] /\ recvLoop'[j] = recvLoop[j]
      BY <1>0, <1>11, <2>3 DEF TypeOK, HandleLogEntry
    <3> QED BY <1>0, <1>11, <2>1, <2>2, <3>1, <3>2, ServedFrame
            DEF HandleLogEntry, engine, Queued, Held
  <2>4. CASE p = j
    <3>1. Queued(e, j) => \E i \in DOMAIN in[j] : in[j][i].entry = e
      BY <1>11, <2>4 DEF HandleLogEntry, Arrives, Polling, Queued, Held
    <3>2. (\E i \in DOMAIN in[j] : in[j][i].entry = e) \/ m.entry = e => Queued(e, j)'
      <4>1. CASE in' = [in EXCEPT ![p] = Append(@, m)]
        <5>1. in'[j] = Append(in[j], m)
          BY <1>0, <2>4, <4>1 DEF TypeOK
        <5>2. m \in Signed /\ in[j] \in Seq(Signed)
          BY <1>0, <1>11 DEF TravelSigned, HandleLogEntry
        <5>3. /\ DOMAIN in[j] = 1 .. Len(in[j]) /\ Len(in[j]) \in Nat
              /\ DOMAIN in'[j] = 1 .. Len(in[j]) + 1
              /\ in'[j][Len(in[j]) + 1] = m
              /\ \A i \in DOMAIN in[j] : in'[j][i] = in[j][i]
          BY <5>1, <5>2, AppendProperties, LenProperties
        <5> QED BY <5>3 DEF Queued
      <4>2. CASE UNCHANGED in /\ recvLoop' = [recvLoop EXCEPT ![p] = [at |-> "makeRoom", msg |-> m]]
        BY <1>0, <2>4, <4>2 DEF TypeOK, Queued, Held
      <4> QED BY <1>11, <4>1, <4>2 DEF HandleLogEntry
    <3>3. Carried(e, j) => Carried(e, j)' \/ m.entry = e
      BY <1>11 DEF HandleLogEntry, engine, Carried, Carries
    <3> QED BY <1>0, <1>11, <2>1, <2>2, <3>1, <3>2, <3>3 DEF HandleLogEntry, engine, Served
  <2> QED BY <2>3, <2>4
<1>19. ASSUME NEW p \in Peers, MakeRoom(p) PROVE Served(e, j)'
  <2>1. \A q \in Peers : overflowed[q] => overflowed'[q]
    <3>1. overflowed' = overflowed \/ overflowed' = [overflowed EXCEPT ![p] = TRUE]
      BY <1>19 DEF MakeRoom
    <3> QED BY <3>1 DEF TypeOK
  <2>2. Owed(e, j)
    BY <1>19, <2>1, OwedBefore DEF MakeRoom, engine
  <2>3. Awaited(j) => Awaited(j)'
    BY <1>19 DEF TypeOK, MakeRoom, Awaited
  <2>4. Queued(e, j) => Queued(e, j)'
    <3>1. CASE p # j
      BY <1>0, <1>19, <3>1 DEF TypeOK, MakeRoom, Queued, Held
    <3>2. CASE p = j
      <4>1. in[j] = <<>> /\ in'[j] = <<recvLoop[j].msg>>
        BY <1>0, <1>19, <3>2 DEF TypeOK, MakeRoom, Owed
      <4>2. Queued(e, j) => recvLoop[j].msg.entry = e
        BY <4>1 DEF Queued, Held
      <4>3. 1 \in DOMAIN in'[j] /\ in'[j][1] = recvLoop[j].msg
        BY <4>1
      <4> QED BY <4>2, <4>3 DEF Queued
    <3> QED BY <3>1, <3>2
  <2> QED BY <1>0, <1>19, <2>2, <2>3, <2>4, ServedFrame DEF MakeRoom, engine, Carried
<1>12. ASSUME NEW p \in Peers, NEW f \in announced[p], Broadcast(p, f) PROVE Served(e, j)'
  <2>1. Owed(e, j)
    BY <1>12, OwedBefore DEF Broadcast, transport
  <2>2. CASE p = Host /\ f = e
    <3> DEFINE m == [kind |-> "log_entry", to |-> j, from |-> p, entry |-> e, via |-> "broadcast"]
    <3>1. m \in outbox'[Host]
      BY <1>12, <2>1, <2>2 DEF TypeOK, Broadcast, Targets, Owed
    <3> QED BY <3>1 DEF Served, Carried, Carries
  <2>3. CASE ~(p = Host /\ f = e)
    <3>1. e \in announced[Host] => e \in announced'[Host]
      BY <1>12, <2>3 DEF TypeOK, Broadcast
    <3>2. Carried(e, j) => Carried(e, j)'
      BY <1>12 DEF TypeOK, Broadcast, EngineFree, Carried, Carries
    <3> QED BY <1>0, <1>12, <2>1, <3>1, <3>2 DEF Broadcast, transport, Served, Queued, Held, Awaited
  <2> QED BY <2>2, <2>3
<1>13. ASSUME NEW p \in Peers, NEW m \in outbox[p], SendNext(p, m) PROVE Served(e, j)'
  <2>1. Owed(e, j)
    BY <1>13, OwedBefore DEF SendNext, transport
  <2>2. Carried(e, j) => Carried(e, j)'
    BY <1>13, <2>1 DEF TypeOK, SendNext, InTransit, Carried, Carries, Owed
  <2> QED BY <1>0, <1>13, <2>1, <2>2, ServedFrame DEF SendNext, transport, Queued, Held, Awaited
<1>14. ASSUME NEW p \in Peers, ApplyEntry(p) PROVE Served(e, j)'
  <2>1. in[p] \in Seq(Signed) /\ in[p] # <<>>
    BY <1>14 DEF TravelSigned, ApplyEntry
  <2>2. /\ Head(in[p]) \in Signed /\ Head(in[p]) = in[p][1]
        /\ Len(in[p]) \in Nat \ {0} /\ DOMAIN in[p] = 1 .. Len(in[p])
        /\ DOMAIN Tail(in[p]) = 1 .. Len(in[p]) - 1
        /\ \A i \in 1 .. Len(in[p]) - 1 : Tail(in[p])[i] = in[p][i + 1]
    BY <2>1, HeadTailProperties, LenProperties, EmptySeq
  <2>3. e \in log[Host]
    <3>1. CASE p = Host /\ e = Head(in[p]).entry /\ Head(in[p]).from # Host
      <4>1. AuthorOf[e] # Host
        BY <2>2, <3>1 DEF Signed
      <4>2. e \in backlog[j] /\ Alive(Host)
        BY <1>14, <4>1 DEF ApplyEntry, Owed, Alive
      <4> QED BY <4>2 DEF BacklogHeld
    <3>2. CASE ~(p = Host /\ e = Head(in[p]).entry /\ Head(in[p]).from # Host)
      BY <1>14, <3>2 DEF TypeOK, ApplyEntry, Owed
    <3> QED BY <3>1, <3>2
  <2>4. Owed(e, j)
    BY <1>14, <2>3 DEF ApplyEntry, Owed, Alive
  <2>5. log[j] \subseteq log'[j]
    BY <1>0, <1>14 DEF TypeOK, ApplyEntry
  <2>6. Queued(e, j) => Queued(e, j)' \/ e \in log'[j]
    <3>1. CASE p # j
      BY <1>0, <1>14, <3>1 DEF TypeOK, ApplyEntry, Queued, Held
    <3>2. CASE p = j
      <4>0. Held(e, j) => Queued(e, j)'
        BY <1>14 DEF ApplyEntry, Queued, Held
      <4> SUFFICES ASSUME NEW i \in 1 .. Len(in[j]), in[j][i].entry = e
                   PROVE  Queued(e, j)' \/ e \in log'[j]
        BY <2>2, <3>2, <4>0 DEF Queued
      <4>1. CASE i = 1
        <5>1. Head(in[j]).entry = e /\ Head(in[j]).from # j
          BY <2>2, <2>4, <3>2, <4>1 DEF Signed, Owed
        <5> QED BY <1>14, <3>2, <5>1 DEF TypeOK, ApplyEntry
      <4>2. CASE i # 1
        <5>1. i - 1 \in 1 .. Len(in[j]) - 1 /\ Tail(in[j])[i - 1] = in[j][i]
          BY <2>2, <3>2, <4>2
        <5>2. in'[j] = Tail(in[j])
          BY <1>14, <3>2 DEF TypeOK, ApplyEntry
        <5> QED BY <2>2, <3>2, <5>1, <5>2 DEF Queued
      <4> QED BY <4>1, <4>2
    <3> QED BY <3>1, <3>2
  <2> QED BY <1>0, <1>14, <2>4, <2>5, <2>6 DEF ApplyEntry, Served, Carried, Awaited
<1>15. ASSUME NEW p \in Peers, Track(p) PROVE Served(e, j)'
  <2>1. Owed(e, j)
    BY <1>15, OwedBefore DEF Track, engine
  <2>2. Carried(e, j) => Carried(e, j)'
    BY <1>15 DEF TypeOK, Track, engine, Carried, Carries
  <2>3. Awaited(j) => Awaited(j)' \/ Carried(e, j)'
    <3>1. CASE p # Host
      BY <1>15, <3>1 DEF TypeOK, Track, Awaited
    <3>2. CASE p = Host
      <4>1. events[Host] \in Seq(Event) /\ events[Host] # <<>>
        BY <1>15, <3>2 DEF TypeOK, Track
      <4>2. /\ Head(events[Host]) = events[Host][1]
            /\ Len(events[Host]) \in Nat \ {0} /\ DOMAIN events[Host] = 1 .. Len(events[Host])
            /\ DOMAIN Tail(events[Host]) = 1 .. Len(events[Host]) - 1
            /\ \A i \in 1 .. Len(events[Host]) - 1 : Tail(events[Host])[i] = events[Host][i + 1]
        BY <4>1, HeadTailProperties, LenProperties, EmptySeq
      <4>3. events'[Host] = Tail(events[Host]) /\ recvLoop' = recvLoop /\ JoinOf(j)' = JoinOf(j)
        BY <1>15, <3>2 DEF TypeOK, Track, JoinOf
      <4>4. CASE events[Host][1] = JoinOf(j)
        <5> DEFINE m == [kind |-> "log_entry", to |-> j, from |-> AuthorOf[e], entry |-> e,
                         via |-> "replay"]
        <5>1. Head(events[Host]).kind = "joined" /\ Head(events[Host]).peer = j /\ e \in log[Host]
          BY <2>1, <4>2, <4>4 DEF JoinOf, Owed
        <5>2. m \in ReplayTo(Host, j)
          BY <5>1 DEF ReplayTo
        <5>3. m \in replay'[Host]
          BY <1>15, <3>2, <5>1, <5>2 DEF TypeOK, Track
        <5> QED BY <5>3 DEF Carried, Carries
      <4>5. ASSUME NEW i \in 1 .. Len(events[Host]), i # 1, events[Host][i] = JoinOf(j)
            PROVE  Awaited(j)'
        <5>1. i - 1 \in 1 .. Len(events[Host]) - 1 /\ Tail(events[Host])[i - 1] = events[Host][i]
          BY <4>2, <4>5
        <5> QED BY <4>2, <4>3, <4>5, <5>1 DEF Awaited
      <4> QED BY <4>2, <4>3, <4>4, <4>5 DEF Awaited
    <3> QED BY <3>1, <3>2
  <2> QED BY <1>0, <1>15, <2>1, <2>2, <2>3 DEF Track, engine, Served, Queued, Held
<1>16. ASSUME NEW p \in Peers, NEW m \in replay[p], SendReplay(p, m) PROVE Served(e, j)'
  <2>1. Owed(e, j)
    BY <1>16, OwedBefore DEF SendReplay, transport, engine
  <2>2. Carried(e, j) => Carried(e, j)'
    BY <1>16, <2>1 DEF TypeOK, SendReplay, engine, InTransit, Carried, Carries, Owed
  <2> QED BY <1>0, <1>16, <2>1, <2>2, ServedFrame DEF SendReplay, transport, engine, Queued, Held, Awaited
<1>17. ASSUME NEW m \in net, Lose(m) PROVE Served(e, j)'
  BY <1>17 DEF TypeOK, Lose, Owed
<1>18. CASE UNCHANGED vars
  <2>1. Owed(e, j)
    BY <1>18, OwedBefore DEF vars, transport, engine
  <2> QED BY <1>0, <1>18, <2>1
      DEF vars, transport, engine, Served, Carried, Queued, Held, Awaited
<1> QED
  BY <1>1, <1>2, <1>3, <1>4, <1>5, <1>6, <1>8, <1>9, <1>10, <1>11, <1>12, <1>13, <1>14,
     <1>15, <1>16, <1>17, <1>18, <1>19
  DEF Next, RecvStep, Receive, EngineStep, TrackStep, CloseStep, Exit, Crash

\* Whatever the order in which the host adds a joiner, tracks it, replays its log, posts and
\* broadcasts, no entry falls between: what is owed to a joiner is in its log or on its way
\* (sync.go 104-154, 160-180; create.go 142-147; axl.go 170-187, 442-454).
THEOREM SessionNoGap == Spec => []NoGapBetweenReplayAndBroadcast
<1> DEFINE Inv == /\ TypeOK /\ OnlyInsiders /\ Membership
                  /\ TravelSigned /\ BacklogHeld /\ DebtsServed
<1>1. Init => Inv
  <2>1. Init => BacklogHeld /\ DebtsServed
    BY HostIsPeer DEF Init, BacklogHeld, DebtsServed, Owed
  <2> QED BY <2>1, TypeInit, OnlyInsidersInit, MembershipInit, TravelSignedInit
<1>2. Inv /\ [Next]_vars => Inv'
  BY TypeStep, OnlyInsidersStep, MembershipStep, TravelSignedStep, BacklogHeldStep, DebtsServedStep
<1>3. Inv => NoGapBetweenReplayAndBroadcast
  BY NoGapIsDebtsServed DEF Membership
<1> QED BY <1>1, <1>2, <1>3, PTL DEF Spec
====
