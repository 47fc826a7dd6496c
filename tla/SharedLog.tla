---- MODULE SharedLog ----
(***************************************************************************)
(* The conversation log as the agents of a session see it: the tools of    *)
(* the MCP server that post an entry (post_to_log, ask_peer and            *)
(* respond_to_peer) and the one that reads them page by page               *)
(* (get_shared_log, internal/mcp/mcp.go), over each peer's copy of the log *)
(* (AppendEntry and EntriesSince, internal/store/store.go).                *)
(*                                                                         *)
(* How an entry gets from peer to peer is in Session; here the network may *)
(* lose, delay, reorder and repeat it, so the messages are a set that only *)
(* grows.  Clocks are arbitrary.  The agent is external: it reads on from  *)
(* the timestamp of the last entry it was given, as the description of     *)
(* since_timestamp tells it to, from the timestamp its own post returned,  *)
(* which is cut to the second, or from the beginning again.                *)
(***************************************************************************)
EXTENDS Naturals, Sequences, FiniteSets

CONSTANTS Peers,
          Entries,    \* log entries, by ID
          Times,      \* values of time.Now() the model tells apart
          PageSize,   \* most entries of one answer (500 in the code)
          Second      \* how many of the Times make a second

ASSUME TimesAssumption == Times \subseteq Nat \ {0}
ASSUME PageAssumption == PageSize \in Nat \ {0}
ASSUME SecondAssumption == Second \in Nat \ {0}

VARIABLES
    stamp,    \* entry -> the timestamp it was posted with, 0 before
    log,      \* peer -> its store's entries, a sequence
    sent,     \* peer -> the entries some message brings it
    cursor,   \* peer -> the since_timestamp its agent asks with next, 0 for none
    seen,     \* history: peer -> what its agent was given since it last began
    late      \* history: peer -> entries that came in behind the cursor

vars == <<stamp, log, sent, cursor, seen, late>>

\* now.Format(time.RFC3339): the fraction of the second is gone.
Cut(t) == Second * (t \div Second)

InLog(p) == {log[p][i] : i \in DOMAIN log[p]}

TypeOK ==
    /\ stamp \in [Entries -> Times \cup {0}]
    /\ log \in [Peers -> Seq(Entries)]
    /\ sent \in [Peers -> SUBSET Entries]
    /\ cursor \in [Peers -> Times \cup {Cut(t) : t \in Times} \cup {0}]
    /\ seen \in [Peers -> SUBSET Entries] /\ late \in [Peers -> SUBSET Entries]
    /\ \A p \in Peers :
          /\ seen[p] \subseteq InLog(p) /\ late[p] \subseteq InLog(p)
          /\ InLog(p) \cup sent[p] \subseteq {e \in Entries : stamp[e] # 0}

Init ==
    /\ stamp = [e \in Entries |-> 0]
    /\ log = [p \in Peers |-> <<>>]
    /\ sent = [p \in Peers |-> {}]
    /\ cursor = [p \in Peers |-> 0]
    /\ seen = [p \in Peers |-> {}]
    /\ late = [p \in Peers |-> {}]

----
(* Appending.                                                              *)

\* Mutation: entries are kept as they come.
AtEnd(entries, pos, t) == pos = Len(entries) + 1

\* sort.Search: pos is the first index whose entry is later than t.
InsertionPoint(entries, pos, t) ==
    \A i \in DOMAIN entries : i >= pos <=> stamp[entries[i]] > t

\* The entries with e at pos and what was there moved up by one.
Insert(entries, pos, e) ==
    [i \in 1 .. Len(entries) + 1 |->
        IF i < pos THEN entries[i] ELSE IF i = pos THEN e ELSE entries[i - 1]]

\* AppendEntry at p; an entry the log has is not appended again.
AppendEntry(p, e, t) ==
    \/ /\ e \in InLog(p)
       /\ UNCHANGED <<log, late>>
    \/ /\ e \notin InLog(p)
       /\ \E pos \in 1 .. Len(log[p]) + 1 :
             /\ InsertionPoint(log[p], pos, t)
             /\ log' = [log EXCEPT ![p] = Insert(@, pos, e)]
       /\ late' = [late EXCEPT ![p] = IF t <= cursor[p] THEN @ \cup {e} ELSE @]

\* Mutation: the entry is given its ID and no timestamp.
PostUnstamped(p, e, t) ==
    /\ stamp[e] = 0
    /\ AppendEntry(p, e, 0)
    /\ sent' = [q \in Peers |-> IF q = p THEN sent[q] ELSE sent[q] \cup {e}]
    /\ UNCHANGED <<stamp, cursor, seen>>

\* A tool of p stamps an entry with p's clock and a fresh ID, and the engine sends it.
Post(p, e, t) ==
    /\ stamp[e] = 0
    /\ stamp' = [stamp EXCEPT ![e] = t]
    /\ AppendEntry(p, e, t)
    /\ sent' = [q \in Peers |-> IF q = p THEN sent[q] ELSE sent[q] \cup {e}]
    /\ UNCHANGED <<cursor, seen>>

\* A message brings p an entry, for the first time or again.
Deliver(p, e) ==
    /\ e \in sent[p]
    /\ AppendEntry(p, e, stamp[e])
    /\ UNCHANGED <<stamp, sent, cursor, seen>>

----
(* Reading.                                                                *)

\* Mutation: entries at the timestamp itself are returned too.
NotBefore(e, t) == stamp[e] >= t
After(e, t) == stamp[e] > t

\* The entries after t, by their places in p's log.
EntriesSince(p, t) == {i \in DOMAIN log[p] : After(log[p][i], t)}

\* Mutation: of too many entries the newest are returned.
LastPage(places) == {i \in places : Cardinality({k \in places : k >= i}) <= PageSize}

\* The oldest PageSize entries of an answer.
FirstPage(places) == {i \in places : Cardinality({k \in places : k <= i}) <= PageSize}

\* get_shared_log; an answer with no entries changes nothing.
ReadOn(p) ==
    LET page == FirstPage(EntriesSince(p, cursor[p]))
    IN  \E last \in page :
           /\ \A i \in page : i <= last
           /\ seen' = [seen EXCEPT ![p] = @ \cup {log[p][i] : i \in page}]
           /\ cursor' = [cursor EXCEPT ![p] = stamp[log[p][last]]]
           /\ UNCHANGED <<stamp, log, sent, late>>

\* The agent reads on from the timestamp that its own post returned, when that post is
\* the newest entry of its log and it has been given all the others.
ReadOnFromPost(p) ==
    /\ log[p] # <<>>
    /\ LET own == log[p][Len(log[p])]
       IN  /\ own \notin sent[p]
           /\ \A i \in EntriesSince(p, cursor[p]) : log[p][i] \in seen[p] \cup {own}
           /\ cursor' = [cursor EXCEPT ![p] = Cut(stamp[own])]
           /\ seen' = [seen EXCEPT ![p] = @ \cup {own}]
           /\ UNCHANGED <<stamp, log, sent, late>>

\* The agent starts over, without a timestamp.
StartOver(p) ==
    /\ cursor[p] # 0
    /\ cursor' = [cursor EXCEPT ![p] = 0]
    /\ seen' = [seen EXCEPT ![p] = {}]
    /\ late' = [late EXCEPT ![p] = {}]
    /\ UNCHANGED <<stamp, log, sent>>

Next ==
    \E p \in Peers :
       \/ ReadOn(p) \/ ReadOnFromPost(p) \/ StartOver(p)
       \/ \E e \in Entries : Deliver(p, e) \/ \E t \in Times : Post(p, e, t)

Spec == Init /\ [][Next]_vars

----
(* Properties.                                                             *)

\* Any two peers show what they both have in one order, as far as the timestamps tell
\* it, whatever order it came in and however often; so two agents with the same entries
\* read the same conversation up to ties (store.go 70-90).
OneConversation ==
    \A p, q \in Peers :
       \A i, j \in DOMAIN log[p] : \A k, l \in DOMAIN log[q] :
          log[p][i] = log[q][k] /\ log[p][j] = log[q][l] =>
             /\ i = j <=> k = l
             /\ i < j /\ k > l => stamp[log[p][i]] = stamp[log[p][j]]

\* Reading on misses nothing but what came in late, behind the timestamp the agent had
\* got to, and what has the very timestamp of an entry it was given: every other entry
\* of its peer's log it has seen or still has before it (mcp.go 182-202, store.go
\* 93-103).
MissesOnlyLateOrTied ==
    \A p \in Peers : \A e \in InLog(p) \ seen[p] :
       \/ stamp[e] > cursor[p]
       \/ e \in late[p]
       \/ \E s \in seen[p] : stamp[s] = stamp[e]

\* Entries keep coming in before and behind the one an agent has got to; reading on
\* shows it one that it was given only after it has read on from a post of its own, and
\* then only one of the very second of that post (store.go 92-103; mcp.go 47-49, 231).
RepeatsOnlyTheSecondOfAPost ==
    \A p \in Peers : \A i \in EntriesSince(p, cursor[p]) :
       log[p][i] \in seen[p] =>
          \E own \in seen[p] \ sent[p] : /\ Cut(stamp[own]) <= cursor[p]
                                         /\ Cut(stamp[own]) = Cut(stamp[log[p][i]])
====
