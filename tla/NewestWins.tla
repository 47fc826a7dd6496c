---- MODULE NewestWins ----
(***************************************************************************)
(* What the shared directory promises, apart from how a store keeps it:    *)
(* peers issue writes and deletes, learn those of others in any order and  *)
(* as often as the network brings them, and each peer shows for a path the *)
(* newest operation it knows of.  What is shown is therefore a function of *)
(* the set of known operations, not of the order they came in.             *)
(***************************************************************************)
EXTENDS FileIndex

VARIABLES
    published,   \* path -> the operations any peer has issued
    known,       \* peer -> path -> the operations the peer has issued or learned
    shown        \* peer -> path -> the operation the peer shows, or Absent

vars == <<published, known, shown>>

\* The one operation of a set that outranks all others.
Newest(ops) ==
    IF ops = {} THEN Absent
    ELSE CHOOSE op \in ops : \A other \in ops : other # op => Outranks(op, other)

Init ==
    /\ published = [x \in Paths |-> {}]
    /\ known = [p \in Peers |-> [x \in Paths |-> {}]]
    /\ shown = [p \in Peers |-> [x \in Paths |-> Absent]]

\* Peer p comes to know op, and shows the newest of what it then knows.
Know(p, x, op) ==
    /\ known' = [known EXCEPT ![p][x] = @ \cup {op}]
    /\ shown' = [shown EXCEPT ![p][x] = Newest(known'[p][x])]

\* A peer issues, in its own name, only what outranks what it shows.
Issue(p, x, op) ==
    /\ op.version.peer = p
    /\ shown[p][x] # Absent => Outranks(op, shown[p][x])
    /\ published' = [published EXCEPT ![x] = @ \cup {op}]
    /\ Know(p, x, op)

Learn(p, x, op) ==
    /\ op \in published[x]
    /\ Know(p, x, op)
    /\ UNCHANGED published

Next == \E p \in Peers, x \in Paths, op \in Op : Issue(p, x, op) \/ Learn(p, x, op)

Spec == Init /\ [][Next]_vars
====
