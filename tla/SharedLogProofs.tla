---- MODULE SharedLogProofs ----
(***************************************************************************)
(* Theorems about SharedLog for every set of peers and entries, every      *)
(* clock, every size of a page and every length of a second: the copies of *)
(* the log are in one order up to ties, and an agent that reads on page by *)
(* page misses and repeats only what the properties allow.                 *)
(*                                                                         *)
(* All of it rests on the order of the log.  A page ends at its latest     *)
(* entry only because the log is sorted by timestamp, and that is why what *)
(* is behind the cursor has been given, was late, or is tied with what was *)
(* given.                                                                  *)
(***************************************************************************)
EXTENDS SharedLog, SequenceTheorems, FiniteSetTheorems, TLAPS

\* Each copy of the log is sorted by timestamp and has no entry twice.
Ordered ==
    \A p \in Peers : \A i, j \in DOMAIN log[p] :
       /\ i < j => stamp[log[p][i]] <= stamp[log[p][j]]
       /\ log[p][i] = log[p][j] => i = j

\* RepeatsOnlyTheSecondOfAPost, said of entries and not of their places.
GivenAgainOnlyAfterPost ==
    \A p \in Peers : \A e \in seen[p] : stamp[e] > cursor[p] =>
       \E own \in seen[p] \ sent[p] : /\ Cut(stamp[own]) <= cursor[p]
                                      /\ Cut(stamp[own]) = Cut(stamp[e])

IInv == TypeOK /\ Ordered /\ MissesOnlyLateOrTied /\ GivenAgainOnlyAfterPost

----
(* Timestamps cut to the second.                                           *)

\* A timestamp lies in its second.
LEMMA CutBounds ==
    ASSUME NEW t \in Nat
    PROVE  Cut(t) \in Nat /\ Cut(t) <= t /\ t < Cut(t) + Second
BY SecondAssumption, SMTT(30) DEF Cut

LEMMA LaterSecond ==
    ASSUME NEW q \in Nat, NEW r \in Nat, q < r
    PROVE  Second * q + Second <= Second * r
BY SecondAssumption, SMTT(30)

\* What lies between the beginning of a second and a moment in it is in that second.
LEMMA SameSecond ==
    ASSUME NEW t \in Nat, NEW s \in Nat, Cut(t) <= s, s <= t
    PROVE  Cut(s) = Cut(t)
<1> DEFINE q == t \div Second
           r == s \div Second
<1>1. q \in Nat /\ r \in Nat
  BY SecondAssumption, SMTT(30)
<1>2. Cut(t) = Second * q /\ Cut(s) = Second * r
  BY DEF Cut
<1>3. /\ Cut(t) \in Nat /\ t < Cut(t) + Second
      /\ Cut(s) \in Nat /\ Cut(s) <= s /\ s < Cut(s) + Second
  BY CutBounds
<1> HIDE DEF q, r
<1>4. ~(r < q)
  <2> SUFFICES ASSUME r < q PROVE FALSE
    OBVIOUS
  <2>1. Cut(s) + Second <= Cut(t)
    BY <1>1, <1>2, LaterSecond
  <2> QED BY <1>3, <2>1, SecondAssumption
<1>5. ~(q < r)
  <2> SUFFICES ASSUME q < r PROVE FALSE
    OBVIOUS
  <2>1. Cut(t) + Second <= Cut(s)
    BY <1>1, <1>2, LaterSecond
  <2> QED BY <1>3, <2>1, SecondAssumption
<1>6. q = r
  BY <1>1, <1>4, <1>5
<1> QED BY <1>2, <1>6

----
(* Appending.                                                              *)

LEMMA InsertType ==
    ASSUME NEW old \in Seq(Entries), NEW pos \in 1 .. Len(old) + 1, NEW e \in Entries
    PROVE  /\ Insert(old, pos, e) \in Seq(Entries)
           /\ Len(Insert(old, pos, e)) = Len(old) + 1
           /\ \A i \in 1 .. Len(old) + 1 :
                 Insert(old, pos, e)[i] =
                    IF i < pos THEN old[i] ELSE IF i = pos THEN e ELSE old[i - 1]
<1> DEFINE new == Insert(old, pos, e)
           n == Len(old) + 1
<1>1. n \in Nat /\ Len(old) \in Nat /\ pos \in 1 .. n
  OBVIOUS
<1>2. \A i \in 1 .. n : (IF i < pos THEN old[i] ELSE IF i = pos THEN e ELSE old[i - 1]) \in Entries
  OBVIOUS
<1>3. new = [i \in 1 .. n |-> IF i < pos THEN old[i] ELSE IF i = pos THEN e ELSE old[i - 1]]
  BY DEF Insert
<1>4. new \in [1 .. n -> Entries]
  BY <1>2, <1>3
<1>5. new \in Seq(Entries) /\ Len(new) = n
  BY <1>1, <1>4, LenProperties, IsASeq
<1> QED BY <1>3, <1>5

\* An entry inserted where the first later one was keeps p's log sorted and without
\* duplicates, and what it holds is what it held and the entry.
LEMMA InsertKeepsOrder ==
    ASSUME stamp \in [Entries -> Nat], NEW t \in Nat, NEW p \in Peers, NEW e \in Entries,
           log[p] \in Seq(Entries), NEW pos \in 1 .. Len(log[p]) + 1,
           InsertionPoint(log[p], pos, t), log'[p] = Insert(log[p], pos, e), e \notin InLog(p),
           Ordered, stamp'[e] = t, \A f \in InLog(p) : stamp'[f] = stamp[f]
    PROVE  /\ \A i, j \in DOMAIN log'[p] : /\ i < j => stamp'[log'[p][i]] <= stamp'[log'[p][j]]
                                           /\ log'[p][i] = log'[p][j] => i = j
           /\ InLog(p)' = InLog(p) \cup {e}
<1> DEFINE old == log[p]
           new == log'[p]
           time == stamp'
           n == Len(old)
<1>0. /\ old \in Seq(Entries) /\ pos \in 1 .. Len(old) + 1 /\ new = Insert(old, pos, e)
      /\ InLog(p) = {old[i] : i \in DOMAIN old} /\ InLog(p)' = {new[i] : i \in DOMAIN new}
      /\ InsertionPoint(old, pos, t) /\ e \notin InLog(p)
      /\ time[e] = t /\ \A f \in InLog(p) : time[f] = stamp[f]
  BY DEF InLog
<1>1. /\ \A i, j \in DOMAIN old : i < j => stamp[old[i]] <= stamp[old[j]]
      /\ \A i, j \in DOMAIN old : old[i] = old[j] => i = j
  BY DEF Ordered
<1> HIDE DEF old, new, time
<1>2. /\ n \in Nat /\ pos \in 1 .. n + 1
      /\ DOMAIN old = 1 .. n /\ DOMAIN new = 1 .. n + 1
      /\ \A i \in 1 .. n + 1 :
            new[i] = IF i < pos THEN old[i] ELSE IF i = pos THEN e ELSE old[i - 1]
  <2>1. /\ new \in Seq(Entries) /\ Len(new) = n + 1
        /\ \A i \in 1 .. n + 1 :
              new[i] = IF i < pos THEN old[i] ELSE IF i = pos THEN e ELSE old[i - 1]
    <3>1. old \in Seq(Entries) /\ pos \in 1 .. Len(old) + 1 /\ e \in Entries
      BY <1>0
    <3>2. /\ Insert(old, pos, e) \in Seq(Entries)
          /\ Len(Insert(old, pos, e)) = Len(old) + 1
          /\ \A i \in 1 .. Len(old) + 1 :
                Insert(old, pos, e)[i] =
                   IF i < pos THEN old[i] ELSE IF i = pos THEN e ELSE old[i - 1]
      BY <3>1, InsertType
    <3>3. new = Insert(old, pos, e)
      BY <1>0
    <3> QED BY <3>2, <3>3
  <2>2. n \in Nat /\ DOMAIN old = 1 .. n /\ DOMAIN new = 1 .. n + 1
    BY <1>0, <2>1, LenProperties
  <2> QED BY <1>0, <2>1, <2>2
<1> HIDE DEF n
<1>9. /\ \A i \in 1 .. n : i >= pos <=> time[old[i]] > t
      /\ \A i \in 1 .. n : time[old[i]] \in Nat
      /\ \A i, j \in 1 .. n : i < j => time[old[i]] <= time[old[j]]
      /\ \A i, j \in 1 .. n : old[i] = old[j] => i = j
      /\ \A i \in 1 .. n : old[i] # e
      /\ time[e] = t /\ t \in Nat
  <2>1. \A i \in 1 .. n : i >= pos <=> stamp[old[i]] > t
    BY <1>0, <1>2 DEF InsertionPoint
  <2>2. \A i \in 1 .. n : old[i] \in Entries /\ old[i] \in InLog(p)
    <3>1. \A i \in DOMAIN old : old[i] \in Entries
      BY <1>0, ElementOfSeq, LenProperties
    <3>2. \A i \in DOMAIN old : old[i] \in InLog(p)
      BY <1>0
    <3> QED BY <1>2, <3>1, <3>2
  <2>3. \A i \in 1 .. n : /\ old[i] # e /\ time[old[i]] = stamp[old[i]] /\ stamp[old[i]] \in Nat
    BY <1>0, <2>2
  <2>4. \A i \in 1 .. n : i >= pos <=> time[old[i]] > t
    BY <2>1, <2>3
  <2>5. \A i, j \in 1 .. n : i < j => time[old[i]] <= time[old[j]]
    <3> SUFFICES ASSUME NEW i \in 1 .. n, NEW j \in 1 .. n, i < j
                 PROVE  time[old[i]] <= time[old[j]]
      OBVIOUS
    <3>1. i \in DOMAIN old /\ j \in DOMAIN old
      BY <1>2
    <3>2. stamp[old[i]] <= stamp[old[j]]
      BY <1>1, <3>1
    <3> QED BY <2>3, <3>2
  <2>6. \A i, j \in 1 .. n : old[i] = old[j] => i = j
    <3>1. \A i, j \in DOMAIN old : old[i] = old[j] => i = j
      BY <1>1
    <3>2. DOMAIN old = 1 .. n
      BY <1>2
    <3> QED BY ONLY <3>1, <3>2
  <2>7. /\ \A i \in 1 .. n : time[old[i]] \in Nat
        /\ \A i \in 1 .. n : old[i] # e
    BY <2>3
  <2> QED BY <1>0, <2>4, <2>5, <2>6, <2>7
<1>3. ASSUME NEW i \in 1 .. n + 1, NEW j \in 1 .. n + 1, i < j PROVE time[new[i]] <= time[new[j]]
  <2>1. CASE j < pos
    BY <1>2, <1>9, <1>3, <2>1
  <2>2. CASE j = pos
    BY <1>2, <1>9, <1>3, <2>2
  <2>3. CASE j > pos /\ i = pos
    <3>1. j - 1 \in 1 .. n /\ j - 1 >= pos
      BY <1>2, <2>3
    <3> QED BY <1>2, <1>9, <2>3, <3>1
  <2>4. CASE j > pos /\ i < pos
    <3>1. i \in 1 .. n /\ j - 1 \in 1 .. n /\ (i < j - 1 \/ i = j - 1)
      BY <1>2, <1>3, <2>4
    <3> QED BY <1>2, <1>9, <2>4, <3>1
  <2>5. CASE j > pos /\ i > pos
    <3>1. i - 1 \in 1 .. n /\ j - 1 \in 1 .. n /\ i - 1 < j - 1
      BY <1>2, <1>3, <2>5
    <3>2. new[i] = old[i - 1] /\ new[j] = old[j - 1]
      BY <1>2, <2>5
    <3>3. time[old[i - 1]] <= time[old[j - 1]]
      BY <1>9, <3>1
    <3> QED BY <3>2, <3>3
  <2>6. j < pos \/ j = pos \/ (j > pos /\ (i < pos \/ i = pos \/ i > pos))
    BY <1>2
  <2> QED BY <2>1, <2>2, <2>3, <2>4, <2>5, <2>6
<1> DEFINE Old(k) == IF k < pos THEN k ELSE k - 1
<1>4. \A k \in 1 .. n + 1 : k # pos => Old(k) \in 1 .. n /\ new[k] = old[Old(k)]
  <2> SUFFICES ASSUME NEW k \in 1 .. n + 1, k # pos
               PROVE  Old(k) \in 1 .. n /\ new[k] = old[Old(k)]
    OBVIOUS
  <2>1. CASE k < pos
    <3>1. Old(k) = k /\ k \in 1 .. n
      BY <1>2, <2>1
    <3> QED BY <1>2, <2>1, <3>1
  <2>2. CASE k > pos
    <3>1. Old(k) = k - 1 /\ k - 1 \in 1 .. n
      BY <1>2, <2>2
    <3>2. new[k] = old[k - 1]
      BY <1>2, <2>2
    <3> QED BY <3>1, <3>2
  <2>3. k < pos \/ k > pos
    BY <1>2
  <2> QED BY <2>1, <2>2, <2>3
<1>5. ASSUME NEW i \in 1 .. n + 1, NEW j \in 1 .. n + 1, new[i] = new[j] PROVE i = j
  <2>1. CASE i = pos \/ j = pos
    BY <1>2, <1>9, <1>4, <1>5, <2>1
  <2>2. CASE i # pos /\ j # pos
    <3>1. Old(i) \in 1 .. n /\ Old(j) \in 1 .. n /\ old[Old(i)] = old[Old(j)]
      BY <1>4, <1>5, <2>2
    <3> HIDE DEF Old
    <3>2. Old(i) = Old(j)
      BY <1>9, <3>1
    <3> USE DEF Old
    <3> QED BY <1>2, <2>2, <3>2
  <2> QED BY <2>1, <2>2
<1>6. ASSUME NEW k \in 1 .. n PROVE \E i \in 1 .. n + 1 : new[i] = old[k]
  <2>1. CASE k < pos
    <3>1. k \in 1 .. n + 1
      BY <1>2
    <3>2. new[k] = old[k]
      BY <1>2, <2>1, <3>1
    <3> QED BY <3>1, <3>2
  <2>2. CASE k >= pos
    <3>1. k + 1 \in 1 .. n + 1 /\ k + 1 > pos /\ (k + 1) - 1 = k
      BY <1>2, <2>2
    <3>2. new[k + 1] = old[k]
      BY <1>2, <3>1
    <3> QED BY <3>1, <3>2
  <2>3. k < pos \/ k >= pos
    BY <1>2
  <2> QED BY <2>1, <2>2, <2>3
<1>7. new[pos] = e
  BY <1>2
<1>8. InLog(p)' = InLog(p) \cup {e}
  <2>1. \A i \in 1 .. n + 1 : new[i] = e \/ \E k \in 1 .. n : new[i] = old[k]
    BY <1>4, <1>7
  <2> HIDE DEF Old
  <2>2. InLog(p) = {old[k] : k \in 1 .. n} /\ InLog(p)' = {new[i] : i \in 1 .. n + 1}
    BY <1>0, <1>2
  <2>3. e \in InLog(p)'
    BY <1>2, <1>7, <2>2
  <2>4. InLog(p)' \subseteq InLog(p) \cup {e}
    BY <2>1, <2>2
  <2>5. InLog(p) \subseteq InLog(p)'
    BY <1>6, <2>2
  <2> QED BY <2>3, <2>4, <2>5
<1> USE DEF old, new, time
<1> QED BY <1>2, <1>3, <1>5, <1>8

\* What AppendEntry does, for a post and for a delivery alike: time is the timestamps
\* after the step.
LEMMA Appended ==
    ASSUME TypeOK, Ordered, NEW p \in Peers, NEW e \in Entries, NEW t \in Times,
           AppendEntry(p, e, t), stamp' \in [Entries -> Times \cup {0}], stamp'[e] = t,
           \A f \in Entries : f = e \/ stamp'[f] = stamp[f], stamp[e] \in {0, t}
    PROVE  /\ Ordered'
           /\ log' \in [Peers -> Seq(Entries)] /\ late' \in [Peers -> SUBSET Entries]
           /\ InLog(p)' = InLog(p) \cup {e} /\ \A q \in Peers \ {p} : InLog(q)' = InLog(q)
           /\ \A q \in Peers : late'[q] \subseteq InLog(q)' /\ late[q] \subseteq late'[q]
           /\ \A q \in Peers : \A f \in InLog(q)' \ InLog(q) : f = e /\ (f \in late'[q] \/ t > cursor[q])
           /\ \A q \in Peers : \A f \in InLog(q) : stamp'[f] = stamp[f]
<1>1. \A q \in Peers : \A f \in InLog(q) : f \in Entries /\ stamp[f] # 0
  BY DEF TypeOK, InLog
<1>2. \A q \in Peers : \A f \in InLog(q) : stamp'[f] = stamp[f]
  BY <1>1
<1>3. CASE e \in InLog(p)
  <2>1. log' = log /\ late' = late
    BY <1>3 DEF AppendEntry
  <2>2. \A q \in Peers : InLog(q)' = InLog(q)
    BY <2>1 DEF InLog
  <2>3. Ordered'
    BY <1>2, <2>1 DEF Ordered, InLog
  <2> QED BY <1>2, <1>3, <2>1, <2>2, <2>3 DEF TypeOK
<1>4. CASE e \notin InLog(p)
  <2>1. PICK pos \in 1 .. Len(log[p]) + 1 : /\ InsertionPoint(log[p], pos, t)
                                            /\ log' = [log EXCEPT ![p] = Insert(@, pos, e)]
    BY <1>4 DEF AppendEntry
  <2>2. late' = [late EXCEPT ![p] = IF t <= cursor[p] THEN @ \cup {e} ELSE @]
    BY <1>4 DEF AppendEntry
  <2>3. /\ log[p] \in Seq(Entries) /\ log'[p] = Insert(log[p], pos, e)
        /\ \A q \in Peers \ {p} : log'[q] = log[q]
    BY <2>1 DEF TypeOK
  <2>4. t \in Nat /\ stamp \in [Entries -> Nat]
    <3>1. Times \cup {0} \subseteq Nat
      BY TimesAssumption
    <3> QED BY <3>1 DEF TypeOK
  <2>5. /\ \A i, j \in DOMAIN log'[p] : /\ i < j => stamp'[log'[p][i]] <= stamp'[log'[p][j]]
                                        /\ log'[p][i] = log'[p][j] => i = j
        /\ InLog(p)' = InLog(p) \cup {e}
    BY <1>2, <1>4, <2>1, <2>3, <2>4, InsertKeepsOrder
  <2>6. \A q \in Peers \ {p} : InLog(q)' = InLog(q)
    BY <2>3 DEF InLog
  <2>7. InLog(p)' = InLog(p) \cup {e} /\ \A q \in Peers \ {p} : InLog(q)' = InLog(q)
    BY <2>5, <2>6
  <2>8. Ordered'
    <3>1. \A q \in Peers \ {p} : \A i, j \in DOMAIN log'[q] :
             /\ i < j => stamp'[log'[q][i]] <= stamp'[log'[q][j]]
             /\ log'[q][i] = log'[q][j] => i = j
      BY <1>2, <2>3 DEF Ordered, InLog
    <3> QED BY <2>5, <3>1 DEF Ordered
  <2>9. log' \in [Peers -> Seq(Entries)]
    BY <2>1, <2>3, InsertType DEF TypeOK
  <2>10. /\ late' \in [Peers -> SUBSET Entries]
         /\ \A q \in Peers : late'[q] \subseteq InLog(q)' /\ late[q] \subseteq late'[q]
    BY <2>2, <2>7 DEF TypeOK
  <2>11. \A q \in Peers : \A f \in InLog(q)' \ InLog(q) : f = e /\ (f \in late'[q] \/ t > cursor[q])
    <3>1. \A q \in Peers : cursor[q] \in Nat
      BY TimesAssumption, CutBounds DEF TypeOK
    <3> QED BY <2>2, <2>4, <2>7, <3>1 DEF TypeOK
  <2> QED BY <1>2, <2>7, <2>8, <2>9, <2>10, <2>11
<1> QED BY <1>3, <1>4

\* The cursor and the timestamps of what a log holds, and a log by its places.
LEMMA Places ==
    ASSUME TypeOK, NEW p \in Peers
    PROVE  /\ cursor[p] \in Nat
           /\ DOMAIN log[p] = 1 .. Len(log[p]) /\ Len(log[p]) \in Nat
           /\ \A i \in DOMAIN log[p] : log[p][i] \in InLog(p)
           /\ \A e \in InLog(p) : /\ e \in Entries /\ stamp[e] \in Times /\ stamp[e] \in Nat
                                  /\ \E i \in DOMAIN log[p] : e = log[p][i]
<1>1. cursor[p] \in Nat
  <2>1. cursor[p] \in Times \/ cursor[p] = 0 \/ \E u \in Times : cursor[p] = Cut(u)
    BY DEF TypeOK
  <2>2. \A u \in Times : u \in Nat
    BY TimesAssumption
  <2> QED BY <2>1, <2>2, CutBounds
<1>2. log[p] \in Seq(Entries)
  BY DEF TypeOK
<1>3. DOMAIN log[p] = 1 .. Len(log[p]) /\ Len(log[p]) \in Nat
  BY <1>2, LenProperties
<1>4. \A i \in DOMAIN log[p] : log[p][i] \in InLog(p)
  BY DEF InLog
<1>5. \A e \in InLog(p) : \E i \in DOMAIN log[p] : e = log[p][i]
  BY DEF InLog
<1>6. \A e \in InLog(p) : e \in Entries /\ stamp[e] \in Times
  BY DEF TypeOK
<1>7. \A e \in InLog(p) : stamp[e] \in Nat
  BY <1>6, TimesAssumption
<1> QED BY <1>1, <1>3, <1>4, <1>5, <1>6, <1>7

----
(* Init, posts and deliveries.                                             *)

LEMMA InitIInv == ASSUME Init PROVE IInv
<1>1. \A p \in Peers : log[p] = <<>> /\ InLog(p) = {} /\ seen[p] = {} /\ late[p] = {} /\ sent[p] = {}
  BY DEF Init, InLog
<1>2. TypeOK
  BY <1>1 DEF Init, TypeOK
<1>3. Ordered
  BY <1>1 DEF Ordered
<1> QED BY <1>1, <1>2, <1>3 DEF IInv, MissesOnlyLateOrTied, GivenAgainOnlyAfterPost

\* What comes in behind the cursor is late, and what was given stays given.
LEMMA AppendedKeeps ==
    ASSUME IInv, NEW p \in Peers, NEW e \in Entries, NEW t \in Times, AppendEntry(p, e, t),
           stamp' \in [Entries -> Times \cup {0}], stamp'[e] = t,
           \A f \in Entries : f = e \/ stamp'[f] = stamp[f], stamp[e] \in {0, t},
           UNCHANGED <<cursor, seen>>,
           \A q \in Peers : \A f \in InLog(q) : f \in sent'[q] => f \in sent[q]
    PROVE  Ordered' /\ MissesOnlyLateOrTied' /\ GivenAgainOnlyAfterPost'
<1>1. /\ Ordered'
      /\ \A q \in Peers : late[q] \subseteq late'[q]
      /\ \A q \in Peers : \A f \in InLog(q)' \ InLog(q) : f = e /\ (f \in late'[q] \/ t > cursor[q])
      /\ \A q \in Peers : \A f \in InLog(q) : stamp'[f] = stamp[f]
  BY Appended DEF IInv
<1>2. \A q \in Peers : seen[q] \subseteq InLog(q)
  BY DEF IInv, TypeOK
<1>3. MissesOnlyLateOrTied'
  <2> SUFFICES ASSUME NEW q \in Peers, NEW f \in InLog(q)' \ seen[q]
               PROVE  \/ stamp'[f] > cursor[q]
                      \/ f \in late'[q]
                      \/ \E s \in seen[q] : stamp'[s] = stamp'[f]
    BY DEF MissesOnlyLateOrTied
  <2>1. CASE f \in InLog(q)
    <3>1. \/ stamp[f] > cursor[q]
          \/ f \in late[q]
          \/ \E s \in seen[q] : stamp[s] = stamp[f]
      BY <2>1 DEF IInv, MissesOnlyLateOrTied
    <3>2. \A s \in seen[q] : stamp'[s] = stamp[s]
      BY <1>1, <1>2
    <3>3. stamp'[f] = stamp[f] /\ late[q] \subseteq late'[q]
      BY <1>1, <2>1
    <3> QED BY <3>1, <3>2, <3>3
  <2>2. CASE f \notin InLog(q)
    <3>1. f = e /\ (f \in late'[q] \/ t > cursor[q])
      BY <1>1, <2>2
    <3> QED BY <3>1
  <2> QED BY <2>1, <2>2
<1>4. GivenAgainOnlyAfterPost'
  <2> SUFFICES ASSUME NEW q \in Peers, NEW f \in seen[q], stamp'[f] > cursor[q]
               PROVE  \E own \in seen[q] \ sent'[q] : /\ Cut(stamp'[own]) <= cursor[q]
                                                      /\ Cut(stamp'[own]) = Cut(stamp'[f])
    BY DEF GivenAgainOnlyAfterPost, Cut
  <2>1. stamp'[f] = stamp[f]
    BY <1>1, <1>2
  <2>2. PICK own \in seen[q] \ sent[q] : /\ Cut(stamp[own]) <= cursor[q]
                                         /\ Cut(stamp[own]) = Cut(stamp[f])
    BY <2>1 DEF IInv, GivenAgainOnlyAfterPost
  <2>3. own \in InLog(q) /\ stamp'[own] = stamp[own]
    BY <1>1, <1>2
  <2>4. own \notin sent'[q]
    BY <2>3
  <2> QED BY <2>1, <2>2, <2>3, <2>4
<1> QED BY <1>1, <1>3, <1>4

LEMMA PostIInv ==
    ASSUME IInv, NEW p \in Peers, NEW e \in Entries, NEW t \in Times, Post(p, e, t)
    PROVE  IInv'
<1>1. /\ stamp[e] = 0 /\ stamp' = [stamp EXCEPT ![e] = t]
      /\ sent' = [q \in Peers |-> IF q = p THEN sent[q] ELSE sent[q] \cup {e}]
      /\ UNCHANGED <<cursor, seen>> /\ AppendEntry(p, e, t)
  BY DEF Post
<1>2. /\ stamp' \in [Entries -> Times \cup {0}] /\ stamp'[e] = t
      /\ \A f \in Entries : f = e \/ stamp'[f] = stamp[f]
  BY <1>1 DEF IInv, TypeOK
<1>3. \A q \in Peers : InLog(q) \cup sent[q] \subseteq {f \in Entries : stamp[f] # 0}
  BY DEF IInv, TypeOK
<1>4. \A q \in Peers : \A f \in InLog(q) : f # e
  BY <1>1, <1>3
<1>5. \A q \in Peers : \A f \in InLog(q) : f \in sent'[q] => f \in sent[q]
  BY <1>1, <1>4
<1>6. Ordered' /\ MissesOnlyLateOrTied' /\ GivenAgainOnlyAfterPost'
  BY <1>1, <1>2, <1>5, AppendedKeeps
<1>7. /\ log' \in [Peers -> Seq(Entries)] /\ late' \in [Peers -> SUBSET Entries]
      /\ InLog(p)' = InLog(p) \cup {e} /\ \A q \in Peers \ {p} : InLog(q)' = InLog(q)
      /\ \A q \in Peers : late'[q] \subseteq InLog(q)'
  BY <1>1, <1>2, Appended DEF IInv
<1>8. TypeOK'
  <2>1. sent' \in [Peers -> SUBSET Entries]
    BY <1>1 DEF IInv, TypeOK
  <2>2. t # 0
    BY TimesAssumption
  <2>3. \A q \in Peers : InLog(q)' \cup sent'[q] \subseteq {f \in Entries : stamp'[f] # 0}
    <3>1. \A f \in Entries : stamp[f] # 0 \/ f = e => stamp'[f] # 0
      BY <1>2, <2>2
    <3>2. \A q \in Peers : InLog(q)' \subseteq InLog(q) \cup {e} /\ sent'[q] \subseteq sent[q] \cup {e}
      BY <1>1, <1>7
    <3> QED BY <1>3, <3>1, <3>2
  <2>4. \A q \in Peers : seen'[q] \subseteq InLog(q)'
    <3>1. \A q \in Peers : seen[q] \subseteq InLog(q) /\ InLog(q) \subseteq InLog(q)'
      BY <1>7 DEF IInv, TypeOK
    <3> QED BY <1>1, <3>1
  <2>5. /\ cursor' \in [Peers -> Times \cup {Cut(u) : u \in Times} \cup {0}]
        /\ seen' \in [Peers -> SUBSET Entries]
    BY <1>1 DEF IInv, TypeOK
  <2> QED BY <1>2, <1>7, <2>1, <2>3, <2>4, <2>5 DEF TypeOK, Cut
<1> QED BY <1>6, <1>8 DEF IInv

LEMMA DeliverIInv ==
    ASSUME IInv, NEW p \in Peers, NEW e \in Entries, Deliver(p, e)
    PROVE  IInv'
<1>1. e \in sent[p] /\ AppendEntry(p, e, stamp[e]) /\ UNCHANGED <<stamp, sent, cursor, seen>>
  BY DEF Deliver
<1>2. /\ stamp' \in [Entries -> Times \cup {0}] /\ stamp'[e] = stamp[e] /\ stamp[e] \in Times
      /\ \A f \in Entries : f = e \/ stamp'[f] = stamp[f]
  BY <1>1 DEF IInv, TypeOK
<1>3. \A q \in Peers : InLog(q) \cup sent[q] \subseteq {f \in Entries : stamp[f] # 0}
  BY DEF IInv, TypeOK
<1>4. \A q \in Peers : \A f \in InLog(q) : f \in sent'[q] => f \in sent[q]
  BY <1>1
<1>5. Ordered' /\ MissesOnlyLateOrTied' /\ GivenAgainOnlyAfterPost'
  BY <1>1, <1>2, <1>4, AppendedKeeps
<1>6. /\ log' \in [Peers -> Seq(Entries)] /\ late' \in [Peers -> SUBSET Entries]
      /\ InLog(p)' = InLog(p) \cup {e} /\ \A q \in Peers \ {p} : InLog(q)' = InLog(q)
      /\ \A q \in Peers : late'[q] \subseteq InLog(q)'
  BY <1>1, <1>2, Appended DEF IInv
<1>7. TypeOK'
  <2>1. \A q \in Peers : InLog(q)' \cup sent'[q] \subseteq {f \in Entries : stamp'[f] # 0}
    <3>1. \A q \in Peers : InLog(q)' \subseteq InLog(q) \cup (IF q = p THEN {e} ELSE {})
      BY <1>6
    <3> QED BY <1>1, <1>3, <3>1
  <2>2. \A q \in Peers : seen'[q] \subseteq InLog(q)'
    <3>1. \A q \in Peers : seen[q] \subseteq InLog(q) /\ InLog(q) \subseteq InLog(q)'
      BY <1>6 DEF IInv, TypeOK
    <3> QED BY <1>1, <3>1
  <2>3. /\ cursor' \in [Peers -> Times \cup {Cut(u) : u \in Times} \cup {0}]
        /\ seen' \in [Peers -> SUBSET Entries] /\ sent' \in [Peers -> SUBSET Entries]
    BY <1>1 DEF IInv, TypeOK
  <2> QED BY <1>2, <1>6, <2>1, <2>2, <2>3 DEF TypeOK, Cut
<1> QED BY <1>5, <1>7 DEF IInv

----
(* Reading.                                                                *)

\* The first page of an answer has, with an entry of it, every older one.
LEMMA PageIsAPrefix ==
    ASSUME NEW n \in Nat, NEW places \in SUBSET (1 .. n), NEW last \in FirstPage(places),
           NEW i \in places, i <= last
    PROVE  i \in FirstPage(places)
<1> DEFINE upTo(j) == {k \in places : k <= j}
<1>1. last \in places /\ Cardinality(upTo(last)) <= PageSize
  BY DEF FirstPage
<1>2. \A j \in places : IsFiniteSet(upTo(j)) /\ Cardinality(upTo(j)) \in Nat
  <2>1. IsFiniteSet(1 .. n)
    BY FS_Interval
  <2>2. \A j \in places : upTo(j) \in SUBSET (1 .. n)
    OBVIOUS
  <2>3. \A j \in places : IsFiniteSet(upTo(j))
    BY <2>1, <2>2, FS_Subset
  <2> QED BY <2>3, FS_CardinalityType
<1>3. upTo(i) \subseteq upTo(last)
  <2>1. i \in Nat /\ last \in Nat /\ \A k \in places : k \in Nat
    BY <1>1
  <2>2. \A k \in places : k <= i => k <= last
    BY <2>1
  <2> QED BY <2>2
<1>4. Cardinality(upTo(i)) <= Cardinality(upTo(last))
  BY <1>1, <1>2, <1>3, FS_Subset
<1>5. Cardinality(upTo(i)) <= PageSize
  BY <1>1, <1>2, <1>4, PageAssumption
<1> QED BY <1>5 DEF FirstPage

LEMMA ReadOnIInv ==
    ASSUME IInv, NEW p \in Peers, ReadOn(p)
    PROVE  IInv'
<1> DEFINE places == EntriesSince(p, cursor[p])
           page == FirstPage(places)
           given == {log[p][i] : i \in page}
<1>1. PICK last \in page :
         /\ \A i \in page : i <= last
         /\ seen' = [seen EXCEPT ![p] = @ \cup given]
         /\ cursor' = [cursor EXCEPT ![p] = stamp[log[p][last]]]
         /\ UNCHANGED <<stamp, log, sent, late>>
  BY DEF ReadOn
<1>2. /\ cursor[p] \in Nat /\ DOMAIN log[p] = 1 .. Len(log[p]) /\ Len(log[p]) \in Nat
      /\ \A i \in DOMAIN log[p] : log[p][i] \in InLog(p)
      /\ \A e \in InLog(p) : /\ e \in Entries /\ stamp[e] \in Times /\ stamp[e] \in Nat
                             /\ \E i \in DOMAIN log[p] : e = log[p][i]
  BY Places DEF IInv
<1>3. /\ page \subseteq places /\ places \subseteq DOMAIN log[p]
      /\ \A i \in DOMAIN log[p] : i \in places <=> stamp[log[p][i]] > cursor[p]
  BY DEF FirstPage, EntriesSince, After
<1>4. \A i \in places : i <= last => i \in page
  BY <1>2, <1>3, PageIsAPrefix
<1> DEFINE now == stamp[log[p][last]]
<1>5. /\ now \in Times /\ now \in Nat /\ now > cursor[p]
      /\ last \in DOMAIN log[p] /\ log[p][last] \in given
  BY <1>2, <1>3
<1>6. /\ cursor'[p] = now /\ seen'[p] = seen[p] \cup given
      /\ \A q \in Peers \ {p} : cursor'[q] = cursor[q] /\ seen'[q] = seen[q]
  BY <1>1 DEF IInv, TypeOK
<1>7. \A q \in Peers : InLog(q)' = InLog(q)
  BY <1>1 DEF InLog
<1>8. given \subseteq InLog(p)
  BY <1>2, <1>3
<1>9. \A i, j \in DOMAIN log[p] : i < j => stamp[log[p][i]] <= stamp[log[p][j]]
  BY DEF IInv, Ordered
<1> HIDE DEF places, page, given, now
<1>10. TypeOK'
  <2>1. /\ cursor' \in [Peers -> Times \cup {Cut(u) : u \in Times} \cup {0}]
        /\ seen' \in [Peers -> SUBSET Entries]
    <3>1. given \subseteq Entries
      BY <1>2, <1>8
    <3> QED BY <1>1, <1>5, <1>6, <3>1 DEF IInv, TypeOK, now
  <2>2. \A q \in Peers : seen'[q] \subseteq InLog(q)'
    BY <1>6, <1>7, <1>8 DEF IInv, TypeOK
  <2> QED BY <1>1, <1>7, <2>1, <2>2 DEF IInv, TypeOK, Cut
<1>11. Ordered'
  BY <1>1 DEF IInv, Ordered
<1>12. MissesOnlyLateOrTied'
  <2>1. ASSUME NEW e \in InLog(p) \ (seen[p] \cup given)
        PROVE  stamp[e] > now \/ e \in late[p] \/ \E s \in seen[p] \cup given : stamp[s] = stamp[e]
    <3>1. CASE stamp[e] > cursor[p]
      <4>1. PICK i \in DOMAIN log[p] : e = log[p][i]
        BY <1>2
      <4>2. i \in places /\ i \notin page
        BY <1>3, <2>1, <3>1, <4>1 DEF given
      <4>3. last < i
        BY <1>2, <1>4, <1>5, <4>2
      <4>4. now <= stamp[e]
        BY <1>5, <1>9, <4>1, <4>3 DEF now
      <4>5. stamp[e] > now \/ stamp[e] = now
        BY <1>2, <1>5, <4>4
      <4> QED BY <1>5, <4>5 DEF now
    <3>2. CASE ~(stamp[e] > cursor[p])
      BY <3>2 DEF IInv, MissesOnlyLateOrTied
    <3> QED BY <3>1, <3>2
  <2>2. \A e \in InLog(p)' \ seen'[p] :
           stamp'[e] > cursor'[p] \/ e \in late'[p] \/ \E s \in seen'[p] : stamp'[s] = stamp'[e]
    BY <1>1, <1>6, <1>7, <2>1
  <2>3. \A q \in Peers \ {p} : \A e \in InLog(q)' \ seen'[q] :
           stamp'[e] > cursor'[q] \/ e \in late'[q] \/ \E s \in seen'[q] : stamp'[s] = stamp'[e]
    BY <1>1, <1>6, <1>7 DEF IInv, MissesOnlyLateOrTied
  <2> QED BY <2>2, <2>3 DEF MissesOnlyLateOrTied
<1>13. GivenAgainOnlyAfterPost'
  <2>1. ASSUME NEW e \in seen[p] \cup given, stamp[e] > now
        PROVE  \E own \in (seen[p] \cup given) \ sent[p] : /\ Cut(stamp[own]) <= now
                                                           /\ Cut(stamp[own]) = Cut(stamp[e])
    <3>1. e \notin given
      <4> SUFFICES ASSUME e \in given PROVE FALSE
        OBVIOUS
      <4>1. PICK i \in page : e = log[p][i]
        BY DEF given
      <4>2. i \in DOMAIN log[p] /\ (i < last \/ i = last)
        BY <1>1, <1>2, <1>3, <1>5
      <4>3. stamp[e] <= now
        BY <1>2, <1>5, <1>9, <4>1, <4>2 DEF now
      <4> QED BY <1>2, <1>5, <1>8, <2>1, <4>3
    <3>2. e \in seen[p] /\ stamp[e] > cursor[p] /\ seen[p] \subseteq InLog(p)
      <4>1. e \in seen[p] /\ seen[p] \subseteq InLog(p)
        BY <3>1 DEF IInv, TypeOK
      <4> QED BY <1>2, <1>5, <2>1, <4>1
    <3>3. PICK own \in seen[p] \ sent[p] : /\ Cut(stamp[own]) <= cursor[p]
                                           /\ Cut(stamp[own]) = Cut(stamp[e])
      BY <3>2 DEF IInv, GivenAgainOnlyAfterPost
    <3>4. Cut(stamp[own]) <= now
      <4>1. Cut(stamp[own]) \in Nat
        BY <1>2, <3>2, CutBounds
      <4> QED BY <1>2, <1>5, <3>3, <4>1
    <3> QED BY <3>3, <3>4
  <2>2. \A e \in seen'[p] : stamp'[e] > cursor'[p] =>
           \E own \in seen'[p] \ sent'[p] : /\ Cut(stamp'[own]) <= cursor'[p]
                                            /\ Cut(stamp'[own]) = Cut(stamp'[e])
    BY <1>1, <1>6, <2>1
  <2>3. \A q \in Peers \ {p} : \A e \in seen'[q] : stamp'[e] > cursor'[q] =>
           \E own \in seen'[q] \ sent'[q] : /\ Cut(stamp'[own]) <= cursor'[q]
                                            /\ Cut(stamp'[own]) = Cut(stamp'[e])
    BY <1>1, <1>6 DEF IInv, GivenAgainOnlyAfterPost
  <2> QED BY <2>2, <2>3 DEF GivenAgainOnlyAfterPost, Cut
<1> QED BY <1>10, <1>11, <1>12, <1>13 DEF IInv

LEMMA ReadOnFromPostIInv ==
    ASSUME IInv, NEW p \in Peers, ReadOnFromPost(p)
    PROVE  IInv'
<1> DEFINE own == log[p][Len(log[p])]
           now == Cut(stamp[own])
<1>1. /\ log[p] # <<>> /\ own \notin sent[p]
      /\ \A i \in EntriesSince(p, cursor[p]) : log[p][i] \in seen[p] \cup {own}
      /\ cursor' = [cursor EXCEPT ![p] = now]
      /\ seen' = [seen EXCEPT ![p] = @ \cup {own}]
      /\ UNCHANGED <<stamp, log, sent, late>>
  BY DEF ReadOnFromPost
<1>2. /\ cursor[p] \in Nat /\ DOMAIN log[p] = 1 .. Len(log[p]) /\ Len(log[p]) \in Nat
      /\ \A i \in DOMAIN log[p] : log[p][i] \in InLog(p)
      /\ \A e \in InLog(p) : /\ e \in Entries /\ stamp[e] \in Times /\ stamp[e] \in Nat
                             /\ \E i \in DOMAIN log[p] : e = log[p][i]
  BY Places DEF IInv
<1>3. Len(log[p]) \in DOMAIN log[p] /\ own \in InLog(p)
  <2>1. log[p] \in Seq(Entries)
    BY DEF IInv, TypeOK
  <2>2. Len(log[p]) # 0
    BY <1>1, <2>1, EmptySeq
  <2> QED BY <1>2, <2>2
<1>4. now \in {Cut(u) : u \in Times} /\ now \in Nat
  BY <1>2, <1>3, CutBounds
<1>5. \A e \in InLog(p) : stamp[e] <= stamp[own]
  <2>1. \A i \in DOMAIN log[p] : i < Len(log[p]) \/ i = Len(log[p])
    BY <1>2
  <2>2. \A i \in DOMAIN log[p] : i < Len(log[p]) => stamp[log[p][i]] <= stamp[own]
    BY <1>3 DEF IInv, Ordered
  <2>3. stamp[own] <= stamp[own]
    BY <1>2, <1>3
  <2> QED BY <1>2, <2>1, <2>2, <2>3
<1>6. /\ cursor'[p] = now /\ seen'[p] = seen[p] \cup {own}
      /\ \A q \in Peers \ {p} : cursor'[q] = cursor[q] /\ seen'[q] = seen[q]
  BY <1>1 DEF IInv, TypeOK
<1>7. \A q \in Peers : InLog(q)' = InLog(q)
  BY <1>1 DEF InLog
<1>8. \A e \in InLog(p) : stamp[e] > cursor[p] => e \in seen[p] \cup {own}
  BY <1>1, <1>2 DEF EntriesSince, After
<1> HIDE DEF own
<1>9. TypeOK'
  <2>1. /\ cursor' \in [Peers -> Times \cup {Cut(u) : u \in Times} \cup {0}]
        /\ seen' \in [Peers -> SUBSET Entries]
    BY <1>1, <1>2, <1>3, <1>4 DEF IInv, TypeOK
  <2>2. \A q \in Peers : seen'[q] \subseteq InLog(q)'
    BY <1>3, <1>6, <1>7 DEF IInv, TypeOK
  <2> QED BY <1>1, <1>7, <2>1, <2>2 DEF IInv, TypeOK, Cut
<1>10. Ordered'
  BY <1>1 DEF IInv, Ordered
<1> HIDE DEF now
<1>11. MissesOnlyLateOrTied'
  <2>1. ASSUME NEW e \in InLog(p) \ (seen[p] \cup {own})
        PROVE  e \in late[p] \/ \E s \in seen[p] \cup {own} : stamp[s] = stamp[e]
    BY <1>8 DEF IInv, MissesOnlyLateOrTied
  <2>2. \A e \in InLog(p)' \ seen'[p] :
           stamp'[e] > cursor'[p] \/ e \in late'[p] \/ \E s \in seen'[p] : stamp'[s] = stamp'[e]
    BY <1>1, <1>6, <1>7, <2>1
  <2>3. \A q \in Peers \ {p} : \A e \in InLog(q)' \ seen'[q] :
           stamp'[e] > cursor'[q] \/ e \in late'[q] \/ \E s \in seen'[q] : stamp'[s] = stamp'[e]
    BY <1>1, <1>6, <1>7 DEF IInv, MissesOnlyLateOrTied
  <2> QED BY <2>2, <2>3 DEF MissesOnlyLateOrTied
<1>12. GivenAgainOnlyAfterPost'
  <2>1. ASSUME NEW e \in seen[p] \cup {own}, stamp[e] > now
        PROVE  Cut(stamp[own]) <= now /\ Cut(stamp[own]) = Cut(stamp[e])
    <3>1. e \in InLog(p)
      BY <1>3 DEF IInv, TypeOK
    <3>2. stamp[e] \in Nat /\ stamp[own] \in Nat /\ stamp[e] <= stamp[own]
      BY <1>2, <1>3, <1>5, <3>1
    <3>3. Cut(stamp[own]) <= stamp[e] /\ Cut(stamp[own]) <= now
      BY <1>4, <2>1, <3>2 DEF now
    <3> QED BY <3>2, <3>3, SameSecond
  <2>2. own \notin sent'[p] /\ own \in seen'[p]
    BY <1>1, <1>6 DEF own
  <2>3. \A e \in seen'[p] : stamp'[e] > cursor'[p] =>
           \E o \in seen'[p] \ sent'[p] : /\ Cut(stamp'[o]) <= cursor'[p]
                                          /\ Cut(stamp'[o]) = Cut(stamp'[e])
    BY <1>1, <1>6, <2>1, <2>2
  <2>4. \A q \in Peers \ {p} : \A e \in seen'[q] : stamp'[e] > cursor'[q] =>
           \E o \in seen'[q] \ sent'[q] : /\ Cut(stamp'[o]) <= cursor'[q]
                                          /\ Cut(stamp'[o]) = Cut(stamp'[e])
    BY <1>1, <1>6 DEF IInv, GivenAgainOnlyAfterPost
  <2> QED BY <2>3, <2>4 DEF GivenAgainOnlyAfterPost, Cut
<1> QED BY <1>9, <1>10, <1>11, <1>12 DEF IInv

LEMMA StartOverIInv ==
    ASSUME IInv, NEW p \in Peers, StartOver(p)
    PROVE  IInv'
<1>1. /\ cursor' = [cursor EXCEPT ![p] = 0] /\ seen' = [seen EXCEPT ![p] = {}]
      /\ late' = [late EXCEPT ![p] = {}] /\ UNCHANGED <<stamp, log, sent>>
  BY DEF StartOver
<1>2. /\ cursor'[p] = 0 /\ seen'[p] = {} /\ late'[p] = {}
      /\ \A q \in Peers \ {p} : cursor'[q] = cursor[q] /\ seen'[q] = seen[q] /\ late'[q] = late[q]
  BY <1>1 DEF IInv, TypeOK
<1>3. \A q \in Peers : InLog(q)' = InLog(q)
  BY <1>1 DEF InLog
<1>4. TypeOK'
  <2>1. /\ cursor' \in [Peers -> Times \cup {Cut(u) : u \in Times} \cup {0}]
        /\ seen' \in [Peers -> SUBSET Entries] /\ late' \in [Peers -> SUBSET Entries]
    BY <1>1 DEF IInv, TypeOK
  <2>2. \A q \in Peers : seen'[q] \subseteq InLog(q)' /\ late'[q] \subseteq InLog(q)'
    BY <1>2, <1>3 DEF IInv, TypeOK
  <2> QED BY <1>1, <1>3, <2>1, <2>2 DEF IInv, TypeOK, Cut
<1>5. Ordered'
  BY <1>1 DEF IInv, Ordered
<1>6. MissesOnlyLateOrTied'
  <2>1. \A e \in InLog(p) : stamp[e] \in Nat /\ stamp[e] # 0
    BY Places DEF IInv, TypeOK
  <2>2. \A e \in InLog(p)' : stamp'[e] > cursor'[p]
    BY <1>1, <1>2, <1>3, <2>1
  <2>3. \A q \in Peers \ {p} : \A e \in InLog(q)' \ seen'[q] :
           stamp'[e] > cursor'[q] \/ e \in late'[q] \/ \E s \in seen'[q] : stamp'[s] = stamp'[e]
    BY <1>1, <1>2, <1>3 DEF IInv, MissesOnlyLateOrTied
  <2> QED BY <2>2, <2>3 DEF MissesOnlyLateOrTied
<1>7. GivenAgainOnlyAfterPost'
  <2>1. \A q \in Peers \ {p} : \A e \in seen'[q] : stamp'[e] > cursor'[q] =>
           \E own \in seen'[q] \ sent'[q] : /\ Cut(stamp'[own]) <= cursor'[q]
                                            /\ Cut(stamp'[own]) = Cut(stamp'[e])
    BY <1>1, <1>2 DEF IInv, GivenAgainOnlyAfterPost
  <2> QED BY <1>2, <2>1 DEF GivenAgainOnlyAfterPost, Cut
<1> QED BY <1>4, <1>5, <1>6, <1>7 DEF IInv

----
(* The theorems.                                                           *)

\* Every step keeps the invariant.
LEMMA NextIInv == ASSUME IInv, [Next]_vars PROVE IInv'
<1>1. CASE UNCHANGED vars
  BY <1>1 DEF vars, IInv, TypeOK, Ordered, MissesOnlyLateOrTied, GivenAgainOnlyAfterPost, InLog, Cut
<1>2. CASE Next
  <2>1. PICK p \in Peers : \/ ReadOn(p) \/ ReadOnFromPost(p) \/ StartOver(p)
                           \/ \E e \in Entries : Deliver(p, e) \/ \E t \in Times : Post(p, e, t)
    BY <1>2 DEF Next
  <2> QED BY <2>1, ReadOnIInv, ReadOnFromPostIInv, StartOverIInv, DeliverIInv, PostIInv
<1> QED BY <1>1, <1>2

THEOREM SharedLogInvariant == Spec => []IInv
<1> QED BY InitIInv, NextIInv, PTL DEF Spec

\* A copy of the log holds entries of the session that were posted, each with its
\* timestamp, and the agents' positions are timestamps (store.go 70-103).
THEOREM SharedLogTypeCorrect == Spec => []TypeOK
<1>1. IInv => TypeOK
  BY DEF IInv
<1> QED BY <1>1, SharedLogInvariant, PTL

\* Whatever order entries come in and however often, any two copies of the log show what
\* they share in one order up to ties (AppendEntry, store.go 70-90).
THEOREM SharedLogOneConversation == Spec => []OneConversation
<1>1. ASSUME IInv PROVE OneConversation
  <2> SUFFICES ASSUME NEW p \in Peers, NEW q \in Peers,
                      NEW i \in DOMAIN log[p], NEW j \in DOMAIN log[p],
                      NEW k \in DOMAIN log[q], NEW l \in DOMAIN log[q],
                      log[p][i] = log[q][k], log[p][j] = log[q][l]
               PROVE  /\ i = j <=> k = l
                      /\ i < j /\ k > l => stamp[log[p][i]] = stamp[log[p][j]]
    BY DEF OneConversation
  <2>1. i = j <=> k = l
    <3>1. i = j => log[q][k] = log[q][l]
      OBVIOUS
    <3>2. k = l => log[p][i] = log[p][j]
      OBVIOUS
    <3> QED BY <1>1, <3>1, <3>2 DEF IInv, Ordered
  <2>2. ASSUME i < j, k > l PROVE stamp[log[p][i]] = stamp[log[p][j]]
    <3>1. stamp[log[p][i]] <= stamp[log[p][j]]
      BY <1>1, <2>2 DEF IInv, Ordered
    <3>2. l < k
      BY <1>1, <2>2, Places DEF IInv
    <3>3. stamp[log[q][l]] <= stamp[log[q][k]]
      BY <1>1, <3>2 DEF IInv, Ordered
    <3>4. stamp[log[p][i]] \in Nat /\ stamp[log[p][j]] \in Nat
      BY <1>1, Places DEF IInv
    <3> QED BY <3>1, <3>3, <3>4
  <2> QED BY <2>1, <2>2
<1> QED BY <1>1, SharedLogInvariant, PTL

\* An agent that reads on misses only what came in behind its timestamp or is tied with
\* an entry it was given (get_shared_log, mcp.go 182-202; EntriesSince, store.go 92-103).
THEOREM SharedLogMissesOnlyLateOrTied == Spec => []MissesOnlyLateOrTied
<1>1. IInv => MissesOnlyLateOrTied
  BY DEF IInv
<1> QED BY <1>1, SharedLogInvariant, PTL

\* An agent is given an entry again only after it read on from a post of its own, and
\* then only one of the second of that post (mcp.go 47-49, 231).
THEOREM SharedLogRepeatsOnlyTheSecondOfAPost == Spec => []RepeatsOnlyTheSecondOfAPost
<1>1. ASSUME IInv PROVE RepeatsOnlyTheSecondOfAPost
  <2> SUFFICES ASSUME NEW p \in Peers, NEW i \in EntriesSince(p, cursor[p]), log[p][i] \in seen[p]
               PROVE  \E own \in seen[p] \ sent[p] : /\ Cut(stamp[own]) <= cursor[p]
                                                     /\ Cut(stamp[own]) = Cut(stamp[log[p][i]])
    BY DEF RepeatsOnlyTheSecondOfAPost
  <2>1. stamp[log[p][i]] > cursor[p]
    BY DEF EntriesSince, After
  <2> QED BY <1>1, <2>1 DEF IInv, GivenAgainOnlyAfterPost
<1> QED BY <1>1, SharedLogInvariant, PTL
====
