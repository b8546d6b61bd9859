--------------------------- MODULE ChannelLogProofs ---------------------------
(***************************************************************************)
(* TLAPS proof that PublicChannel, with one push at a time, implements     *)
(* ChannelLog, for any pushes, readers and bounds: the statements of a     *)
(* transaction add up, row by row, to the last writer of each row, and     *)
(* what readers see changes by whole pushes that may be published then.    *)
(***************************************************************************)
EXTENDS PublicChannelProofs, FiniteSums

-----------------------------------------------------------------------------
(* The last writer of a row.                                               *)

LastIn(H) == IF H = {} THEN 0 ELSE CHOOSE j \in H : \A k \in H : k <= j

\* The elements of a request before number i that write a message, or a change.
ById(ms, id, i) == {j \in DOMAIN ms : j < i /\ ms[j].id = id}
BySeq(xs, s, i) == {j \in DOMAIN xs : j < i /\ xs[j].seq = s}

\* The last of them is n when it is one.
LEMMA LastOfMore ==
  ASSUME NEW n \in Nat \ {0}, NEW H, \A k \in H : k \in Nat /\ k < n
  PROVE  LastIn(H \cup {n}) = n
<1> DEFINE G == H \cup {n}
<1>1. n \in G /\ \A k \in G : k <= n
  OBVIOUS
<1>2. \A j \in G : (\A k \in G : k <= j) => j = n
  <2> SUFFICES ASSUME NEW j \in G, n <= j PROVE j = n
    BY <1>1
  <2> QED OBVIOUS
<1> HIDE DEF G
<1>3. LastIn(G) = n
  BY <1>1, <1>2 DEF LastIn
<1> QED BY <1>3 DEF G

\* If any writes a row, the last is one of them.
LEMMA LastIsOne ==
  ASSUME NEW S, NEW xs \in Seq(S), NEW x, NEW n \in Nat, BySeq(xs, x, n) # {}
  PROVE  LastIn(BySeq(xs, x, n)) \in BySeq(xs, x, n)
<1> DEFINE H == BySeq(xs, x, n)
           D == {n - k : k \in H}
<1>1. \A k \in H : k \in Nat /\ k < n
  BY DEF BySeq
<1> HIDE DEF H
<1>2. D \in SUBSET Nat /\ D # {}
  BY <1>1 DEF H
<1>3. PICK d \in D : \A y \in D : d <= y
  BY <1>2, NatMin
<1>4. PICK j \in H : d = n - j
  OBVIOUS
<1>5. \A k \in H : k <= j
  <2> SUFFICES ASSUME NEW k \in H PROVE k <= j
    OBVIOUS
  <2>1. n - k \in D
    OBVIOUS
  <2>2. n - j <= n - k
    BY <1>3, <1>4, <2>1
  <2> QED BY <1>1, <2>2
<1>6. LastIn(H) \in H
  BY <1>5 DEF LastIn
<1> QED BY <1>6 DEF H

\* None writes before the first.
LEMMA NoneBefore ==
  ASSUME NEW S, NEW xs \in Seq(S), NEW x
  PROVE  LastIn(ById(xs, x, 1)) = 0 /\ LastIn(BySeq(xs, x, 1)) = 0
<1>1. \A j \in DOMAIN xs : ~(j < 1)
  OBVIOUS
<1> QED BY <1>1 DEF ById, BySeq, LastIn

\* Element number n + 1 is the last writer of its row, and of no other.
LEMMA OneMore ==
  ASSUME NEW S, NEW xs \in Seq(S), NEW n \in Nat, n < Len(xs), NEW x
  PROVE  /\ LastIn(ById(xs, x, n + 2)) = IF xs[n + 1].id = x THEN n + 1 ELSE LastIn(ById(xs, x, n + 1))
         /\ LastIn(BySeq(xs, x, n + 2)) = IF xs[n + 1].seq = x THEN n + 1 ELSE LastIn(BySeq(xs, x, n + 1))
<1>1. n + 1 \in DOMAIN xs /\ DOMAIN xs \subseteq Nat /\ n + 1 \in Nat \ {0}
  OBVIOUS
<1>2. \A j \in DOMAIN xs : j < n + 2 <=> (j < n + 1 \/ j = n + 1)
  BY <1>1
<1>3. /\ \A k \in ById(xs, x, n + 1) : k \in Nat /\ k < n + 1
      /\ \A k \in BySeq(xs, x, n + 1) : k \in Nat /\ k < n + 1
  BY <1>1 DEF ById, BySeq
<1>4. LastIn(ById(xs, x, n + 2)) = IF xs[n + 1].id = x THEN n + 1 ELSE LastIn(ById(xs, x, n + 1))
  <2>1. CASE xs[n + 1].id = x
    <3>1. ById(xs, x, n + 2) = ById(xs, x, n + 1) \cup {n + 1}
      BY <1>1, <1>2, <2>1 DEF ById
    <3> QED BY <1>1, <1>3, <2>1, <3>1, LastOfMore
  <2>2. CASE xs[n + 1].id # x
    <3>1. ById(xs, x, n + 2) = ById(xs, x, n + 1)
      BY <1>1, <1>2, <2>2 DEF ById
    <3> QED BY <2>2, <3>1
  <2> QED BY <2>1, <2>2
<1>5. LastIn(BySeq(xs, x, n + 2)) = IF xs[n + 1].seq = x THEN n + 1 ELSE LastIn(BySeq(xs, x, n + 1))
  <2>1. CASE xs[n + 1].seq = x
    <3>1. BySeq(xs, x, n + 2) = BySeq(xs, x, n + 1) \cup {n + 1}
      BY <1>1, <1>2, <2>1 DEF BySeq
    <3> QED BY <1>1, <1>3, <2>1, <3>1, LastOfMore
  <2>2. CASE xs[n + 1].seq # x
    <3>1. BySeq(xs, x, n + 2) = BySeq(xs, x, n + 1)
      BY <1>1, <1>2, <2>2 DEF BySeq
    <3> QED BY <2>2, <3>1
  <2> QED BY <2>1, <2>2
<1> QED BY <1>4, <1>5

-----------------------------------------------------------------------------
(* The tables after a part of a push.                                      *)

\* Message id over the table rows, when the messages of q before number i are written.
VersionIn(rows, q, id, i) ==
    LET j == LastIn(ById(q.messages, id, i))
    IN IF j = 0 THEN rows[id] ELSE [ver |-> q.messages[j].ver, seq |-> q.messages[j].seq]

\* Message number i may be written after those before it.
AdmitsIn(rows, q, i) ==
    LET m == q.messages[i]
    IN /\ Supersedes(m, VersionIn(rows, q, m.id, i))
       /\ \A id \in Ids : id # m.id /\ VersionIn(rows, q, id, i) # NoRow =>
             VersionIn(rows, q, id, i).seq # m.seq

\* The change at s over the log, when the messages of q before number i are written, ...
RowIn(log, q, s, i) ==
    LET j == LastIn(BySeq(q.messages, s, i))
    IN IF j = 0 THEN log[s] ELSE MessageChange(q.messages[j], log[s])

\* ... all of them, and the profile over an old one of version v, ...
ProfileIn(log, q, s, v) ==
    IF q.pv > v /\ q.messages = <<>> /\ q.changes = <<>> /\ s = q.lastSeq
    THEN ProfileChange(q.pv, log[s]) ELSE RowIn(log, q, s, Len(q.messages) + 1)

\* ... and also the changes of q before number i.
ChangeIn(log, q, s, v, i) ==
    LET j == LastIn(BySeq(q.changes, s, i))
    IN IF j = 0 THEN ProfileIn(log, q, s, v) ELSE q.changes[j].row

\* ChannelLog says the same from the end of the push.
LEMMA SameVersion == \A q, id, i : L!Version(q, id, i) = VersionIn(messages, q, id, i)
  BY DEF L!Version, L!LastBefore, VersionIn, LastIn, ById

\* Also of what may be written.
LEMMA SameAdmits == \A q, i : AdmitsIn(messages, q, i) => L!Admits(q, i)
  BY SameVersion DEF L!Admits, AdmitsIn, Supersedes

\* A message's change does not depend on the ones it replaces.
LEMMA ChangeAgain ==
  ASSUME NEW m, NEW k, NEW row, MessageChange(k, row) # NoRow
  PROVE  MessageChange(m, MessageChange(k, row)) = MessageChange(m, row)
  BY DEF MessageChange

\* One message more.
LEMMA MessageMore ==
  ASSUME NEW q \in Pushes, NEW n \in Nat, n < Len(q.messages), NEW rows, NEW log \in ChangeTable
  PROVE  LET m == q.messages[n + 1]
         IN /\ \A id \in Ids : VersionIn(rows, q, id, n + 2) =
                  IF m.id = id THEN [ver |-> m.ver, seq |-> m.seq] ELSE VersionIn(rows, q, id, n + 1)
            /\ \A s \in Seqs : RowIn(log, q, s, n + 2) =
                  IF m.seq = s THEN MessageChange(m, RowIn(log, q, s, n + 1)) ELSE RowIn(log, q, s, n + 1)
<1> DEFINE m == q.messages[n + 1]
<1>1. q.messages \in Seq(Message)
  BY PushFields
<1>2. n + 1 # 0
  OBVIOUS
<1>3. \A id \in Ids : VersionIn(rows, q, id, n + 2) =
         IF m.id = id THEN [ver |-> m.ver, seq |-> m.seq] ELSE VersionIn(rows, q, id, n + 1)
  BY <1>1, <1>2, OneMore DEF VersionIn
<1>4. ASSUME NEW s \in Seqs
      PROVE  RowIn(log, q, s, n + 2) =
                IF m.seq = s THEN MessageChange(m, RowIn(log, q, s, n + 1)) ELSE RowIn(log, q, s, n + 1)
  <2> DEFINE j == LastIn(BySeq(q.messages, s, n + 1))
  <2>1. CASE m.seq = s
    <3>1. RowIn(log, q, s, n + 2) = MessageChange(m, log[s])
      BY <1>1, <1>2, <2>1, OneMore DEF RowIn
    <3>2. CASE j = 0
      BY <2>1, <3>1, <3>2 DEF RowIn
    <3>3. CASE j # 0
      <4>1. RowIn(log, q, s, n + 1) = MessageChange(q.messages[j], log[s])
        BY <3>3 DEF RowIn
      <4>2. j \in DOMAIN q.messages
        <5>1. BySeq(q.messages, s, n + 1) # {}
          BY <3>3 DEF LastIn
        <5>2. j \in BySeq(q.messages, s, n + 1)
          BY <1>1, <5>1, LastIsOne
        <5> QED BY <5>2 DEF BySeq
      <4>3. q.messages[j].id \in Ids /\ q.messages[j].ver \in Nat
        <5>1. q.messages[j] \in Message
          BY <1>1, <4>2
        <5> QED BY <5>1 DEF Message
      <4>4. log[s] \in ChangeRow \cup {NoRow}
        BY DEF ChangeTable
      <4>5. MessageChange(q.messages[j], log[s]) # NoRow
        BY <4>3, <4>4, ChangeTypes, RowsExist
      <4> QED BY <2>1, <3>1, <4>1, <4>5, ChangeAgain
    <3> QED BY <3>2, <3>3
  <2>2. CASE m.seq # s
    BY <1>1, <2>2, OneMore DEF RowIn
  <2> QED BY <2>1, <2>2
<1> QED BY <1>3, <1>4

-----------------------------------------------------------------------------
(* The inductive invariant.                                                *)

\* A push at place w with the request q, the old profile version v and n written: its
\* transaction's tables are the committed ones with that much of the push.
TxLog(w, q, v, n, head, rows, log, txRows, tx) ==
    /\ w # "idle" => Acceptable(q) /\ v = IF head = NoRow THEN 0 ELSE head.pv
    /\ w = "messages" =>
          /\ \A id \in Ids : txRows[id] = VersionIn(rows, q, id, n + 1)
          /\ \A s \in Seqs : tx[s] = RowIn(log, q, s, n + 1)
          /\ \A i \in DOMAIN q.messages : i <= n => AdmitsIn(rows, q, i)
    /\ w = "changes" =>
          /\ \A id \in Ids : txRows[id] = VersionIn(rows, q, id, Len(q.messages) + 1)
          /\ \A s \in Seqs : tx[s] = ChangeIn(log, q, s, v, n + 1)
          /\ \A i \in DOMAIN q.messages : AdmitsIn(rows, q, i)
          /\ \A i \in DOMAIN q.changes : i <= n => q.changes[i].ours

LogInv ==
    \A p \in Pushers : TxLog(pc[p], req[p], oldPV[p], done[p], channel, messages, changes, txMessages, txChanges)

\* LogInv after a step.
LEMMA LogThen ==
  ASSUME \A p \in Pushers : TxLog(pc'[p], req'[p], oldPV'[p], done'[p], channel', messages', changes',
                                  txMessages', txChanges')
  PROVE  LogInv'
  BY DEF LogInv, TxLog, Acceptable, VersionIn, LastIn, ById, BySeq, RowIn, ChangeIn, ProfileIn, AdmitsIn,
         Supersedes, MessageChange, ProfileChange

\* One change more.
LEMMA ChangeMore ==
  ASSUME NEW q \in Pushes, NEW n \in Nat, n < Len(q.changes), NEW log, NEW v, NEW s
  PROVE  LET e == q.changes[n + 1]
         IN ChangeIn(log, q, s, v, n + 2) = IF e.seq = s THEN e.row ELSE ChangeIn(log, q, s, v, n + 1)
<1>1. q.changes \in Seq(Extra) /\ n + 1 # 0
  BY PushFields
<1> QED BY <1>1, OneMore DEF ChangeIn

\* A push outside its transaction need only be acceptable and know the profile version.
LEMMA LogOutside ==
  ASSUME NEW w \in {"idle", "checked"}, NEW q, NEW v, NEW n, NEW head, NEW rows, NEW log, NEW txRows, NEW tx,
         w # "idle" => Acceptable(q) /\ v = IF head = NoRow THEN 0 ELSE head.pv
  PROVE  TxLog(w, q, v, n, head, rows, log, txRows, tx)
  BY DEF TxLog

\* A transaction begins with the committed tables.
LEMMA LogBegin ==
  ASSUME ChannelInv, LogInv, NEW p \in Pushers, PushBegin(p)
  PROVE  TxLog(pc'[p], req'[p], oldPV'[p], done'[p], channel', messages', changes', txMessages', txChanges')
<1> DEFINE q == req[p]
<1>1. /\ pc[p] = "checked" /\ pc'[p] = "messages" /\ req'[p] = q /\ oldPV'[p] = oldPV[p] /\ done'[p] = done[p]
      /\ channel' = channel /\ messages' = messages /\ changes' = changes
      /\ txMessages' = messages /\ txChanges' = changes
  BY DEF PushBegin, tables, ChannelInv, TypeOK
<1>2. q \in Pushes /\ done[p] = 0
  BY <1>1, RequestOf DEF ChannelInv, PushOK
<1>3. q.messages \in Seq(Message)
  BY <1>2, PushFields
<1>4. \A id \in Ids : messages[id] = VersionIn(messages, q, id, 1)
  BY <1>3, NoneBefore DEF VersionIn
<1>5. \A s \in Seqs : changes[s] = RowIn(changes, q, s, 1)
  BY <1>3, NoneBefore DEF RowIn
<1>6. \A i \in DOMAIN q.messages : ~(i <= 0)
  BY <1>3
<1>7. TxLog("checked", q, oldPV[p], done[p], channel, messages, changes, txMessages, txChanges)
  BY <1>1 DEF LogInv
<1>8. TxLog("messages", q, oldPV[p], 0, channel, messages, changes, messages, changes)
  BY <1>4, <1>5, <1>6, <1>7 DEF TxLog
<1> QED BY <1>1, <1>2, <1>8

\* A message is written where the log has it.
LEMMA LogMessage ==
  ASSUME ChannelInv, LogInv, NEW p \in Pushers, PushMessage(p)
  PROVE  TxLog(pc'[p], req'[p], oldPV'[p], done'[p], channel', messages', changes', txMessages', txChanges')
<1> DEFINE q == req[p]
           n == done[p]
           m == q.messages[n + 1]
<1>1. /\ pc[p] = "messages" /\ UNCHANGED <<tables, pc, req, oldPV>> /\ done' = [done EXCEPT ![p] = @ + 1]
      /\ Supersedes(m, txMessages[m.id]) /\ SeqIsFree(m)
  BY DEF PushMessage
<1>2. /\ q \in Pushes /\ n \in Nat /\ n < Len(q.messages) /\ m.id \in Ids /\ m.ver \in Nat /\ m.seq \in Seqs
      /\ txMessages' = [txMessages EXCEPT ![m.id] = [ver |-> m.ver, seq |-> m.seq]]
      /\ txChanges' = [txChanges EXCEPT ![m.seq] = MessageChange(m, txChanges[m.seq])]
  BY MessageWritten
<1>3. /\ TxLog("messages", q, oldPV[p], n, channel, messages, changes, txMessages, txChanges)
      /\ txMessages \in MessageTable /\ txChanges \in ChangeTable /\ changes \in ChangeTable
      /\ done \in [Pushers -> Nat]
  BY <1>1 DEF LogInv, ChannelInv, TypeOK
<1>4. /\ \A id \in Ids : txMessages[id] = VersionIn(messages, q, id, n + 1)
      /\ \A s \in Seqs : txChanges[s] = RowIn(changes, q, s, n + 1)
      /\ \A i \in DOMAIN q.messages : i <= n => AdmitsIn(messages, q, i)
      /\ Acceptable(q) /\ oldPV[p] = IF channel = NoRow THEN 0 ELSE channel.pv
  BY <1>3 DEF TxLog
<1>5. /\ \A id \in Ids : txMessages'[id] = IF m.id = id THEN [ver |-> m.ver, seq |-> m.seq] ELSE txMessages[id]
      /\ \A s \in Seqs : txChanges'[s] = IF m.seq = s THEN MessageChange(m, txChanges[s]) ELSE txChanges[s]
  BY <1>2, <1>3 DEF MessageTable, ChangeTable
<1>6. /\ \A id \in Ids : VersionIn(messages, q, id, n + 2) =
            IF m.id = id THEN [ver |-> m.ver, seq |-> m.seq] ELSE VersionIn(messages, q, id, n + 1)
      /\ \A s \in Seqs : RowIn(changes, q, s, n + 2) =
            IF m.seq = s THEN MessageChange(m, RowIn(changes, q, s, n + 1)) ELSE RowIn(changes, q, s, n + 1)
  BY <1>2, <1>3, MessageMore
<1>7. AdmitsIn(messages, q, n + 1)
  BY <1>1, <1>2, <1>4 DEF AdmitsIn, SeqIsFree
<1>8. \A i \in DOMAIN q.messages : i <= n + 1 => AdmitsIn(messages, q, i)
  <2>1. DOMAIN q.messages \subseteq Nat
    BY <1>2, PushFields
  <2> QED BY <1>2, <1>4, <1>7, <2>1
<1>9. (n + 1) + 1 = n + 2
  BY <1>2
<1>10. /\ \A id \in Ids : txMessages'[id] = VersionIn(messages, q, id, n + 2)
       /\ \A s \in Seqs : txChanges'[s] = RowIn(changes, q, s, n + 2)
  BY <1>4, <1>5, <1>6
<1>11. TxLog("messages", q, oldPV[p], n + 1, channel, messages, changes, txMessages', txChanges')
  BY <1>4, <1>8, <1>9, <1>10 DEF TxLog
<1>12. /\ pc'[p] = "messages" /\ req'[p] = q /\ oldPV'[p] = oldPV[p] /\ done'[p] = n + 1
       /\ channel' = channel /\ messages' = messages /\ changes' = changes
  BY <1>1, <1>3 DEF tables
<1> QED BY <1>11, <1>12

\* The messages end; a profile alone is given its change.
LEMMA LogProfile ==
  ASSUME ChannelInv, LogInv, NEW p \in Pushers, PushProfile(p)
  PROVE  TxLog(pc'[p], req'[p], oldPV'[p], done'[p], channel', messages', changes', txMessages', txChanges')
<1> DEFINE q == req[p]
           v == oldPV[p]
           s0 == q.lastSeq
           writes == q.pv > v /\ q.messages = <<>> /\ q.changes = <<>>
<1>1. /\ pc[p] = "messages" /\ UNCHANGED <<tables, txMessages, req, oldPV>> /\ done' = [done EXCEPT ![p] = 0]
      /\ pc' = [pc EXCEPT ![p] = "changes"] /\ done[p] = Len(q.messages)
  BY DEF PushProfile
<1>2. /\ TxLog("messages", q, v, Len(q.messages), channel, messages, changes, txMessages, txChanges)
      /\ txChanges \in ChangeTable /\ done \in [Pushers -> Nat] /\ q \in Pushes
      /\ pc \in [Pushers -> {"idle", "checked", "messages", "changes"}]
  BY <1>1, RequestOf DEF LogInv, ChannelInv, TypeOK
<1>3. s0 \in Seqs /\ q.messages \in Seq(Message) /\ q.changes \in Seq(Extra)
  BY <1>2, PushFields
<1>4. /\ \A id \in Ids : txMessages[id] = VersionIn(messages, q, id, Len(q.messages) + 1)
      /\ \A s \in Seqs : txChanges[s] = RowIn(changes, q, s, Len(q.messages) + 1)
      /\ \A i \in DOMAIN q.messages : AdmitsIn(messages, q, i)
      /\ Acceptable(q) /\ v = IF channel = NoRow THEN 0 ELSE channel.pv
  <2>1. \A i \in DOMAIN q.messages : i <= Len(q.messages)
    BY <1>3
  <2> QED BY <1>2, <2>1 DEF TxLog
<1>5. /\ writes => txChanges' = [txChanges EXCEPT ![s0] = ProfileChange(q.pv, txChanges[s0])]
      /\ ~writes => txChanges' = txChanges
  BY DEF PushProfile
<1>6. ASSUME NEW s \in Seqs PROVE txChanges'[s] = ProfileIn(changes, q, s, v)
  <2>1. CASE writes
    <3>1. RowIn(changes, q, s, Len(q.messages) + 1) = changes[s]
      <4>1. Len(q.messages) + 1 = 1
        BY <2>1
      <4> QED BY <1>3, <4>1, NoneBefore DEF RowIn
    <3>2. txChanges'[s] = IF s = s0 THEN ProfileChange(q.pv, txChanges[s]) ELSE txChanges[s]
      BY <1>2, <1>3, <1>5, <2>1 DEF ChangeTable
    <3> QED BY <1>4, <2>1, <3>1, <3>2 DEF ProfileIn
  <2>2. CASE ~writes
    BY <1>4, <1>5, <2>2 DEF ProfileIn
  <2> QED BY <2>1, <2>2
<1>7. \A s \in Seqs : txChanges'[s] = ChangeIn(changes, q, s, v, 1)
  BY <1>3, <1>6, NoneBefore DEF ChangeIn
<1>8. \A i \in DOMAIN q.changes : ~(i <= 0)
  BY <1>3
<1>9. TxLog("changes", q, v, 0, channel, messages, changes, txMessages, txChanges')
  BY <1>4, <1>7, <1>8 DEF TxLog
<1>10. /\ pc'[p] = "changes" /\ req'[p] = q /\ oldPV'[p] = v /\ done'[p] = 0
       /\ channel' = channel /\ messages' = messages /\ changes' = changes /\ txMessages' = txMessages
  BY <1>1, <1>2 DEF tables
<1> QED BY <1>9, <1>10

\* A change is written where the log has it.
LEMMA LogChange ==
  ASSUME ChannelInv, LogInv, NEW p \in Pushers, PushChange(p)
  PROVE  TxLog(pc'[p], req'[p], oldPV'[p], done'[p], channel', messages', changes', txMessages', txChanges')
<1> DEFINE q == req[p]
           v == oldPV[p]
           n == done[p]
           e == q.changes[n + 1]
<1>1. /\ pc[p] = "changes" /\ UNCHANGED <<tables, txMessages, pc, req, oldPV>>
      /\ done' = [done EXCEPT ![p] = @ + 1]
      /\ n < Len(q.changes) /\ e.ours /\ txChanges' = [txChanges EXCEPT ![e.seq] = e.row]
  BY DEF PushChange
<1>2. /\ TxLog("changes", q, v, n, channel, messages, changes, txMessages, txChanges)
      /\ txChanges \in ChangeTable /\ done \in [Pushers -> Nat] /\ n \in Nat /\ q \in Pushes
  BY <1>1, RequestOf DEF LogInv, ChannelInv, TypeOK
<1>3. /\ \A id \in Ids : txMessages[id] = VersionIn(messages, q, id, Len(q.messages) + 1)
      /\ \A s \in Seqs : txChanges[s] = ChangeIn(changes, q, s, v, n + 1)
      /\ \A i \in DOMAIN q.messages : AdmitsIn(messages, q, i)
      /\ \A i \in DOMAIN q.changes : i <= n => q.changes[i].ours
      /\ Acceptable(q) /\ v = IF channel = NoRow THEN 0 ELSE channel.pv
  BY <1>2 DEF TxLog
<1>4. e.seq \in Seqs
  BY <1>1, <1>2, ChangeFields
<1>5. \A s \in Seqs : txChanges'[s] = IF e.seq = s THEN e.row ELSE txChanges[s]
  BY <1>1, <1>2, <1>4 DEF ChangeTable
<1>6. \A s \in Seqs : txChanges'[s] = ChangeIn(changes, q, s, v, n + 2)
  BY <1>1, <1>2, <1>3, <1>5, ChangeMore
<1>7. \A i \in DOMAIN q.changes : i <= n + 1 => q.changes[i].ours
  <2>1. DOMAIN q.changes \subseteq Nat
    BY <1>2, PushFields
  <2> QED BY <1>1, <1>2, <1>3, <2>1
<1>8. (n + 1) + 1 = n + 2
  BY <1>2
<1>9. TxLog("changes", q, v, n + 1, channel, messages, changes, txMessages, txChanges')
  BY <1>3, <1>6, <1>7, <1>8 DEF TxLog
<1>10. /\ pc'[p] = "changes" /\ req'[p] = q /\ oldPV'[p] = v /\ done'[p] = n + 1
       /\ channel' = channel /\ messages' = messages /\ changes' = changes /\ txMessages' = txMessages
  BY <1>1, <1>2 DEF tables
<1> QED BY <1>9, <1>10

\* Every step of a channel with one push at a time keeps LogInv.
LEMMA LogNext ==
  ASSUME ChannelInv, LogInv, [Next]_vars, \A p, x \in Pushers : p = x
  PROVE  LogInv'
<1> DEFINE Kept(p) == TxLog(pc'[p], req'[p], oldPV'[p], done'[p], channel', messages', changes',
                            txMessages', txChanges')
<1>0. /\ pc \in [Pushers -> {"idle", "checked", "messages", "changes"}] /\ req \in [Pushers -> Pushes \cup {NoRow}]
      /\ oldPV \in [Pushers -> Nat]
  BY DEF ChannelInv, TypeOK
<1>a. SUFFICES \A p \in Pushers : Kept(p)
  BY LogThen
<1>1. ASSUME NEW p \in Pushers, NEW q \in Pushes, PushCheck(p, q) PROVE Kept(p)
  <2>1. pc'[p] = "checked" /\ req'[p] = q /\ Acceptable(q) /\ channel' = channel
        /\ oldPV'[p] = IF channel = NoRow THEN 0 ELSE channel.pv
    BY <1>0, <1>1 DEF PushCheck, tables
  <2> QED BY <2>1, LogOutside
<1>2. ASSUME NEW p \in Pushers, Forget(p) PROVE Kept(p)
  <2>1. pc'[p] = "idle"
    BY <1>0, <1>2 DEF Forget
  <2> QED BY <2>1, LogOutside
<1>3. ASSUME NEW p \in Pushers, PushCommit(p) \/ PushRollback(p) \/ PushTimesOut(p) PROVE Kept(p)
  BY <1>2, <1>3 DEF PushCommit, PushRollback, PushTimesOut
<1>4. ASSUME NEW p \in Pushers, PushBegin(p) \/ PushMessage(p) \/ PushProfile(p) \/ PushChange(p) PROVE Kept(p)
  BY <1>4, LogBegin, LogMessage, LogProfile, LogChange
<1>5. ASSUME NEW p \in Pushers, UNCHANGED <<tables, txVars, pushVars>> PROVE Kept(p)
  <2>1. TxLog(pc[p], req[p], oldPV[p], done[p], channel, messages, changes, txMessages, txChanges)
    BY DEF LogInv
  <2> QED BY <1>5, <2>1 DEF tables, txVars, pushVars
<1>6. ASSUME NEW p \in Pushers, Crash PROVE Kept(p)
  <2>1. pc'[p] = "idle"
    BY <1>6 DEF Crash
  <2> QED BY <2>1, LogOutside
<1>7. ASSUME (\E rd \in Readers : SyncHead(rd) \/ SyncItems(rd) \/ ListMessages(rd)) \/ UNCHANGED vars
      PROVE  UNCHANGED <<tables, txVars, pushVars>>
  BY <1>7 DEF SyncHead, SyncItems, ListMessages, vars
<1> HIDE DEF Kept
<1> QED BY <1>1, <1>3, <1>4, <1>5, <1>6, <1>7 DEF Next, TxStep

-----------------------------------------------------------------------------
(* The refinement.                                                         *)

\* ChannelLog's change is the one the transaction has left.
LEMMA SameChange ==
  ASSUME NEW q \in Pushes, NEW s \in Seqs, ChannelInv, NEW v, v = (IF channel = NoRow THEN 0 ELSE channel.pv)
  PROVE  L!Change(q, s) = ChangeIn(changes, q, s, v, Len(q.changes) + 1)
<1> DEFINE e == LastIn(BySeq(q.changes, s, Len(q.changes) + 1))
           m == LastIn(BySeq(q.messages, s, Len(q.messages) + 1))
           row == IF changes[s] = NoRow
                  THEN [kind |-> "message", id |-> 0, ver |-> 0, pv |-> 0] ELSE changes[s]
<1>1. L!Change(q, s) =
        IF e # 0 THEN q.changes[e].row
        ELSE IF m # 0
        THEN [kind |-> "message", id |-> q.messages[m].id, ver |-> q.messages[m].ver, pv |-> row.pv]
        ELSE IF L!OnlyProfile(q) /\ s = q.lastSeq
        THEN [kind |-> "profile", id |-> row.id, ver |-> row.ver, pv |-> q.pv]
        ELSE changes[s]
  BY DEF L!Change, L!LastBefore, LastIn, BySeq
<1>2. changes[s] \in ChangeRow \cup {NoRow} /\ q.pv \in Nat /\ (channel # NoRow => channel.pv \in Nat)
  BY PushFields DEF ChannelInv, TypeOK, ChangeTable, ChannelRow
<1>3. ASSUME NEW x PROVE [kind |-> "message", id |-> x.id, ver |-> x.ver, pv |-> row.pv] = MessageChange(x, changes[s])
  BY DEF MessageChange
<1>4. [kind |-> "profile", id |-> row.id, ver |-> row.ver, pv |-> q.pv] = ProfileChange(q.pv, changes[s])
  BY DEF ProfileChange
<1>5. L!OnlyProfile(q) <=> q.pv > v /\ q.messages = <<>> /\ q.changes = <<>>
  <2>1. (channel = NoRow \/ q.pv > channel.pv) /\ q.pv > 0 <=> q.pv > v
    BY <1>2
  <2> QED BY <2>1 DEF L!OnlyProfile
<1>6. ASSUME q.messages = <<>> PROVE m = 0
  BY <1>6 DEF LastIn, BySeq
<1> HIDE DEF e, m, row
<1>7. ChangeIn(changes, q, s, v, Len(q.changes) + 1) =
        IF e = 0
        THEN IF q.pv > v /\ q.messages = <<>> /\ q.changes = <<>> /\ s = q.lastSeq
             THEN ProfileChange(q.pv, changes[s])
             ELSE IF m = 0 THEN changes[s] ELSE MessageChange(q.messages[m], changes[s])
        ELSE q.changes[e].row
  BY DEF ChangeIn, ProfileIn, RowIn, e, m
<1>8. CASE e # 0
  BY <1>1, <1>7, <1>8
<1>9. CASE e = 0 /\ m # 0
  BY <1>1, <1>3, <1>6, <1>7, <1>9
<1>10. CASE e = 0 /\ m = 0
  BY <1>1, <1>4, <1>5, <1>7, <1>10
<1> QED BY <1>8, <1>9, <1>10

\* A commit publishes its push.
LEMMA CommitPublishes ==
  ASSUME ChannelInv, HeadInv, LogInv, NEW p \in Pushers, PushCommit(p)
  PROVE  \E q \in Pushes : L!Publish(q)
<1> DEFINE q == req[p]
           v == oldPV[p]
<1>1. /\ pc[p] = "changes" /\ done[p] = Len(q.changes)
      /\ channel' = txChannel /\ messages' = txMessages /\ changes' = txChanges
  BY DEF PushCommit
<1>2. /\ q \in Pushes /\ txChannel = Upserted(q) /\ NotStale(q) /\ WithinHead(q)
      /\ txMessages \in MessageTable /\ txChanges \in ChangeTable
  BY <1>1, RequestOf DEF ChannelInv, TypeOK, PushOK, HeadInv
<1>3. TxLog("changes", q, v, Len(q.changes), channel, messages, changes, txMessages, txChanges)
  BY <1>1 DEF LogInv
<1>4. /\ \A id \in Ids : txMessages[id] = VersionIn(messages, q, id, Len(q.messages) + 1)
      /\ \A s \in Seqs : txChanges[s] = ChangeIn(changes, q, s, v, Len(q.changes) + 1)
      /\ \A i \in DOMAIN q.messages : AdmitsIn(messages, q, i)
      /\ \A i \in DOMAIN q.changes : i <= Len(q.changes) => q.changes[i].ours
      /\ Acceptable(q) /\ v = IF channel = NoRow THEN 0 ELSE channel.pv
  BY <1>3 DEF TxLog
<1>5. L!Publishable(q)
  <2>1. \A i \in DOMAIN q.changes : q.changes[i].ours
    <3>1. \A i \in DOMAIN q.changes : i <= Len(q.changes)
      BY <1>2, PushFields
    <3> QED BY <1>4, <3>1
  <2>2. \A i \in DOMAIN q.messages : L!Admits(q, i)
    BY <1>4, SameAdmits
  <2> QED BY <1>2, <1>4, <2>1, <2>2 DEF L!Publishable, Acceptable, NotStale, WithinHead
<1>6. messages' = [id \in Ids |-> L!Version(q, id, Len(q.messages) + 1)]
  <2>1. \A id \in Ids : txMessages[id] = L!Version(q, id, Len(q.messages) + 1)
    BY <1>4, SameVersion
  <2> QED BY <1>1, <1>2, <2>1 DEF MessageTable
<1>7. changes' = [s \in Seqs |-> L!Change(q, s)]
  <2>1. \A s \in Seqs : txChanges[s] = L!Change(q, s)
    BY <1>2, <1>4, SameChange
  <2> QED BY <1>1, <1>2, <2>1 DEF ChangeTable
<1>8. channel' = [owner |-> q.owner, pv |-> q.pv, lastId |-> q.lastId, lastSeq |-> q.lastSeq]
  BY <1>1, <1>2 DEF Upserted
<1> QED BY <1>2, <1>5, <1>6, <1>7, <1>8 DEF L!Publish

\* With one push at a time the tables are a ChannelLog: what readers see changes by
\* whole pushes that may be published at that moment, whatever fails, times out or
\* crashes.
THEOREM LogRefinement ==
  ASSUME \A p, x \in Pushers : p = x
  PROVE  Spec => ImplementsLog
<1>1. Init => LogInv /\ L!LogInit
  <2> SUFFICES ASSUME Init PROVE LogInv /\ L!LogInit
    OBVIOUS
  <2>1. LogInv
    BY LogOutside DEF Init, LogInv
  <2> QED BY <2>1 DEF Init, L!LogInit
<1>2. (ChannelInv /\ HeadInv) /\ LogInv /\ [Next]_vars => LogInv' /\ [\E q \in Pushes : L!Publish(q)]_(L!log)
  <2> SUFFICES ASSUME ChannelInv, HeadInv, LogInv, [Next]_vars
               PROVE  LogInv' /\ [\E q \in Pushes : L!Publish(q)]_(L!log)
    OBVIOUS
  <2>1. LogInv'
    BY LogNext
  <2>2. CASE tables' = tables
    BY <2>1, <2>2 DEF tables, L!log
  <2>3. CASE tables' # tables
    BY <2>1, <2>3, OnlyCommits, CommitPublishes
  <2> QED BY <2>2, <2>3
<1> QED BY <1>1, <1>2, HeadInvariance, PTL DEF Spec, ImplementsLog, L!LogSpec

================================================================================
